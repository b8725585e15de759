----------------------------- MODULE MCServices -----------------------------
(***************************************************************************)
(* A small instance of Services.  The services meet in Restart only and    *)
(* share no other variable, so a behaviour exercises one of them.          *)
(***************************************************************************)
EXTENDS Services

VARIABLE part      \* which services take steps

Form(on, transport, url, pass, ntp) ==
    [on |-> on, transport |-> transport, url |-> url, pass |-> pass, ntp |-> ntp]

MCForms ==
    {Form(TRUE, "mqtt", "broker", "p", TRUE),
     Form(TRUE, "mqtt", "padded", "", TRUE),
     Form(TRUE, "mqtt", "broker", "p$x", TRUE),
     Form(TRUE, "http", "broker", "", TRUE),
     Form(FALSE, "mqtt", "junk", "", TRUE),
     Form(TRUE, "mqtt", "junk", "", TRUE),
     Form(FALSE, "", "broker", "p", FALSE)}

StartWith(on, pass) ==
    [on |-> on, transport |-> "http", url |-> "broker", pass |-> pass, whole |-> TRUE]

MCStarts == {StartWith(TRUE, ""), StartWith(FALSE, "")}

MCSkews == {-3, 0, 2}

Ipv4(method, addr, gw, dns) == [method |-> method, addr |-> addr, gw |-> gw, dns |-> dns]

\* Address 1 is in use, 2 is the gateway, 3 is asked for and 4 is leased.
MCLease == [addr |-> 4, gw |-> 2, dns |-> {2}]

MCProfiles ==
    {Ipv4("auto", 0, 0, {}), Ipv4("manual", 1, 2, {1}), Ipv4("manual", 1, 2, {}),
     Ipv4("manual", 1, 0, {})}

MCChanges ==
    {Ipv4("auto", 0, 0, {}), Ipv4("manual", 3, 2, {2}), Ipv4("manual", 3, 0, {})}

MCInit ==
    /\ Init
    /\ part \in {"net", "settings", "watch", "time"}
    /\ \A i \in Ifaces : part # "net" \/ i # Primary => profile[i].method = "auto"
    /\ part # "settings" => cfg.on
    /\ rtc = 0
    /\ part # "time" => ~server /\ real = 0 /\ skew = 0

\* Handlers are alike: the first free one takes the next request.
FirstFree ==
    \A o \in Operators :
          applies[o] = NoApply /\ applies'[o] # NoApply
              => \A p \in Operators : p < o => applies[p] # NoApply

\* Two requests are of any kind; a third comes alone, and asks for a static address
\* of the primary interface.
LastIsPlain ==
    \A o \in Operators :
          applies[o] = NoApply /\ applies'[o] # NoApply /\ events = MaxEvents - 1
              => LET a == applies'[o]
                 IN  /\ \A p \in Operators : applies[p] = NoApply
                     /\ a.iface = a.prev.iface /\ a.prev.method # ""
                     /\ a.want.method = "manual" /\ Valid(a.want)

MCNext ==
    /\ \/ part = "net" /\ NetStep /\ FirstFree /\ LastIsPlain
       \/ part = "settings" /\ SettingsStep
       \/ part = "watch" /\ WatchStep
       \/ part = "time" /\ TimeStep
       \/ Restart /\ IF part = "time" THEN events = 0 ELSE UNCHANGED server
    /\ part' = part

\* Only the settings page is used; with one event, to submit a form, nothing
\* fails.
RejectedSaveSpec ==
    /\ MCInit /\ part = "settings"
    /\ [][part = "settings" /\ SettingsStep /\ part' = part]_<<vars, part>>

MCSpec ==
    /\ MCInit
    /\ [][MCNext]_<<vars, part>>
    /\ WF_<<vars, part>>(part = "watch" /\ Adapter /\ WatchStep /\ part' = part)
=============================================================================
