------------------------------ MODULE Settings ------------------------------
(***************************************************************************)
(* saveSettings of internal/api, config.Load and config.Save, and the two  *)
(* places that use the settings in the running process: the start of the   *)
(* forwarder and the callback that takes a reading.                        *)
(*                                                                         *)
(* Handlers share one *config.Config without a lock.  A handler's          *)
(* assignments are two steps, the switches and then the MQTT section, and  *)
(* the file is truncated in one step and written in another.               *)
(*                                                                         *)
(* A configuration keeps the Store & Forward switch, the transport and, of *)
(* the MQTT section, the broker and the password; every other field is     *)
(* assigned like one of these.                                             *)
(***************************************************************************)
EXTENDS Integers

CONSTANTS
    Savers,     \* bound: handlers that save settings
    Forms,      \* what is submitted: [on, transport, url, pass, ntp]
    Starts      \* configurations the gateway may start with

\* A configuration, as it is in the process and in the file.
Config == [on : BOOLEAN, transport : {"http", "mqtt", ""},
           url : {"broker", "junk", ""}, pass : {"p", "p$x", ""}, whole : BOOLEAN]

\* A form, as it is decoded.
Submission == [on : BOOLEAN, transport : {"http", "mqtt", ""},
               url : {"broker", "padded", "junk", ""}, pass : {"p", "p$x", ""},
               ntp : BOOLEAN]

ASSUME SettingsAssumption == Forms \subseteq Submission /\ Starts \subseteq Config

VARIABLES
    file,       \* config.yaml
    cfg,        \* the live configuration
    queue,      \* the process has opened the queue
    saves,      \* where each handler is
    exiting,    \* a handler has started the goroutine that calls os.Exit
    tested,     \* history: MQTT sections that a broker has accepted
    mixed       \* history: two handlers changed cfg at the same time

settingsVars == <<file, cfg, queue, saves, exiting, tested, mixed>>

NoSave == [pc |-> "idle"]

\* The bytes of the file are gone: os.WriteFile truncates before it writes.
Truncated == [on |-> TRUE, transport |-> "", url |-> "", pass |-> "", whole |-> FALSE]

\* strings.TrimSpace and url.Parse, on a broker URL that is fine, one that has
\* a space around it and one that does not parse.
Trimmed(url) == IF url = "padded" THEN "broker" ELSE url
Parses(url) == Trimmed(url) = "broker"

\* os.ExpandEnv takes what follows a dollar sign for a variable.
Expanded(pass) == IF pass = "p$x" THEN "p" ELSE pass

\* config.Load: expansion, then the defaults.
Load(f) ==
    [f EXCEPT !.pass = Expanded(@), !.transport = IF @ = "" THEN "http" ELSE @,
              !.whole = TRUE]

\* The MQTT section.
Mqtt(c) == <<c.url, c.pass>>

\* main: the queue is opened, and an adapter built, unless the switch is off.
SettingsInit ==
    /\ file \in Starts
    /\ cfg = Load(file)
    /\ queue = cfg.on
    /\ saves = [x \in Savers |-> NoSave]
    /\ exiting = FALSE
    /\ tested = {Mqtt(cfg)}
    /\ mixed = FALSE

---------------------------------------------------------------------------
(* saveSettings. *)

\* The checks of the form that come before anything else.
Accepted(form) ==
    form.on => Parses(form.url) /\ form.transport \in {"http", "mqtt"}

\* Mutant: the broker URL goes into the section as it was typed.
NewMqttRaw(form) ==
    <<form.url, IF form.pass = "" THEN cfg.pass ELSE form.pass>>
\* The section this save would produce: an empty password keeps the one in use.
NewMqtt(form) ==
    <<Trimmed(form.url), IF form.pass = "" THEN cfg.pass ELSE form.pass>>

Submit(x, form) ==
    /\ saves[x].pc = "idle"
    /\ Accepted(form)
    /\ saves' = [saves EXCEPT ![x] =
                   [pc |-> IF form.on /\ form.transport = "mqtt" THEN "test" ELSE "commit",
                    form |-> form, mqtt |-> NewMqtt(form)]]
    /\ UNCHANGED <<file, cfg, queue, exiting, tested, mixed>>

\* testMQTTConnect: the broker takes the section, or the save is rejected.
TestConnect(x) ==
    /\ saves[x].pc = "test"
    /\ \/ /\ tested' = tested \cup {saves[x].mqtt}
          /\ saves' = [saves EXCEPT ![x].pc = "commit"]
       \/ /\ saves' = [saves EXCEPT ![x] = NoSave]
          /\ UNCHANGED tested
    /\ UNCHANGED <<file, cfg, queue, exiting, mixed>>

Changing(x) == saves[x].pc \in {"mqtt", "save", "write"}

\* Mutant: the test comes last.
CommitUntested(x) ==
    /\ saves[x].pc \in {"test", "commit"}
    /\ cfg' = [cfg EXCEPT !.on = saves[x].form.on, !.transport = saves[x].form.transport]
    /\ saves' = [saves EXCEPT ![x].pc = "mqtt"]
    /\ mixed' = (mixed \/ \E y \in Savers : Changing(y))
    /\ UNCHANGED <<file, queue, exiting, tested>>
Commit(x) ==
    /\ saves[x].pc = "commit"
    /\ cfg' = [cfg EXCEPT !.on = saves[x].form.on, !.transport = saves[x].form.transport]
    /\ saves' = [saves EXCEPT ![x].pc = "mqtt"]
    /\ mixed' = (mixed \/ \E y \in Savers : Changing(y))
    /\ UNCHANGED <<file, queue, exiting, tested>>

\* The MQTT section; then normalizeNTPServer may reject the save, with all of
\* this left in place.
CommitMqtt(x) ==
    /\ saves[x].pc = "mqtt"
    /\ cfg' = [cfg EXCEPT !.url = saves[x].mqtt[1], !.pass = saves[x].mqtt[2]]
    /\ saves' = [saves EXCEPT ![x] = IF saves[x].form.ntp THEN [@ EXCEPT !.pc = "save"]
                                                           ELSE NoSave]
    /\ UNCHANGED <<file, queue, exiting, tested, mixed>>

\* config.Save: marshal, truncate.
SaveOpen(x) ==
    /\ saves[x].pc = "save"
    /\ saves' = [saves EXCEPT ![x] = [pc |-> "write", data |-> cfg]]
    /\ file' = Truncated
    /\ UNCHANGED <<cfg, queue, exiting, tested, mixed>>

\* The write, the answer, and the goroutine that ends the process.
SaveWrite(x) ==
    /\ saves[x].pc = "write"
    /\ file' = [saves[x].data EXCEPT !.whole = TRUE]
    /\ saves' = [saves EXCEPT ![x] = NoSave]
    /\ exiting' = TRUE
    /\ UNCHANGED <<cfg, queue, tested, mixed>>

\* The file cannot be opened, or the disk is full.
SaveFails(x) ==
    /\ saves[x].pc \in {"save", "write"}
    /\ saves' = [saves EXCEPT ![x] = NoSave]
    /\ UNCHANGED <<file, cfg, queue, exiting, tested, mixed>>

---------------------------------------------------------------------------

\* The reading callback calls Append on a queue that was never opened: the
\* switch has been turned on since the process started.
Panics == cfg.on /\ ~queue

SettingsRestart ==
    /\ cfg' = Load(file)
    /\ queue' = cfg'.on
    /\ saves' = [x \in Savers |-> NoSave]
    /\ exiting' = FALSE
    /\ UNCHANGED <<file, tested, mixed>>

---------------------------------------------------------------------------

SettingsTypeOK ==
    /\ file \in Config /\ cfg \in Config
    /\ queue \in BOOLEAN /\ exiting \in BOOLEAN /\ mixed \in BOOLEAN
    /\ \A x \in Savers :
          saves[x].pc \in {"idle", "test", "commit", "mqtt", "save", "write"}

\* Saved settings start: unless config.yaml is cut short or two handlers mixed
\* their changes, its transport is one that buildAdapter knows and, for MQTT, a
\* broker has accepted the section that the next process will use.  A password
\* with a dollar sign is the exception: it is tested as typed and expanded when
\* it is loaded.
SavedStarts ==
    file.whole /\ file.on /\ ~mixed =>
        /\ Load(file).transport \in {"http", "mqtt"}
        /\ file.transport = "mqtt" /\ Expanded(file.pass) = file.pass
             => Mqtt(Load(file)) \in tested

\* settings.go:237: "never leaving s.cfg/disk in a half-applied state on a
\* rejected save".  With no save under way and none answered, the process and
\* config.yaml agree.
NeverHalfApplied ==
    (\A x \in Savers : saves[x] = NoSave) /\ ~exiting => cfg = Load(file)
=============================================================================
