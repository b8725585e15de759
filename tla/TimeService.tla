---------------------------- MODULE TimeService -----------------------------
(***************************************************************************)
(* internal/time: the Time Service asks an NTP server for the offset of    *)
(* the system clock, steps the clock and the RTC, and reports how far the  *)
(* time can be trusted.                                                    *)
(*                                                                         *)
(* Time passes while a packet travels and between any two statements; one  *)
(* unit stands for the resolution of the exchange.  NTP seconds are 32     *)
(* bits wide: EraLength stands for 2^32.                                   *)
(***************************************************************************)
EXTENDS Integers

CONSTANTS
    EraLength,    \* values of the seconds field
    MaxReal,      \* bound: the true time
    Skews,        \* how far a clock may be off at the start
    Earliest,     \* isPlausible: the clock has been set at all
    Latest        \* isPlausible: and not to a time beyond its last year

ASSUME TimeAssumption ==
    /\ EraLength \in Nat /\ EraLength > 3 /\ MaxReal \in Nat
    /\ Earliest \in Int /\ Latest \in Int
    /\ EraLength - 3 <= MaxReal
    /\ Skews \subseteq Int

VARIABLES
    server,     \* an NTP server is configured
    real,       \* the true time
    skew,       \* the system clock minus the true time
    rtc,        \* the RTC minus the true time
    sync,       \* syncOnce: where it is and what it has measured
    status      \* Service.status

timeVars == <<server, real, skew, rtc, sync, status>>

Clock == real + skew

NoSync == [pc |-> "idle"]

TimeInit ==
    /\ server \in BOOLEAN
    /\ real \in {0, EraLength - 3}
    /\ skew \in Skews
    /\ rtc \in Skews
    /\ sync = NoSync
    /\ status = [quality |-> "UNSYNCED", synced |-> FALSE, rtcAvailable |-> FALSE]

Tick ==
    /\ real < MaxReal
    /\ real' = real + 1
    /\ UNCHANGED <<server, skew, rtc, sync, status>>

---------------------------------------------------------------------------
(* syncOnce. *)

\* checkRTC, and the request is sent if there is a server to ask.
Begin(read) ==
    /\ sync.pc = "idle"
    /\ status' = [status EXCEPT !.rtcAvailable = read]
    /\ sync' = IF server THEN [pc |-> "sent", t1 |-> Clock, sentAt |-> real]
                         ELSE [pc |-> "degrade"]
    /\ UNCHANGED <<server, real, skew, rtc>>

\* ntpTimestampToTime of what the server stamps: seconds of this era.
Stamp == real % EraLength

Receive ==
    /\ sync.pc = "sent"
    /\ sync' = [pc |-> "served", t1 |-> sync.t1, sentAt |-> sync.sentAt, t2 |-> Stamp,
                era |-> real < EraLength]
    /\ UNCHANGED <<server, real, skew, rtc, status>>

Transmit ==
    /\ sync.pc = "served"
    /\ sync' = [pc |-> "answered", t1 |-> sync.t1, sentAt |-> sync.sentAt, t2 |-> sync.t2,
                t3 |-> Stamp, era |-> sync.era /\ real < EraLength]
    /\ UNCHANGED <<server, real, skew, rtc, status>>

\* Division of integers in Go: towards zero.
Half(n) == IF n >= 0 THEN n \div 2 ELSE -((-n) \div 2)

\* Mutant: the way back is not counted.
OffsetOneWay(t1, t2, t3, t4) == t2 - t1
\* queryNTP.
Offset(t1, t2, t3, t4) == Half((t2 - t1) + (t3 - t4))

\* The answer is read and the clock with it: corrected := now.Add(offset).
Answer ==
    /\ sync.pc = "answered"
    /\ sync' = [pc |-> "set", readAt |-> real, trip |-> real - sync.sentAt, era |-> sync.era,
                corrected |-> Clock + Offset(sync.t1, sync.t2, sync.t3, Clock)]
    /\ UNCHANGED <<server, real, skew, rtc, status>>

\* No answer, a short one, not a server's, or a kiss of death.
NoAnswer ==
    /\ sync.pc \in {"sent", "served", "answered"}
    /\ sync' = [pc |-> "degrade"]
    /\ UNCHANGED <<server, real, skew, rtc, status>>

Plausible == Clock \in Earliest .. Latest

\* degrade: RTC, then the local clock if it is plausible.
Degrade ==
    /\ sync.pc = "degrade"
    /\ status' = [status EXCEPT !.synced = FALSE,
                    !.quality = IF status.rtcAvailable THEN "RTC"
                                ELSE IF Plausible THEN "UNSYNCED"
                                ELSE "INVALID"]
    /\ sync' = NoSync
    /\ UNCHANGED <<server, real, skew, rtc>>

\* clock.Set: an error is only logged.
SetClock(works) ==
    /\ sync.pc = "set"
    /\ skew' = IF works THEN sync.corrected - real ELSE skew
    /\ sync' = [pc |-> "status", corrected |-> sync.corrected, set |-> works,
                era |-> sync.era, trip |-> sync.trip, wait |-> real - sync.readAt]
    /\ UNCHANGED <<server, real, rtc, status>>

Synced ==
    /\ sync.pc = "status"
    /\ status' = [status EXCEPT !.synced = TRUE, !.quality = "SYNCED"]
    /\ sync' = [sync EXCEPT !.pc = "rtc"]
    /\ UNCHANGED <<server, real, skew, rtc>>

\* rtc.Write of the same corrected time.
WriteRTC(works) ==
    /\ sync.pc = "rtc"
    /\ rtc' = IF works THEN sync.corrected - real ELSE rtc
    /\ sync' = NoSync
    /\ UNCHANGED <<server, real, skew, status>>

SyncOnce ==
    \/ \E b \in BOOLEAN : Begin(b) \/ SetClock(b) \/ WriteRTC(b)
    \/ Receive
    \/ Transmit
    \/ Answer
    \/ NoAnswer
    \/ Degrade
    \/ Synced

\* A new process: the clocks go on, the status starts afresh, and
\* the settings may name a server or none.
TimeRestart ==
    /\ server' \in BOOLEAN
    /\ sync' = NoSync
    /\ status' = [quality |-> "UNSYNCED", synced |-> FALSE, rtcAvailable |-> FALSE]
    /\ UNCHANGED <<real, skew, rtc>>

---------------------------------------------------------------------------

TimeTypeOK ==
    /\ server \in BOOLEAN
    /\ real \in 0 .. MaxReal
    /\ skew \in Int /\ rtc \in Int
    /\ sync.pc \in {"idle", "sent", "served", "answered", "degrade", "set", "status", "rtc"}
    /\ status \in [quality : {"SYNCED", "RTC", "UNSYNCED", "INVALID"},
                   synced : BOOLEAN, rtcAvailable : BOOLEAN]

\* The clock that a sync has set is off by at most half the round trip, plus
\* what passed between reading the clock and setting it: however the packets
\* were delayed on the way there and back, until the seconds field wraps.
ClockBounded ==
    sync.pc \in {"status", "rtc"} /\ sync.set /\ sync.era
        => LET bound == sync.trip + 2 * sync.wait + 1
           IN  2 * skew \in -bound .. bound
=============================================================================
