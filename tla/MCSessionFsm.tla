---------------------------- MODULE MCSessionFsm ----------------------------
(* Instances of SessionFsm for TLC. *)
EXTENDS SessionFsm, TLC

MCTimerMsg == [n \in TimerNames |-> "timer:" \o n]

Tr(msg, guard, to, sets) == [msg |-> msg, guard |-> guard, to |-> to, sets |-> sets]
NoGuard == <<>>
NoSets  == <<>>
Set(x, y) == [var |-> x, value |-> y]

\* The connection machine of tcp.nfdl cut down to three states, with the timer
\* transition of the engine's own tests and a second `set` that reads the first.
Connection ==
    "Connection" :>
        [states |-> <<"CLOSED", "ESTABLISHED", "FIN_WAIT">>,
         trans  |->
            "CLOSED" :> << Tr("Segment", "syn" :> 1, "ESTABLISHED",
                           << Set("seen", "syn"), Set("last", "seen") >>) >>
         @@ "ESTABLISHED" :> << Tr("Segment", "syn" :> 0, "FIN_WAIT", NoSets),
                                Tr("timer:idle", NoGuard, "CLOSED", NoSets),
                                Tr("Segment", NoGuard, "ESTABLISHED", << Set("seen", "syn") >>) >>]

Segments == {[msg |-> "Segment", ctx |-> "syn" :> b] : b \in {0, 1}}

\* The dialog of radius.nfdl.
Radius ==
    "AuthDialog" :>
        [states |-> <<"IDLE", "PENDING">>,
         trans  |-> "IDLE" :> << Tr("AccessMessage", "code" :> 1, "PENDING",
                                    << Set("req_auth", "auth") >>) >>
                 @@ "PENDING" :> << Tr("AccessMessage", "code" :> 2, "IDLE", NoSets),
                                    Tr("AccessMessage", "code" :> 3, "IDLE", NoSets) >>]

Access == {[msg |-> "AccessMessage", ctx |-> "code" :> c] : c \in 1..3}
=============================================================================
