------------------------- MODULE MCWorkerLifecycle -------------------------
(* Either many restarts and nothing on the wire, or traffic and at most one  *)
(* restart: a failing port, a command, a recording made and played.          *)
EXTENDS Wire, TLC

CONSTANT r1

Quiet == [callers |-> Callers, sends |-> 0, posts |-> 0, fails |-> FALSE,
          records |-> {}, deletes |-> TRUE, tape |-> <<Stamp, <<1, 1>>>>]

\* `deeds` of: a port that fails, a recording, a restart, a command.
Busy(n, deeds) ==
    [Quiet EXCEPT !.callers = Sockets \cup (IF "restart" \in deeds THEN {r1} ELSE {}),
                  !.sends = n, !.posts = IF "post" \in deeds THEN 1 ELSE 0,
                  !.fails = "fail" \in deeds,
                  !.records = IF "record" \in deeds THEN {"serial", "raw"} ELSE {},
                  !.tape = <<>>, !.deletes = FALSE]

\* Two packets recorded raw from a stream, without a mark between them.
Replayed == [Busy(0, {"restart"}) EXCEPT
                !.tape = <<<<1, 1>>, <<1, 2>>, <<2, 1>>, <<2, 2>>>>]

Setup(t, f, p) == [console |-> [transport |-> t, framing |-> f], plan |-> p]

MCSetups ==
    {Setup("manual", "none", Quiet),
     Setup("manual", "none", Busy(0, {"post", "restart"})),
     Setup("serial", "header", Busy(2, {"record"})),
     Setup("serial", "header", Replayed),
     Setup("udp", "none", Busy(2, {"record", "restart"})),
     Setup("tcp", "header", Busy(2, {"fail", "post"})),
     Setup("serial", "own", Busy(3, {"record"}))}
=============================================================================
