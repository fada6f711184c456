------------------------ MODULE SessionManagerProofs ------------------------
(***************************************************************************)
(* Proofs about module SessionManager, for every finite set of wrappers,    *)
(* every limit of its configuration and every number of connections: what   *)
(* the manager counts is exact, no session is leaked, forgotten or reset    *)
(* in use, the accept loop keeps going, and the manager implements for its  *)
(* user the interface it expects of its sessions.  The proofs about its     *)
(* session factory, module SessionFactory, are at the end.                  *)
(***************************************************************************)
EXTENDS SessionManager, SessionFactory, FiniteSetTheorems, SequenceTheorems, TLAPS

(***************************************************************************)
(* What the operations of the interface do, member by member.               *)
(***************************************************************************)
\* An answer is one more result of its call, and nothing else.
AnsweredAs(x, y, call, error) ==
  /\ y \in Api!ApiStates
  /\ y.extern_state = x.extern_state /\ y.run = x.run
  /\ y.extern_wait_error = x.extern_wait_error
  /\ y.wait_handler = x.wait_handler /\ y.stop_handler = x.stop_handler
  /\ y.posted["start"] = IF call = "start" THEN Append(x.posted["start"], error)
                                           ELSE x.posted["start"]
  /\ y.posted["wait"] = IF call = "wait" THEN Append(x.posted["wait"], error)
                                         ELSE x.posted["wait"]
  /\ y.posted["stop"] = IF call = "stop" THEN Append(x.posted["stop"], error)
                                         ELSE x.posted["stop"]

\* Answer appends the error to the results of its call.
LEMMA Answered ==
  ASSUME NEW x \in Api!ApiStates, NEW call \in Api!Calls, NEW error \in Api!Errors
  PROVE  AnsweredAs(x, Api!Answer(x, call, error), call, error)
  <1> DEFINE y == Api!Answer(x, call, error)
             longer == [x.posted EXCEPT ![call] = Append(@, error)]
  <1>1. x.posted \in [Api!Calls -> Seq(Api!Errors)]
    BY DEF Api!ApiStates
  <1>2. /\ longer \in [Api!Calls -> Seq(Api!Errors)]
        /\ longer[call] = Append(x.posted[call], error)
        /\ \A c \in Api!Calls : c # call => longer[c] = x.posted[c]
    BY <1>1
  <1>3. y = [x EXCEPT !.posted = longer]
    BY Zenon DEF Api!Answer
  <1> HIDE DEF longer
  <1>4. /\ y \in Api!ApiStates /\ y.posted = longer
        /\ y.extern_state = x.extern_state /\ y.run = x.run
        /\ y.extern_wait_error = x.extern_wait_error
        /\ y.wait_handler = x.wait_handler /\ y.stop_handler = x.stop_handler
    BY <1>2, <1>3 DEF Api!ApiStates
  <1> HIDE DEF y
  <1>5. AnsweredAs(x, y, call, error)
    BY <1>2, <1>4 DEF AnsweredAs, Api!Calls
  <1> QED
    BY <1>5 DEF y

\* The end is told to a parked wait, and to nobody else.
LEMMA Told ==
  ASSUME NEW x \in Api!ApiStates, NEW reason \in Api!Errors
  PROVE  LET y == Api!Tell(x, reason)
         IN  /\ y \in Api!ApiStates
             /\ y.extern_state = x.extern_state /\ y.run = x.run
             /\ y.extern_wait_error \in {x.extern_wait_error, reason}
             /\ y.wait_handler = FALSE /\ y.stop_handler = x.stop_handler
             /\ y.posted["start"] = x.posted["start"]
             /\ y.posted["stop"] = x.posted["stop"]
             /\ y.posted["wait"] =
                  IF x.wait_handler
                  THEN Append(x.posted["wait"], y.extern_wait_error)
                  ELSE x.posted["wait"]
  <1> DEFINE why == IF x.extern_wait_error = "ok" THEN reason
                    ELSE x.extern_wait_error
             p == [x EXCEPT !.extern_wait_error = why, !.wait_handler = FALSE]
             y == Api!Tell(x, reason)
             n == Api!Answer(p, "wait", why)
  <1>1. y = IF x.wait_handler THEN n ELSE p
    BY Zenon DEF Api!Tell
  <1>2. why \in Api!Errors /\ why \in {x.extern_wait_error, reason}
    BY DEF Api!ApiStates
  <1> HIDE DEF why
  <1>3. /\ p \in Api!ApiStates
        /\ p.extern_state = x.extern_state /\ p.run = x.run
        /\ p.extern_wait_error = why /\ p.posted = x.posted
        /\ p.wait_handler = FALSE /\ p.stop_handler = x.stop_handler
    BY <1>2 DEF Api!ApiStates
  <1> HIDE DEF p
  <1>4. "wait" \in Api!Calls
    BY DEF Api!Calls
  <1>5. AnsweredAs(p, n, "wait", why)
    BY <1>2, <1>3, <1>4, Answered
  <1> HIDE DEF n, y
  <1>6. CASE x.wait_handler
    BY <1>1, <1>2, <1>3, <1>5, <1>6 DEF y, AnsweredAs
  <1>7. CASE ~x.wait_handler
    BY <1>1, <1>2, <1>3, <1>7 DEF y
  <1> QED
    BY <1>6, <1>7

\* The end answers a parked stop, and no other call.
LEMMA Finished ==
  ASSUME NEW x \in Api!ApiStates
  PROVE  LET y == Api!Finish(x)
         IN  /\ y \in Api!ApiStates /\ y.run = "stopped"
             /\ y.extern_wait_error = x.extern_wait_error
             /\ y.wait_handler = x.wait_handler
             /\ y.posted["start"] = x.posted["start"]
             /\ y.posted["wait"] = x.posted["wait"]
             /\ \/ /\ x.extern_state # "stop" /\ y.extern_state = x.extern_state
                   /\ y.stop_handler = x.stop_handler
                   /\ y.posted["stop"] = x.posted["stop"]
                \/ /\ x.extern_state = "stop" /\ y.extern_state = "stopped"
                   /\ y.stop_handler = FALSE
                   /\ y.posted["stop"] = IF x.stop_handler
                                         THEN Append(x.posted["stop"], "ok")
                                         ELSE x.posted["stop"]
  <1> DEFINE q == [x EXCEPT !.run = "stopped"]
             u == [q EXCEPT !.extern_state = "stopped"]
             v == [q EXCEPT !.extern_state = "stopped", !.stop_handler = FALSE]
             n == Api!Answer(v, "stop", "ok")
             y == Api!Finish(x)
  <1>1. \/ y = q /\ x.extern_state # "stop"
        \/ y = n /\ x.extern_state = "stop" /\ x.stop_handler
        \/ y = u /\ x.extern_state = "stop" /\ ~x.stop_handler
    BY Zenon DEF Api!Finish
  <1>2. /\ q \in Api!ApiStates /\ q.run = "stopped"
        /\ q.extern_state = x.extern_state
        /\ q.extern_wait_error = x.extern_wait_error /\ q.posted = x.posted
        /\ q.wait_handler = x.wait_handler /\ q.stop_handler = x.stop_handler
    BY DEF Api!ApiStates
  <1> HIDE DEF q
  <1>3. /\ u \in Api!ApiStates /\ u.run = q.run /\ u.extern_state = "stopped"
        /\ u.extern_wait_error = q.extern_wait_error /\ u.posted = q.posted
        /\ u.wait_handler = q.wait_handler /\ u.stop_handler = q.stop_handler
    BY <1>2 DEF Api!ApiStates
  <1>4. /\ v \in Api!ApiStates /\ v.run = q.run /\ v.extern_state = "stopped"
        /\ v.extern_wait_error = q.extern_wait_error /\ v.posted = q.posted
        /\ v.wait_handler = q.wait_handler /\ v.stop_handler = FALSE
    BY <1>2 DEF Api!ApiStates
  <1> HIDE DEF u, v
  <1>5. "stop" \in Api!Calls /\ "ok" \in Api!Errors
    BY DEF Api!Calls, Api!Errors
  <1>6. AnsweredAs(v, n, "stop", "ok")
    BY <1>4, <1>5, Answered
  <1> HIDE DEF n, y
  <1>7. x.stop_handler \in BOOLEAN
    BY DEF Api!ApiStates
  <1>8. CASE y = q /\ x.extern_state # "stop"
    BY <1>2, <1>8 DEF y
  <1>9. CASE y = n /\ x.extern_state = "stop" /\ x.stop_handler
    BY <1>2, <1>4, <1>6, <1>9 DEF y, AnsweredAs
  <1>10. CASE y = u /\ x.extern_state = "stop" /\ ~x.stop_handler
    BY <1>2, <1>3, <1>7, <1>10 DEF y
  <1> QED
    BY <1>1, <1>8, <1>9, <1>10

\* What the wait and the stop of the user see of an end.
WaitKept(x, y) ==
  y.wait_handler = x.wait_handler /\ y.posted["wait"] = x.posted["wait"]

WaitAnswered(x, y) ==
  /\ y.wait_handler = FALSE
  /\ y.posted["wait"] = IF x.wait_handler
                        THEN Append(x.posted["wait"], y.extern_wait_error)
                        ELSE x.posted["wait"]

StopKept(x, y) ==
  /\ y.extern_state = x.extern_state /\ y.stop_handler = x.stop_handler
  /\ y.posted["stop"] = x.posted["stop"]

StopAnswered(x, y) ==
  /\ x.extern_state = "stop" /\ y.extern_state = "stopped" /\ y.run = "stopped"
  /\ y.stop_handler = FALSE
  /\ y.posted["stop"] = IF x.stop_handler THEN Append(x.posted["stop"], "ok")
                                          ELSE x.posted["stop"]

\* A session that begins to end tells a parked wait, unless it was told to stop,
\* and answers a parked stop when it has ended at once.
LEMMA EndingsSeen ==
  ASSUME NEW x \in Api!ApiStates, NEW reason \in Api!Errors,
         NEW y \in Api!Endings(x, reason)
  PROVE  /\ y \in Api!ApiStates /\ y.run # "work"
         /\ y.posted["start"] = x.posted["start"]
         /\ IF x.extern_state = "work"
            THEN /\ WaitAnswered(x, y)
                 /\ y.extern_wait_error \in {x.extern_wait_error, reason}
            ELSE WaitKept(x, y) /\ y.extern_wait_error = x.extern_wait_error
         /\ StopKept(x, y) \/ StopAnswered(x, y)
  <1> DEFINE t == Api!Tell(x, reason)
             n == IF x.extern_state = "work" THEN t ELSE x
             q == [n EXCEPT !.run = "ending"]
             e == Api!Finish(q)
  <1>1. y \in {q, e}
    BY Zenon DEF Api!Endings
  <1>2. /\ t \in Api!ApiStates
        /\ t.extern_state = x.extern_state
        /\ t.extern_wait_error \in {x.extern_wait_error, reason}
        /\ t.stop_handler = x.stop_handler
        /\ t.posted["start"] = x.posted["start"]
        /\ t.posted["stop"] = x.posted["stop"]
        /\ WaitAnswered(x, t)
    BY Told DEF WaitAnswered
  <1> HIDE DEF t
  <1>3. /\ n \in Api!ApiStates
        /\ n.posted["start"] = x.posted["start"] /\ StopKept(x, n)
        /\ IF x.extern_state = "work"
           THEN /\ WaitAnswered(x, n)
                /\ n.extern_wait_error \in {x.extern_wait_error, reason}
           ELSE WaitKept(x, n) /\ n.extern_wait_error = x.extern_wait_error
    BY <1>2 DEF StopKept, WaitKept
  <1> HIDE DEF n
  <1>4. /\ q \in Api!ApiStates /\ q.run = "ending"
        /\ q.extern_state = n.extern_state
        /\ q.extern_wait_error = n.extern_wait_error /\ q.posted = n.posted
        /\ q.wait_handler = n.wait_handler /\ q.stop_handler = n.stop_handler
    BY <1>3 DEF Api!ApiStates
  <1> HIDE DEF q
  <1>5. /\ e \in Api!ApiStates /\ e.run = "stopped"
        /\ e.extern_wait_error = q.extern_wait_error
        /\ e.posted["start"] = q.posted["start"] /\ WaitKept(q, e)
        /\ StopKept(q, e) \/ StopAnswered(q, e)
    BY <1>4, Finished DEF WaitKept, StopKept, StopAnswered
  <1> HIDE DEF e
  <1>6. CASE y = q
    BY <1>3, <1>4, <1>6 DEF WaitKept, WaitAnswered, StopKept
  <1>7. CASE y = e
    BY <1>3, <1>4, <1>5, <1>7 DEF WaitKept, WaitAnswered, StopKept, StopAnswered
  <1> QED
    BY <1>1, <1>6, <1>7

\* What a session does by itself.
LEMMA EndedSeen ==
  ASSUME NEW x \in Api!ApiStates, NEW y \in Api!Ended(x)
  PROVE  /\ y \in Api!ApiStates /\ x.run # "stopped"
         /\ y.posted["start"] = x.posted["start"]
         /\ WaitKept(x, y) \/ WaitAnswered(x, y)
         /\ y.extern_wait_error \in {x.extern_wait_error, "eof"}
         /\ StopKept(x, y) \/ StopAnswered(x, y)
  <1>1. \/ x.run = "work" /\ y \in Api!Endings(x, "eof")
        \/ x.run = "ending" /\ y = Api!Finish(x)
    BY Zenon DEF Api!Ended
  <1>2. "eof" \in Api!Errors
    BY DEF Api!Errors
  <1>3. CASE x.run = "work" /\ y \in Api!Endings(x, "eof")
    BY <1>2, <1>3, EndingsSeen
  <1>4. CASE x.run = "ending" /\ y = Api!Finish(x)
    BY <1>4, Finished DEF WaitKept, StopKept, StopAnswered
  <1> QED
    BY <1>1, <1>3, <1>4

\* The start of a fresh session.
LEMMA StartedSeen ==
  ASSUME NEW x \in Api!ApiStates, x.extern_state = "ready",
         x.wait_handler = FALSE, x.stop_handler = FALSE, NEW y \in Api!Started(x)
  PROVE  /\ y \in Api!ApiStates /\ WaitKept(x, y)
         /\ y.extern_wait_error \in {x.extern_wait_error, "error"}
         /\ y.stop_handler = FALSE /\ y.posted["stop"] = x.posted["stop"]
         /\ \/ /\ y.extern_state = "work"
               /\ y.posted["start"] = Append(x.posted["start"], "ok")
            \/ /\ y.extern_state = "stopped" /\ y.run = "stopped"
               /\ y.posted["start"] = Append(x.posted["start"], "error")
  <1> DEFINE q == [x EXCEPT !.extern_state = "work"]
             u(why) == [x EXCEPT !.extern_state = "stopped", !.run = "stopped",
                                 !.extern_wait_error = why]
  <1>1. \/ \E z \in {q} \cup Api!Endings(q, "error") :
             y = Api!Answer(z, "start", "ok")
        \/ \E why \in {x.extern_wait_error, "error"} :
             y = Api!Answer(u(why), "start", "error")
    BY Zenon DEF Api!Started
  <1>2. /\ "error" \in Api!Errors /\ "ok" \in Api!Errors
        /\ x.extern_wait_error \in Api!Errors
    BY DEF Api!Errors, Api!ApiStates
  <1>3. "start" \in Api!Calls
    BY DEF Api!Calls
  <1>4. /\ q \in Api!ApiStates /\ q.extern_state = "work"
        /\ q.extern_wait_error = x.extern_wait_error /\ q.posted = x.posted
        /\ q.wait_handler = x.wait_handler /\ q.stop_handler = x.stop_handler
    BY DEF Api!ApiStates
  <1> HIDE DEF q
  <1>5. ASSUME NEW z \in {q} \cup Api!Endings(q, "error"),
               y = Api!Answer(z, "start", "ok")
        PROVE  /\ y \in Api!ApiStates /\ WaitKept(x, y)
               /\ y.extern_wait_error \in {x.extern_wait_error, "error"}
               /\ y.stop_handler = FALSE /\ y.posted["stop"] = x.posted["stop"]
               /\ y.extern_state = "work"
               /\ y.posted["start"] = Append(x.posted["start"], "ok")
    <2>1. /\ z \in Api!ApiStates /\ z.posted["start"] = q.posted["start"]
          /\ WaitKept(q, z) \/ WaitAnswered(q, z)
          /\ z.extern_wait_error \in {q.extern_wait_error, "error"}
          /\ StopKept(q, z)
      <3>1. CASE z = q
        BY <1>4, <3>1 DEF WaitKept, StopKept
      <3>2. CASE z \in Api!Endings(q, "error")
        <4>1. /\ z \in Api!ApiStates /\ z.posted["start"] = q.posted["start"]
              /\ IF q.extern_state = "work"
                 THEN /\ WaitAnswered(q, z)
                      /\ z.extern_wait_error \in {q.extern_wait_error, "error"}
                 ELSE WaitKept(q, z) /\ z.extern_wait_error = q.extern_wait_error
              /\ StopKept(q, z) \/ StopAnswered(q, z)
          BY <1>2, <1>4, <3>2, EndingsSeen, Zenon
        <4> QED
          BY <1>4, <4>1 DEF StopAnswered
      <3> QED
        BY <1>5, <3>1, <3>2
    <2>2. /\ z.extern_state = "work" /\ z.stop_handler = FALSE
          /\ z.posted["stop"] = x.posted["stop"] /\ WaitKept(x, z)
          /\ z.posted["start"] = x.posted["start"]
      BY <1>4, <2>1 DEF WaitKept, WaitAnswered, StopKept
    <2>3. AnsweredAs(z, y, "start", "ok")
      BY <1>2, <1>3, <1>5, <2>1, Answered
    <2> QED
      BY <1>4, <2>1, <2>2, <2>3 DEF WaitKept, AnsweredAs
  <1>6. ASSUME NEW why \in {x.extern_wait_error, "error"},
               y = Api!Answer(u(why), "start", "error")
        PROVE  /\ y \in Api!ApiStates /\ WaitKept(x, y)
               /\ y.extern_wait_error \in {x.extern_wait_error, "error"}
               /\ y.stop_handler = FALSE /\ y.posted["stop"] = x.posted["stop"]
               /\ y.extern_state = "stopped" /\ y.run = "stopped"
               /\ y.posted["start"] = Append(x.posted["start"], "error")
    <2> DEFINE z == u(why)
    <2>1. why \in Api!Errors
      BY <1>2, <1>6
    <2>2. /\ z \in Api!ApiStates /\ z.extern_state = "stopped"
          /\ z.run = "stopped" /\ z.extern_wait_error = why /\ z.posted = x.posted
          /\ z.wait_handler = x.wait_handler /\ z.stop_handler = x.stop_handler
      BY <2>1 DEF Api!ApiStates
    <2> HIDE DEF z
    <2>3. y = Api!Answer(z, "start", "error")
      BY <1>6 DEF z
    <2>4. AnsweredAs(z, y, "start", "error")
      BY <1>2, <1>3, <2>2, <2>3, Answered
    <2> QED
      BY <1>6, <2>2, <2>4 DEF WaitKept, AnsweredAs
  <1> QED
    BY <1>1, <1>5, <1>6

\* A wait is parked at a session that works and answered at once otherwise.
LEMMA WaitedSeen ==
  ASSUME NEW x \in Api!ApiStates, x.wait_handler = FALSE, NEW y \in Api!Waited(x)
  PROVE  /\ y \in Api!ApiStates /\ y.extern_wait_error = x.extern_wait_error
         /\ y.run = x.run /\ StopKept(x, y)
         /\ y.posted["start"] = x.posted["start"]
         /\ \/ y.wait_handler = TRUE /\ y.posted["wait"] = x.posted["wait"]
            \/ /\ y.wait_handler = FALSE
               /\ \E e \in Api!Errors : y.posted["wait"] = Append(x.posted["wait"], e)
  <1> DEFINE p == [x EXCEPT !.wait_handler = TRUE]
             n(e) == Api!Answer(x, "wait", e)
  <1>1. y = p \/ y = n(x.extern_wait_error) \/ y = n("invalid_state")
    BY Zenon DEF Api!Waited
  <1>2. /\ "wait" \in Api!Calls /\ x.extern_wait_error \in Api!Errors
        /\ "invalid_state" \in Api!Errors
    BY DEF Api!Calls, Api!ApiStates, Api!Errors
  <1>3. /\ p \in Api!ApiStates /\ p.extern_state = x.extern_state
        /\ p.run = x.run /\ p.extern_wait_error = x.extern_wait_error
        /\ p.posted = x.posted /\ p.wait_handler = TRUE
        /\ p.stop_handler = x.stop_handler
    BY DEF Api!ApiStates
  <1>4. \A e \in Api!Errors : AnsweredAs(x, n(e), "wait", e)
    BY <1>2, Answered
  <1> HIDE DEF p, n
  <1>5. CASE y = p
    BY <1>3, <1>5 DEF StopKept
  <1>6. ASSUME NEW e \in Api!Errors, y = n(e)
        PROVE  /\ y \in Api!ApiStates /\ y.extern_wait_error = x.extern_wait_error
               /\ y.run = x.run /\ StopKept(x, y) /\ y.wait_handler = FALSE
               /\ y.posted["start"] = x.posted["start"]
               /\ y.posted["wait"] = Append(x.posted["wait"], e)
    BY <1>4, <1>6 DEF StopKept, AnsweredAs
  <1> QED
    BY <1>1, <1>2, <1>5, <1>6

\* A stop tells a parked wait; it is answered when the session has ended and
\* parked otherwise.  A session that could not start refuses it.
LEMMA StoppedSeen ==
  ASSUME NEW x \in Api!ApiStates, x.stop_handler = FALSE, NEW y \in Api!Stopped(x)
  PROVE  /\ x.extern_state \in {"ready", "work"} =>
              /\ y \in Api!ApiStates /\ WaitAnswered(x, y)
              /\ y.extern_wait_error \in {x.extern_wait_error, "operation_aborted"}
              /\ y.posted["start"] = x.posted["start"]
              /\ \/ /\ y.extern_state = "stopped" /\ y.run = "stopped"
                    /\ y.stop_handler = FALSE
                    /\ y.posted["stop"] = Append(x.posted["stop"], "ok")
                 \/ /\ y.extern_state = "stop" /\ y.stop_handler = TRUE
                    /\ y.posted["stop"] = x.posted["stop"]
         /\ x.extern_state = "stopped" =>
              /\ y \in Api!ApiStates /\ WaitKept(x, y)
              /\ y.extern_wait_error = x.extern_wait_error /\ y.run = x.run
              /\ y.posted["start"] = x.posted["start"]
              /\ y.extern_state = "stopped" /\ y.stop_handler = FALSE
              /\ y.posted["stop"] = Append(x.posted["stop"], "invalid_state")
  <1> DEFINE t == Api!Tell(x, "operation_aborted")
             q == [t EXCEPT !.extern_state = "stop"]
             ys == IF q.run = "work" THEN Api!Endings(q, "ok") ELSE {q}
             seen(z) == IF z.run = "stopped"
                        THEN Api!Answer([z EXCEPT !.extern_state = "stopped"],
                                        "stop", "ok")
                        ELSE [z EXCEPT !.stop_handler = TRUE]
  <1>1. /\ "operation_aborted" \in Api!Errors /\ "ok" \in Api!Errors
        /\ "invalid_state" \in Api!Errors
        /\ "stop" \in Api!Calls
    BY DEF Api!Calls, Api!Errors
  <1>2. ASSUME x.extern_state = "stopped"
        PROVE  /\ y \in Api!ApiStates /\ WaitKept(x, y)
               /\ y.extern_wait_error = x.extern_wait_error /\ y.run = x.run
               /\ y.posted["start"] = x.posted["start"]
               /\ y.extern_state = "stopped" /\ y.stop_handler = FALSE
               /\ y.posted["stop"] = Append(x.posted["stop"], "invalid_state")
    <2>1. y = Api!Answer(x, "stop", "invalid_state")
      BY <1>2, Zenon DEF Api!Stopped
    <2>2. AnsweredAs(x, y, "stop", "invalid_state")
      BY <1>1, <2>1, Answered
    <2> QED
      BY <1>2, <2>2 DEF WaitKept, AnsweredAs
  <1>3. ASSUME x.extern_state \in {"ready", "work"}
        PROVE  /\ y \in Api!ApiStates /\ WaitAnswered(x, y)
               /\ y.extern_wait_error \in {x.extern_wait_error, "operation_aborted"}
               /\ y.posted["start"] = x.posted["start"]
               /\ \/ /\ y.extern_state = "stopped" /\ y.run = "stopped"
                     /\ y.stop_handler = FALSE
                     /\ y.posted["stop"] = Append(x.posted["stop"], "ok")
                  \/ /\ y.extern_state = "stop" /\ y.stop_handler = TRUE
                     /\ y.posted["stop"] = x.posted["stop"]
    <2>1. PICK z \in ys : y = seen(z)
      BY <1>3, Zenon DEF Api!Stopped
    <2>2. /\ t \in Api!ApiStates /\ WaitAnswered(x, t)
          /\ t.extern_wait_error \in {x.extern_wait_error, "operation_aborted"}
          /\ t.stop_handler = FALSE
          /\ t.posted["start"] = x.posted["start"]
          /\ t.posted["stop"] = x.posted["stop"]
      BY <1>1, Told DEF WaitAnswered
    <2> HIDE DEF t
    <2>3. /\ q \in Api!ApiStates /\ q.extern_state = "stop"
          /\ q.extern_wait_error = t.extern_wait_error /\ q.posted = t.posted
          /\ q.wait_handler = t.wait_handler /\ q.stop_handler = t.stop_handler
      BY <2>2 DEF Api!ApiStates
    <2> HIDE DEF q
    <2>4. /\ z \in Api!ApiStates /\ WaitKept(q, z)
          /\ z.extern_wait_error = q.extern_wait_error
          /\ z.stop_handler = FALSE
          /\ z.posted["start"] = q.posted["start"]
          /\ z.posted["stop"] = q.posted["stop"]
          /\ z.run = "stopped" \/ z.extern_state = "stop"
      <3>1. CASE z = q
        BY <2>2, <2>3, <3>1 DEF WaitKept
      <3>2. CASE z \in Api!Endings(q, "ok")
        <4>1. /\ z \in Api!ApiStates /\ z.posted["start"] = q.posted["start"]
              /\ IF q.extern_state = "work"
                 THEN /\ WaitAnswered(q, z)
                      /\ z.extern_wait_error \in {q.extern_wait_error, "ok"}
                 ELSE WaitKept(q, z) /\ z.extern_wait_error = q.extern_wait_error
              /\ StopKept(q, z) \/ StopAnswered(q, z)
          BY <1>1, <2>3, <3>2, EndingsSeen, Zenon
        <4> QED
          BY <2>2, <2>3, <4>1 DEF StopKept, StopAnswered
      <3> QED
        BY <2>1, <3>1, <3>2
    <2>5. /\ WaitAnswered(x, z) /\ z.posted["stop"] = x.posted["stop"]
          /\ z.extern_wait_error \in {x.extern_wait_error, "operation_aborted"}
          /\ z.posted["start"] = x.posted["start"]
      BY <2>2, <2>3, <2>4 DEF WaitKept, WaitAnswered
    <2> HIDE DEF ys
    <2>6. CASE z.run = "stopped"
      <3> DEFINE e == [z EXCEPT !.extern_state = "stopped"]
      <3>1. /\ e \in Api!ApiStates /\ e.extern_state = "stopped"
            /\ e.run = z.run /\ e.extern_wait_error = z.extern_wait_error
            /\ e.posted = z.posted /\ e.wait_handler = z.wait_handler
            /\ e.stop_handler = z.stop_handler
        BY <2>4 DEF Api!ApiStates
      <3>2. y = Api!Answer(e, "stop", "ok")
        BY <2>1, <2>6
      <3> HIDE DEF e
      <3>3. AnsweredAs(e, y, "stop", "ok")
        BY <1>1, <3>1, <3>2, Answered
      <3> QED
        BY <2>4, <2>5, <2>6, <3>1, <3>3 DEF WaitAnswered, AnsweredAs
    <2>7. CASE z.run # "stopped"
      <3>1. y = [z EXCEPT !.stop_handler = TRUE]
        BY <2>1, <2>7
      <3>2. /\ y \in Api!ApiStates /\ y.extern_state = z.extern_state
            /\ y.extern_wait_error = z.extern_wait_error
            /\ y.posted = z.posted /\ y.wait_handler = z.wait_handler
            /\ y.stop_handler = TRUE
        BY <2>4, <3>1 DEF Api!ApiStates
      <3> QED
        BY <2>4, <2>5, <2>7, <3>2 DEF WaitAnswered
    <2> QED
      BY <2>6, <2>7
  <1> QED
    BY <1>2, <1>3

-----------------------------------------------------------------------------
(***************************************************************************)
(* The inductive invariant, of one wrapper v.  A call of the manager is at  *)
(* one place at a time: in the queue of the session's strand, parked at the *)
(* session, or answered there.                                              *)
(***************************************************************************)
Pairs == [m : ManagerStates, ses : [Wrappers -> WrapperStates]]

\* The call c is on its way to, at or from the session of v.
Has(v, c) ==
  \/ c \in ToSet(v.queue)
  \/ v.api.posted[c] # <<>>
  \/ c = "wait" /\ v.api.wait_handler
  \/ c = "stop" /\ v.api.stop_handler

\* What the strand of a session may have to run.
Queues ==
  {<<>>, <<"start">>, <<"wait">>, <<"stop">>, <<"start", "stop">>, <<"wait", "stop">>}

Places(v) ==
  /\ v.queue \in Queues
  /\ \A c \in Api!Calls :
       /\ v.api.posted[c] = <<>> \/ Len(v.api.posted[c]) = 1
       /\ c \in ToSet(v.queue) => v.api.posted[c] = <<>>
  /\ v.api.wait_handler => "wait" \notin ToSet(v.queue) /\ v.api.posted["wait"] = <<>>
  /\ v.api.stop_handler => "stop" \notin ToSet(v.queue) /\ v.api.posted["stop"] = <<>>

\* What the manager knows of the session from the answers.
Interface(v) ==
  /\ v.api.stop_handler = (v.api.extern_state = "stop")
  /\ v.api.extern_state = "stopped" => v.api.run = "stopped"
  /\ "start" \in ToSet(v.queue) => v.api.extern_state = "ready"
  /\ v.api.posted["start"] # <<>> /\ Head(v.api.posted["start"]) # "ok" =>
       v.api.extern_state = "stopped"
  /\ v.api.posted["stop"] # <<>> \/ v.state = "stopped" =>
       v.api.extern_state = "stopped"

\* What the state of the wrapper says of the calls it has made.
Asked(v) ==
  /\ v.state = "ready" => \A c \in Api!Calls : ~Has(v, c)
  /\ v.state = "start" => Has(v, "start") /\ ~Has(v, "stop")
  /\ v.state = "work" => Has(v, "wait") /\ ~Has(v, "stop")
  /\ v.state = "stop" => Has(v, "stop")
  /\ v.state = "stopped" => ~Has(v, "stop")
  /\ ~(Has(v, "start") /\ Has(v, "wait"))

Answers(v) == Flag(Has(v, "start")) + Flag(Has(v, "wait")) + Flag(Has(v, "stop"))

WrapperSound(v) ==
  /\ v \in WrapperStates
  /\ ~v.attached => v = Detached
  /\ v.state = "ready" => v.api = Api!Fresh
  /\ Places(v) /\ Interface(v) /\ Asked(v)
  /\ v.pending_operations = Answers(v)

\* The calls in the queues, by value.
LEMMA QueueMembers ==
  /\ ToSet(<<>>) = {} /\ ToSet(<<"start">>) = {"start"}
  /\ ToSet(<<"wait">>) = {"wait"} /\ ToSet(<<"stop">>) = {"stop"}
  /\ ToSet(<<"start", "stop">>) = {"start", "stop"}
  /\ ToSet(<<"wait", "stop">>) = {"wait", "stop"}
  BY DEF ToSet

\* The next call the strand runs, by value.
LEMMA QueueHead ==
  ASSUME NEW q \in Queues, q # <<>>
  PROVE  /\ Tail(q) \in Queues
         /\ \/ Head(q) = "start" /\ ToSet(q) = ToSet(Tail(q)) \cup {"start"}
            \/ Head(q) = "wait" /\ ToSet(q) = ToSet(Tail(q)) \cup {"wait"}
            \/ Head(q) = "stop" /\ q = <<"stop">> /\ Tail(q) = <<>>
         /\ Head(q) \notin ToSet(Tail(q)) /\ Head(q) \in ToSet(q)
         /\ Head(q) \in Api!Calls /\ Tail(q) \in Seq(Api!Calls)
  <1>1. /\ Head(<<"start">>) = "start" /\ Tail(<<"start">>) = <<>>
        /\ Head(<<"wait">>) = "wait" /\ Tail(<<"wait">>) = <<>>
        /\ Head(<<"stop">>) = "stop" /\ Tail(<<"stop">>) = <<>>
        /\ Head(<<"start", "stop">>) = "start" /\ Tail(<<"start", "stop">>) = <<"stop">>
        /\ Head(<<"wait", "stop">>) = "wait" /\ Tail(<<"wait", "stop">>) = <<"stop">>
    OBVIOUS
  <1>2. <<>> \in Seq(Api!Calls) /\ <<"stop">> \in Seq(Api!Calls)
    BY DEF Api!Calls
  <1>3. <<>> \in Queues /\ <<"stop">> \in Queues
    BY DEF Queues
  <1> QED
    BY <1>1, <1>2, <1>3, QueueMembers DEF Queues, Api!Calls

\* The first answer of a call.
LEMMA OneAnswer ==
  ASSUME NEW e \in Api!Errors
  PROVE  /\ Append(<<>>, e) # <<>> /\ Len(Append(<<>>, e)) = 1
         /\ Head(Append(<<>>, e)) = e
  OBVIOUS

\* A wrapper whose calls only moved on.
Kept(v, u) ==
  /\ u.state = v.state /\ u.attached = v.attached
  /\ u.pending_operations = v.pending_operations
  /\ \A c \in Api!Calls : Has(u, c) <=> Has(v, c)

\* A session in use whose calls moved on is sound if its places and what its
\* answers tell are.
LEMMA MovedOn ==
  ASSUME NEW v, WrapperSound(v), v.state # "ready",
         NEW x \in Api!ApiStates, NEW q \in Queues, q \in Seq(Api!Calls),
         NEW u, u = [v EXCEPT !.api = x, !.queue = q],
         Places(u), Interface(u), \A c \in Api!Calls : Has(u, c) <=> Has(v, c)
  PROVE  WrapperSound(u) /\ Kept(v, u)
  <1>1. v \in WrapperStates /\ v.attached
    BY DEF WrapperSound, Detached
  <1>2. /\ u \in WrapperStates /\ u.state = v.state /\ u.attached = v.attached
        /\ u.pending_operations = v.pending_operations
    BY <1>1 DEF WrapperStates
  <1>3. Asked(u) /\ Answers(u) = Answers(v)
    BY <1>2 DEF WrapperSound, Asked, Answers, Api!Calls, Flag
  <1> QED
    BY <1>1, <1>2, <1>3 DEF WrapperSound, Kept

\* The members of a wrapper whose session or queue changed.
LEMMA MovedFields ==
  ASSUME NEW v \in WrapperStates, NEW x, NEW q
  PROVE  LET u == [v EXCEPT !.api = x, !.queue = q]
         IN  /\ u.api = x /\ u.queue = q /\ u.state = v.state
             /\ u.attached = v.attached
             /\ u.pending_operations = v.pending_operations
  BY DEF WrapperStates

\* A session with a call in its queue is in use.
LEMMA QueueInUse ==
  ASSUME NEW v, WrapperSound(v), v.queue # <<>>
  PROVE  v.state # "ready" /\ Has(v, Head(v.queue))
  <1>1. v.queue \in Queues
    BY DEF WrapperSound, Places
  <1>2. Head(v.queue) \in ToSet(v.queue) /\ Head(v.queue) \in Api!Calls
    BY <1>1, QueueHead
  <1> QED
    BY <1>2 DEF WrapperSound, Asked, Has

\* The strand runs async_start.
LEMMA RunStart ==
  ASSUME NEW v, WrapperSound(v), v.queue # <<>>, Head(v.queue) = "start",
         NEW x \in Api!Started(v.api)
  PROVE  LET u == [v EXCEPT !.api = x, !.queue = Tail(v.queue)]
         IN  WrapperSound(u) /\ Kept(v, u)
  <1> DEFINE y == v.api
             q == Tail(v.queue)
             u == [v EXCEPT !.api = x, !.queue = q]
  <1>1. /\ v \in WrapperStates /\ y \in Api!ApiStates /\ v.queue \in Queues
        /\ v.state # "ready" /\ Has(v, "start") /\ ~Has(v, "wait")
    BY QueueInUse DEF WrapperSound, WrapperStates, Places, Asked
  <1>2. /\ q \in Queues /\ q \in Seq(Api!Calls) /\ "start" \notin ToSet(q)
        /\ ToSet(v.queue) = ToSet(q) \cup {"start"}
    BY <1>1, QueueHead
  <1>3. /\ y.extern_state = "ready" /\ y.stop_handler = FALSE
        /\ y.wait_handler = FALSE /\ y.posted["start"] = <<>>
    BY <1>1, <1>2 DEF WrapperSound, Interface, Has, Places, Api!Calls, Api!ApiStates
  <1>4. /\ x \in Api!ApiStates /\ WaitKept(y, x)
        /\ x.stop_handler = FALSE /\ x.posted["stop"] = y.posted["stop"]
        /\ \/ /\ x.extern_state = "work"
              /\ x.posted["start"] = Append(y.posted["start"], "ok")
           \/ /\ x.extern_state = "stopped" /\ x.run = "stopped"
              /\ x.posted["start"] = Append(y.posted["start"], "error")
    BY <1>1, <1>3, StartedSeen
  <1>5. /\ x.posted["start"] # <<>> /\ Len(x.posted["start"]) = 1
        /\ Head(x.posted["start"]) # "ok" => x.extern_state = "stopped"
    BY <1>3, <1>4, OneAnswer DEF Api!Errors
  <1>6. u.api = x /\ u.queue = q /\ u.state = v.state
    BY <1>1, MovedFields
  <1> HIDE DEF u
  <1>7. \A c \in Api!Calls : Has(u, c) <=> Has(v, c)
    BY <1>1, <1>2, <1>3, <1>4, <1>5, <1>6 DEF Has, WaitKept, Api!Calls
  <1>8. Places(u)
    BY <1>1, <1>2, <1>3, <1>4, <1>5, <1>6 DEF Places, WrapperSound, WaitKept, Api!Calls
  <1>9. Interface(u)
    BY <1>1, <1>2, <1>3, <1>4, <1>5, <1>6 DEF Interface, WrapperSound
  <1> QED
    BY <1>1, <1>2, <1>4, <1>7, <1>8, <1>9, MovedOn DEF u

\* The strand runs async_wait.
LEMMA RunWait ==
  ASSUME NEW v, WrapperSound(v), v.queue # <<>>, Head(v.queue) = "wait",
         NEW x \in Api!Waited(v.api)
  PROVE  LET u == [v EXCEPT !.api = x, !.queue = Tail(v.queue)]
         IN  WrapperSound(u) /\ Kept(v, u)
  <1> DEFINE y == v.api
             q == Tail(v.queue)
             u == [v EXCEPT !.api = x, !.queue = q]
  <1>1. /\ v \in WrapperStates /\ y \in Api!ApiStates /\ v.queue \in Queues
        /\ v.state # "ready" /\ Has(v, "wait") /\ ~Has(v, "start")
    BY QueueInUse DEF WrapperSound, WrapperStates, Places, Asked
  <1>2. /\ q \in Queues /\ q \in Seq(Api!Calls) /\ "wait" \notin ToSet(q)
        /\ ToSet(v.queue) = ToSet(q) \cup {"wait"}
    BY <1>1, QueueHead
  <1>3. y.wait_handler = FALSE /\ y.posted["wait"] = <<>>
    BY <1>1, <1>2 DEF WrapperSound, Places, Api!Calls, Api!ApiStates
  <1>4. /\ x \in Api!ApiStates /\ x.run = y.run /\ StopKept(y, x)
        /\ x.posted["start"] = y.posted["start"]
        /\ \/ x.wait_handler = TRUE /\ x.posted["wait"] = y.posted["wait"]
           \/ /\ x.wait_handler = FALSE
              /\ \E e \in Api!Errors : x.posted["wait"] = Append(y.posted["wait"], e)
    BY <1>1, <1>3, WaitedSeen
  <1>5. \/ x.wait_handler = TRUE /\ x.posted["wait"] = <<>>
        \/ /\ x.wait_handler = FALSE /\ x.posted["wait"] # <<>>
           /\ Len(x.posted["wait"]) = 1
    BY <1>3, <1>4, OneAnswer
  <1>6. u.api = x /\ u.queue = q /\ u.state = v.state
    BY <1>1, MovedFields
  <1> HIDE DEF u
  <1>7. \A c \in Api!Calls : Has(u, c) <=> Has(v, c)
    BY <1>1, <1>2, <1>3, <1>4, <1>5, <1>6 DEF Has, StopKept, Api!Calls
  <1>8. Places(u)
    BY <1>1, <1>2, <1>3, <1>4, <1>5, <1>6 DEF Places, WrapperSound, StopKept, Api!Calls
  <1>9. Interface(u)
    BY <1>1, <1>2, <1>3, <1>4, <1>5, <1>6 DEF Interface, WrapperSound, StopKept
  <1> QED
    BY <1>1, <1>2, <1>4, <1>7, <1>8, <1>9, MovedOn DEF u

\* The strand runs async_stop.
LEMMA RunStop ==
  ASSUME NEW v, WrapperSound(v), v.queue # <<>>, Head(v.queue) = "stop",
         NEW x \in Api!Stopped(v.api)
  PROVE  LET u == [v EXCEPT !.api = x, !.queue = Tail(v.queue)]
         IN  WrapperSound(u) /\ Kept(v, u)
  <1> DEFINE y == v.api
             q == Tail(v.queue)
             u == [v EXCEPT !.api = x, !.queue = q]
  <1>1. /\ v \in WrapperStates /\ y \in Api!ApiStates /\ v.queue \in Queues
        /\ v.state # "ready" /\ Has(v, "stop")
    BY QueueInUse DEF WrapperSound, WrapperStates, Places
  <1>2. /\ q = <<>> /\ v.queue = <<"stop">> /\ q \in Queues /\ q \in Seq(Api!Calls)
        /\ ToSet(q) = {} /\ ToSet(v.queue) = {"stop"}
    BY <1>1, QueueHead, QueueMembers
  <1>3. /\ y.stop_handler = FALSE /\ y.posted["stop"] = <<>>
        /\ y.extern_state # "stop" /\ v.state # "stopped"
    BY <1>1, <1>2 DEF WrapperSound, Places, Interface, Asked, Api!Calls, Api!ApiStates
  <1>4. /\ y.extern_state \in {"ready", "work"} =>
             /\ x \in Api!ApiStates /\ WaitAnswered(y, x)
             /\ x.extern_wait_error \in {y.extern_wait_error, "operation_aborted"}
             /\ x.posted["start"] = y.posted["start"]
             /\ \/ /\ x.extern_state = "stopped" /\ x.run = "stopped"
                   /\ x.stop_handler = FALSE
                   /\ x.posted["stop"] = Append(y.posted["stop"], "ok")
                \/ /\ x.extern_state = "stop" /\ x.stop_handler = TRUE
                   /\ x.posted["stop"] = y.posted["stop"]
        /\ y.extern_state = "stopped" =>
             /\ x \in Api!ApiStates /\ WaitKept(y, x) /\ x.run = y.run
             /\ x.posted["start"] = y.posted["start"]
             /\ x.extern_state = "stopped" /\ x.stop_handler = FALSE
             /\ x.posted["stop"] = Append(y.posted["stop"], "invalid_state")
    BY <1>1, <1>3, StoppedSeen
  <1>5. /\ x \in Api!ApiStates /\ x.posted["start"] = y.posted["start"]
        /\ x.extern_state = "stopped" => x.run = "stopped"
        /\ y.extern_state = "stopped" => x.extern_state = "stopped"
        /\ \/ /\ x.extern_state = "stopped" /\ x.stop_handler = FALSE
              /\ x.posted["stop"] # <<>> /\ Len(x.posted["stop"]) = 1
           \/ /\ x.extern_state = "stop" /\ x.stop_handler = TRUE
              /\ x.posted["stop"] = <<>>
    <2>1. "ok" \in Api!Errors /\ "invalid_state" \in Api!Errors
      BY DEF Api!Errors
    <2>2. y.extern_state = "stopped" => y.run = "stopped"
      BY DEF WrapperSound, Interface
    <2>3. \A e \in Api!Errors : Append(<<>>, e) # <<>> /\ Len(Append(<<>>, e)) = 1
      BY OneAnswer
    <2>4. y.extern_state \in {"ready", "work", "stopped"}
      BY <1>1, <1>3 DEF Api!ApiStates
    <2>5. CASE y.extern_state = "stopped"
      BY <1>3, <1>4, <2>1, <2>2, <2>3, <2>5
    <2>6. CASE y.extern_state \in {"ready", "work"}
      BY <1>3, <1>4, <2>1, <2>3, <2>6
    <2> QED
      BY <2>4, <2>5, <2>6
  <1>6. /\ x.posted["wait"] = <<>> \/ Len(x.posted["wait"]) = 1
        /\ x.wait_handler => x.posted["wait"] = <<>>
        /\ (x.wait_handler \/ x.posted["wait"] # <<>>) <=>
           (y.wait_handler \/ y.posted["wait"] # <<>>)
    <2>1. /\ y.wait_handler => y.posted["wait"] = <<>>
          /\ y.posted["wait"] = <<>> \/ Len(y.posted["wait"]) = 1
      BY DEF WrapperSound, Places, Api!Calls
    <2>2. CASE WaitKept(y, x)
      BY <2>1, <2>2 DEF WaitKept
    <2>3. CASE WaitAnswered(y, x) /\ y.wait_handler
      <3>1. x.posted["wait"] = Append(<<>>, x.extern_wait_error)
        BY <2>1, <2>3 DEF WaitAnswered
      <3>2. x.extern_wait_error \in Api!Errors
        BY <1>5 DEF Api!ApiStates
      <3> QED
        BY <2>3, <3>1, <3>2, OneAnswer DEF WaitAnswered
    <2>4. CASE WaitAnswered(y, x) /\ ~y.wait_handler
      BY <2>1, <2>4 DEF WaitAnswered
    <2> QED
      BY <1>1, <1>3, <1>4, <2>2, <2>3, <2>4 DEF Api!ApiStates
  <1>7. u.api = x /\ u.queue = q /\ u.state = v.state
    BY <1>1, MovedFields
  <1> HIDE DEF u
  <1>8. \A c \in Api!Calls : Has(u, c) <=> Has(v, c)
    BY <1>1, <1>2, <1>3, <1>5, <1>6, <1>7 DEF Has, Api!Calls
  <1>9. Places(u)
    BY <1>1, <1>2, <1>3, <1>5, <1>6, <1>7 DEF Places, WrapperSound, Api!Calls
  <1>10. Interface(u)
    BY <1>1, <1>2, <1>3, <1>5, <1>7 DEF Interface, WrapperSound
  <1> QED
    BY <1>1, <1>2, <1>5, <1>8, <1>9, <1>10, MovedOn DEF u

\* The session begins or finishes to end by itself.
LEMMA RunEnd ==
  ASSUME NEW v, WrapperSound(v), v.api.extern_state # "ready",
         NEW x \in Api!Ended(v.api)
  PROVE  LET u == [v EXCEPT !.api = x, !.queue = v.queue]
         IN  WrapperSound(u) /\ Kept(v, u)
  <1> DEFINE y == v.api
             q == v.queue
             u == [v EXCEPT !.api = x, !.queue = q]
  <1>1. /\ v \in WrapperStates /\ y \in Api!ApiStates /\ q \in Queues
        /\ q \in Seq(Api!Calls)
    BY DEF WrapperSound, WrapperStates, Places
  <1>2. v.state # "ready"
    BY DEF WrapperSound, Api!Fresh
  <1>3. /\ x \in Api!ApiStates /\ y.run # "stopped"
        /\ x.posted["start"] = y.posted["start"]
        /\ WaitKept(y, x) \/ WaitAnswered(y, x)
        /\ StopKept(y, x) \/ StopAnswered(y, x)
    BY <1>1, EndedSeen
  <1>4. /\ y.extern_state # "stopped" /\ y.posted["stop"] = <<>>
        /\ y.stop_handler = (y.extern_state = "stop")
        /\ y.stop_handler \in BOOLEAN /\ y.wait_handler \in BOOLEAN
    BY <1>1, <1>3 DEF WrapperSound, Interface, Api!ApiStates
  <1>5. /\ x.posted["wait"] = <<>> \/ Len(x.posted["wait"]) = 1
        /\ x.wait_handler => y.wait_handler /\ x.posted["wait"] = <<>>
        /\ (x.wait_handler \/ x.posted["wait"] # <<>>) <=>
           (y.wait_handler \/ y.posted["wait"] # <<>>)
    <2>1. /\ y.wait_handler => y.posted["wait"] = <<>>
          /\ y.posted["wait"] = <<>> \/ Len(y.posted["wait"]) = 1
      BY DEF WrapperSound, Places, Api!Calls
    <2>2. CASE WaitKept(y, x)
      BY <2>1, <2>2 DEF WaitKept
    <2>3. CASE WaitAnswered(y, x) /\ y.wait_handler
      <3>1. x.posted["wait"] = Append(<<>>, x.extern_wait_error)
        BY <2>1, <2>3 DEF WaitAnswered
      <3>2. x.extern_wait_error \in Api!Errors
        BY <1>3 DEF Api!ApiStates
      <3> QED
        BY <2>3, <3>1, <3>2, OneAnswer DEF WaitAnswered
    <2>4. CASE WaitAnswered(y, x) /\ ~y.wait_handler
      BY <2>1, <2>4 DEF WaitAnswered
    <2> QED
      BY <1>3, <1>4, <2>2, <2>3, <2>4
  <1>6. /\ x.extern_state = "stopped" => x.run = "stopped"
        /\ x.extern_state # "ready"
        /\ x.stop_handler = (x.extern_state = "stop")
        /\ \/ /\ x.stop_handler = y.stop_handler /\ x.posted["stop"] = <<>>
              /\ x.extern_state = y.extern_state
           \/ /\ x.extern_state = "stopped" /\ x.stop_handler = FALSE /\ y.stop_handler
              /\ x.posted["stop"] # <<>> /\ Len(x.posted["stop"]) = 1
    <2>1. CASE StopKept(y, x)
      BY <1>4, <2>1 DEF StopKept
    <2>2. CASE StopAnswered(y, x)
      <3>1. "ok" \in Api!Errors
        BY DEF Api!Errors
      <3>2. x.posted["stop"] = Append(<<>>, "ok")
        BY <1>4, <2>2 DEF StopAnswered
      <3> QED
        BY <1>4, <2>2, <3>1, <3>2, OneAnswer DEF StopAnswered
    <2> QED
      BY <1>3, <2>1, <2>2
  <1>7. u.api = x /\ u.queue = q /\ u.state = v.state
    BY <1>1, MovedFields
  <1> HIDE DEF u
  <1>8. \A c \in Api!Calls : Has(u, c) <=> Has(v, c)
    BY <1>3, <1>4, <1>5, <1>6, <1>7 DEF Has, Api!Calls
  <1>9. Places(u)
    <2>1. /\ \A c \in Api!Calls : /\ y.posted[c] = <<>> \/ Len(y.posted[c]) = 1
                                  /\ c \in ToSet(q) => y.posted[c] = <<>>
          /\ y.wait_handler => "wait" \notin ToSet(q)
          /\ y.stop_handler => "stop" \notin ToSet(q)
      BY DEF Places, WrapperSound
    <2>2. ~("wait" \in ToSet(q) /\ y.posted["wait"] # <<>>)
      BY <2>1 DEF Api!Calls
    <2> QED
      BY <1>1, <1>3, <1>4, <1>5, <1>6, <1>7, <2>1, <2>2 DEF Places, Api!Calls
  <1>10. Interface(u)
    BY <1>3, <1>4, <1>6, <1>7 DEF Interface, WrapperSound
  <1> QED
    BY <1>1, <1>2, <1>3, <1>8, <1>9, <1>10, MovedOn DEF u

-----------------------------------------------------------------------------
(***************************************************************************)
(* What the manager does to one wrapper.                                    *)
(***************************************************************************)
\* d is v after the manager has taken the answer of the call c.
Taken(v, d, c) ==
  /\ d \in WrapperStates /\ d.attached = v.attached /\ d.state = v.state
  /\ d.queue = v.queue
  /\ d.api.extern_state = v.api.extern_state /\ d.api.run = v.api.run
  /\ d.api.wait_handler = v.api.wait_handler
  /\ d.api.stop_handler = v.api.stop_handler
  /\ d.api.posted[c] = <<>> /\ ~Has(d, c)
  /\ \A o \in Api!Calls : o # c =>
       d.api.posted[o] = v.api.posted[o] /\ (Has(d, o) <=> Has(v, o))
  /\ v.pending_operations = d.pending_operations + 1
  /\ d.pending_operations = Answers(d)
  /\ Places(d)

\* The last answer of a call is taken out of the call's results.
LEMMA AnswerTaken ==
  ASSUME NEW v, WrapperSound(v), NEW c \in Api!Calls, v.api.posted[c] # <<>>
  PROVE  Taken(v, Completion(v, c), c) /\ Has(v, c)
  <1> DEFINE x == v.api
             p == x.posted
             r == [p EXCEPT ![c] = Tail(@)]
             y == [x EXCEPT !.posted = r]
             n == v.pending_operations
             k == n - 1
             d == [v EXCEPT !.pending_operations = k, !.api = y]
  <1>1. /\ v \in WrapperStates /\ x \in Api!ApiStates /\ n \in Nat
        /\ p \in [Api!Calls -> Seq(Api!Errors)]
    BY DEF WrapperSound, WrapperStates, Api!ApiStates
  <1>2. Len(p[c]) = 1 /\ p[c] \in Seq(Api!Errors)
    BY <1>1 DEF WrapperSound, Places
  <1>3. Tail(p[c]) = <<>>
    <2>1. Tail(p[c]) \in Seq(Api!Errors) /\ Len(Tail(p[c])) = 0
      BY <1>2
    <2> QED
      BY <2>1, EmptySeq
  <1>4. /\ r \in [Api!Calls -> Seq(Api!Errors)] /\ r[c] = <<>>
        /\ \A o \in Api!Calls : o # c => r[o] = p[o]
    BY <1>1, <1>3
  <1>5. Completion(v, c) = d
    BY <1>1 DEF Completion, WrapperStates, Api!ApiStates
  <1> HIDE DEF r
  <1>6. /\ y \in Api!ApiStates /\ y.posted = r
        /\ y.extern_state = x.extern_state /\ y.run = x.run
        /\ y.wait_handler = x.wait_handler /\ y.stop_handler = x.stop_handler
    BY <1>1, <1>4 DEF Api!ApiStates
  <1>7. Has(v, c)
    BY DEF Has
  <1>8. n = Answers(v) /\ n > 0
    BY <1>7 DEF WrapperSound, Answers, Flag, Api!Calls
  <1>14. k \in Nat /\ n = k + 1
    BY <1>1, <1>8
  <1> HIDE DEF y, k
  <1>9. /\ d \in WrapperStates /\ d.api = y /\ d.pending_operations = k
        /\ d.state = v.state /\ d.queue = v.queue /\ d.attached = v.attached
    BY <1>1, <1>6, <1>14 DEF WrapperStates
  <1> HIDE DEF d
  <1>10. /\ c \notin ToSet(v.queue)
         /\ c = "wait" => ~x.wait_handler
         /\ c = "stop" => ~x.stop_handler
    BY DEF WrapperSound, Places
  <1>11. /\ ~Has(d, c)
         /\ \A o \in Api!Calls : o # c => (Has(d, o) <=> Has(v, o))
    BY <1>4, <1>6, <1>9, <1>10 DEF Has
  <1>12. k = Answers(d)
    BY <1>7, <1>8, <1>11, <1>14 DEF Answers, Flag, Api!Calls
  <1>13. Places(d)
    BY <1>4, <1>6, <1>9, <1>10 DEF WrapperSound, Places, Api!Calls
  <1> QED
    BY <1>1, <1>4, <1>5, <1>6, <1>7, <1>9, <1>11, <1>12, <1>13, <1>14
       DEF Taken

\* What is said of v in WrapperSound apart from its state.
LEMMA TakenSound ==
  ASSUME NEW v, WrapperSound(v), NEW d, NEW c \in Api!Calls, Taken(v, d, c),
         Has(v, c)
  PROVE  /\ d.attached /\ d.state # "ready"
         /\ d.api.stop_handler = (d.api.extern_state = "stop")
         /\ d.api.extern_state = "stopped" => d.api.run = "stopped"
         /\ "start" \in ToSet(d.queue) => d.api.extern_state = "ready"
         /\ d.api.posted["start"] # <<>> /\ Head(d.api.posted["start"]) # "ok" =>
              d.api.extern_state = "stopped"
         /\ d.api.posted["stop"] # <<>> \/ d.state = "stopped" =>
              d.api.extern_state = "stopped"
         /\ ~(Has(d, "start") /\ Has(d, "wait"))
         /\ d.state = "stopped" => ~Has(d, "stop")
  BY DEF WrapperSound, Interface, Taken, Asked, Detached, Api!Calls

\* The answer of a call the wrapper no longer waits for.
LEMMA LateSound ==
  ASSUME NEW v, WrapperSound(v), NEW d, NEW c \in {"start", "wait"},
         Taken(v, d, c), Has(v, c),
         v.state # (IF c = "start" THEN "start" ELSE "work")
  PROVE  /\ WrapperSound(d) /\ v.state \in {"stop", "stopped"}
         /\ d.pending_operations = 0 =>
              v.state = "stopped" /\ v.api.extern_state = "stopped"
         /\ ~Has(d, "start") /\ ~Has(d, "wait") /\ d.attached
  <1>1. c \in Api!Calls
    BY DEF Api!Calls
  <1>2. v.state \in {"stop", "stopped"}
    BY DEF WrapperSound, WrapperStates, Asked, Api!Calls
  <1>3. d.state = v.state /\ v.state = "stop" => Has(d, "stop")
    BY DEF WrapperSound, Asked, Taken, Api!Calls
  <1>4. /\ ~Has(d, "start") /\ ~Has(d, "wait")
    BY DEF WrapperSound, Asked, Taken, Api!Calls
  <1>5. Asked(d) /\ Interface(d) /\ d.attached /\ d.state # "ready"
    BY <1>1, <1>2, <1>3, <1>4, TakenSound DEF Asked, Interface, Taken
  <1>6. d.pending_operations = 0 => ~Has(d, "stop")
    BY DEF Taken, Answers, Flag
  <1> QED
    BY <1>2, <1>3, <1>4, <1>5, <1>6 DEF WrapperSound, Taken, Interface, Asked

\* The wrapper of a session that has stopped, or could not start, is done with.
LEMMA DismissSound ==
  ASSUME NEW v, WrapperSound(v), NEW d, NEW c \in Api!Calls, Taken(v, d, c), Has(v, c),
         ~Has(d, "stop"), d.api.extern_state = "stopped"
  PROVE  LET u == [d EXCEPT !.state = "stopped"]
         IN  /\ WrapperSound(u) /\ u.state = "stopped" /\ u.attached
             /\ u.pending_operations = d.pending_operations
             /\ \A o \in Api!Calls : Has(u, o) <=> Has(d, o)
  <1> DEFINE u == [d EXCEPT !.state = "stopped"]
  <1>1. d \in WrapperStates
    BY DEF Taken
  <1>2. /\ u \in WrapperStates /\ u.state = "stopped" /\ u.api = d.api
        /\ u.queue = d.queue /\ u.attached = d.attached
        /\ u.pending_operations = d.pending_operations
    BY <1>1 DEF WrapperStates
  <1> HIDE DEF u
  <1>3. \A o \in Api!Calls : Has(u, o) <=> Has(d, o)
    BY <1>2 DEF Has
  <1>4. Asked(u) /\ Interface(u) /\ u.attached
    BY <1>2, <1>3, TakenSound DEF Asked, Interface, Api!Calls
  <1>5. Places(u)
    BY <1>2 DEF Taken, Places
  <1>6. Answers(u) = Answers(d)
    BY <1>3 DEF Answers, Flag, Api!Calls
  <1> QED
    BY <1>2, <1>3, <1>4, <1>5, <1>6 DEF WrapperSound, Taken, u

\* A call posted to the strand of the session, as in Invoke.
Called(v, call, state) ==
  [v EXCEPT !.queue = Append(@, call), !.state = state, !.pending_operations = @ + 1]

\* What a call of the manager does to the wrapper, member by member.
LEMMA CalledFields ==
  ASSUME NEW v \in WrapperStates, NEW call \in Api!Calls,
         NEW state \in {"start", "work", "stop"}
  PROVE  LET u == Called(v, call, state)
         IN  /\ u \in WrapperStates /\ u.state = state /\ u.api = v.api
             /\ u.queue = Append(v.queue, call) /\ u.attached = v.attached
             /\ u.pending_operations = v.pending_operations + 1
  <1> DEFINE q == Append(v.queue, call)
             n == v.pending_operations + 1
             u == [v EXCEPT !.queue = q, !.state = state, !.pending_operations = n]
  <1>1. q \in Seq(Api!Calls) /\ n \in Nat
    BY DEF WrapperStates
  <1>2. Called(v, call, state) = u
    BY DEF Called, WrapperStates
  <1> HIDE DEF q, n
  <1>3. /\ u \in WrapperStates /\ u.state = state /\ u.api = v.api
        /\ u.queue = q /\ u.attached = v.attached /\ u.pending_operations = n
    BY <1>1 DEF WrapperStates
  <1> QED
    BY <1>2, <1>3 DEF q, n

\* What is in a queue after the call.
LEMMA QueueCalled ==
  /\ Append(<<>>, "start") = <<"start">> /\ Append(<<>>, "wait") = <<"wait">>
  /\ Append(<<>>, "stop") = <<"stop">>
  /\ Append(<<"start">>, "stop") = <<"start", "stop">>
  /\ Append(<<"wait">>, "stop") = <<"wait", "stop">>
  <1>1. ASSUME NEW e \in Api!Calls, NEW f \in Api!Calls
        PROVE  Append(<<e>>, f) = <<e, f>>
    <2> DEFINE s == Append(<<e>>, f)
               t == <<e, f>>
    <2>1. s \in Seq(Api!Calls) /\ Len(s) = 2 /\ s[1] = e /\ s[2] = f
      OBVIOUS
    <2>2. t \in Seq(Api!Calls) /\ Len(t) = 2 /\ t[1] = e /\ t[2] = f
      OBVIOUS
    <2> HIDE DEF s, t
    <2>3. s = t
      BY <2>1, <2>2, SeqEqual
    <2> QED
      BY <2>3 DEF s, t
  <1>2. \A e \in Api!Calls : Append(<<>>, e) = <<e>>
    OBVIOUS
  <1> QED
    BY <1>1, <1>2 DEF Api!Calls

\* A queue with none of the calls in it is empty, and so on.
LEMMA QueueWithout ==
  ASSUME NEW q \in Queues, "stop" \notin ToSet(q)
  PROVE  /\ Append(q, "stop") \in Queues
         /\ ToSet(Append(q, "stop")) = ToSet(q) \cup {"stop"}
         /\ "start" \notin ToSet(q) /\ "wait" \notin ToSet(q) => q = <<>>
  <1>1. q \in {<<>>, <<"start">>, <<"wait">>}
    BY QueueMembers DEF Queues
  <1> QED
    BY <1>1, QueueMembers, QueueCalled DEF Queues

\* A call that is not under way yet takes its place in the queue.
LEMMA CalledPlaces ==
  ASSUME NEW d \in WrapperStates, Places(d), d.pending_operations = Answers(d),
         NEW call \in Api!Calls, ~Has(d, call),
         Append(d.queue, call) \in Queues,
         ToSet(Append(d.queue, call)) = ToSet(d.queue) \cup {call},
         NEW state \in {"start", "work", "stop"}
  PROVE  LET u == Called(d, call, state)
         IN  /\ u \in WrapperStates /\ Places(u) /\ Has(u, call)
             /\ \A o \in Api!Calls : o # call => (Has(u, o) <=> Has(d, o))
             /\ u.pending_operations = Answers(u)
  <1> DEFINE u == Called(d, call, state)
  <1>1. /\ u \in WrapperStates /\ u.state = state /\ u.api = d.api
        /\ u.queue = Append(d.queue, call)
        /\ u.pending_operations = d.pending_operations + 1
        /\ u.attached = d.attached
    BY CalledFields
  <1> HIDE DEF u
  <1>2. ToSet(u.queue) = ToSet(d.queue) \cup {call} /\ u.queue \in Queues
    BY <1>1
  <1>3. /\ Has(u, call) /\ \A o \in Api!Calls : o # call => (Has(u, o) <=> Has(d, o))
    BY <1>1, <1>2 DEF Has
  <1>4. Places(u)
    BY <1>1, <1>2 DEF Places, Has, Api!Calls
  <1>5. Answers(u) = Answers(d) + 1
    BY <1>3 DEF Answers, Flag, Api!Calls
  <1> QED
    BY <1>1, <1>3, <1>4, <1>5 DEF u

\* The wrapper of a session that works is told to stop it.
LEMMA StopSound ==
  ASSUME NEW v, WrapperSound(v), v.state \in {"start", "work"}
  PROVE  LET u == Called(v, "stop", "stop")
         IN  /\ WrapperSound(u) /\ u.state = "stop" /\ u.attached
             /\ u.pending_operations = v.pending_operations + 1
             /\ \A o \in {"start", "wait"} : Has(u, o) <=> Has(v, o)
  <1> DEFINE u == Called(v, "stop", "stop")
  <1>1. /\ v \in WrapperStates /\ Places(v) /\ v.pending_operations = Answers(v)
        /\ ~Has(v, "stop") /\ v.queue \in Queues /\ "stop" \notin ToSet(v.queue)
        /\ "stop" \in Api!Calls /\ v.attached
    BY DEF WrapperSound, Asked, Has, Places, Api!Calls, Detached
  <1>2. /\ Append(v.queue, "stop") \in Queues
        /\ ToSet(Append(v.queue, "stop")) = ToSet(v.queue) \cup {"stop"}
    BY <1>1, QueueWithout
  <1>3. /\ u \in WrapperStates /\ Places(u) /\ Has(u, "stop")
        /\ \A o \in Api!Calls : o # "stop" => (Has(u, o) <=> Has(v, o))
        /\ u.pending_operations = Answers(u)
    BY <1>1, <1>2, CalledPlaces
  <1>4. /\ u.state = "stop" /\ u.api = v.api /\ u.queue = Append(v.queue, "stop")
        /\ u.pending_operations = v.pending_operations + 1 /\ u.attached
    BY <1>1, CalledFields
  <1> HIDE DEF u
  <1>5. Asked(u)
    BY <1>3, <1>4 DEF Asked, WrapperSound, Api!Calls
  <1>6. Interface(u)
    BY <1>2, <1>4 DEF Interface, WrapperSound
  <1> QED
    BY <1>3, <1>4, <1>5, <1>6 DEF WrapperSound, Api!Calls, u

\* A session that was started is asked for its end, and one that has ended is told
\* to stop: nothing else is under way then.
LEMMA AskSound ==
  ASSUME NEW v, WrapperSound(v), NEW d, NEW c \in {"start", "wait"},
         Taken(v, d, c), Has(v, c), v.state \in {"start", "work"},
         NEW call \in {"wait", "stop"},
         NEW state, state = (IF call = "wait" THEN "work" ELSE "stop")
  PROVE  LET u == Called(d, call, state)
         IN  /\ WrapperSound(u) /\ u.state = state /\ u.attached
             /\ u.pending_operations = 1 /\ d.pending_operations = 0
             /\ ~Has(u, "start") /\ (Has(u, "wait") <=> call = "wait")
  <1> DEFINE u == Called(d, call, state)
  <1>1. c \in Api!Calls /\ call \in Api!Calls /\ state \in {"start", "work", "stop"}
    BY DEF Api!Calls
  <1>2. ~Has(d, "start") /\ ~Has(d, "wait") /\ ~Has(d, "stop")
    BY DEF WrapperSound, Asked, Taken, Api!Calls
  <1>3. /\ d \in WrapperStates /\ Places(d) /\ d.pending_operations = Answers(d)
        /\ d.queue \in Queues
    BY DEF Taken, Places
  <1>4. d.queue = <<>>
    BY <1>2, <1>3, QueueWithout DEF Has
  <1>5. d.pending_operations = 0
    BY <1>2, <1>3 DEF Answers, Flag
  <1>6. /\ Append(d.queue, call) \in Queues
        /\ ToSet(Append(d.queue, call)) = ToSet(d.queue) \cup {call}
        /\ "start" \notin ToSet(Append(d.queue, call))
    BY <1>4, QueueCalled, QueueMembers DEF Queues
  <1>7. /\ u \in WrapperStates /\ Places(u) /\ Has(u, call)
        /\ \A o \in Api!Calls : o # call => (Has(u, o) <=> Has(d, o))
        /\ u.pending_operations = Answers(u)
    BY <1>1, <1>2, <1>3, <1>6, CalledPlaces
  <1>8. /\ u.state = state /\ u.api = d.api /\ u.queue = Append(d.queue, call)
        /\ u.pending_operations = d.pending_operations + 1
        /\ u.attached = d.attached
    BY ZenonT(40), <1>1, <1>3, CalledFields
  <1> HIDE DEF u
  <1>9. Asked(u)
    BY <1>2, <1>7, <1>8 DEF Asked, Api!Calls
  <1>10. Interface(u) /\ d.attached
    BY <1>1, <1>6, <1>8, TakenSound DEF Interface, Taken
  <1>11. WrapperSound(u) /\ u.attached /\ u.pending_operations = 1
    BY <1>5, <1>7, <1>8, <1>9, <1>10 DEF WrapperSound
  <1>12. ~Has(u, "start") /\ (Has(u, "wait") <=> call = "wait")
    BY <1>2, <1>7 DEF Api!Calls
  <1> QED
    BY <1>5, <1>8, <1>11, <1>12 DEF u

\* A wrapper that accepts a connection is as good as new.
LEMMA ReadyWrapper ==
  ASSUME NEW v, WrapperSound(v), v.state = "ready"
  PROVE  /\ v.pending_operations = 0 /\ v.queue = <<>> /\ v.api = Api!Fresh
         /\ \A c \in Api!Calls : ~Has(v, c)
  <1>1. \A c \in Api!Calls : ~Has(v, c)
    BY DEF WrapperSound, Asked
  <1>2. v.pending_operations = 0
    BY <1>1 DEF WrapperSound, Answers, Flag, Api!Calls
  <1>3. v.queue \in Queues
    BY DEF WrapperSound, Places
  <1>4. v.queue = <<>>
    BY <1>1, <1>3, QueueWithout DEF Has, Api!Calls
  <1> QED
    BY <1>1, <1>2, <1>4 DEF WrapperSound

\* The interface of a new session.
LEMMA FreshFields ==
  /\ Api!Fresh \in Api!ApiStates
  /\ Api!Fresh.extern_state = "ready" /\ Api!Fresh.run = "work"
  /\ Api!Fresh.wait_handler = FALSE /\ Api!Fresh.stop_handler = FALSE
  /\ \A c \in Api!Calls : Api!Fresh.posted[c] = <<>>
  <1> DEFINE none == <<>>
             p == [c \in Api!Calls |-> none]
  <1>1. none \in Seq(Api!Errors) /\ none = <<>> /\ "ok" \in Api!Errors
    BY DEF Api!Errors
  <1>2. /\ Api!Fresh = [extern_state |-> "ready", run |-> "work",
              extern_wait_error |-> "ok", wait_handler |-> FALSE,
              stop_handler |-> FALSE, posted |-> p]
    BY DEF Api!Fresh
  <1> HIDE DEF none
  <1>3. p \in [Api!Calls -> Seq(Api!Errors)] /\ \A c \in Api!Calls : p[c] = none
    BY <1>1
  <1> HIDE DEF p
  <1>4. /\ Api!Fresh \in Api!ApiStates /\ Api!Fresh.posted = p
        /\ Api!Fresh.extern_state = "ready" /\ Api!Fresh.run = "work"
        /\ Api!Fresh.wait_handler = FALSE /\ Api!Fresh.stop_handler = FALSE
    BY <1>1, <1>2, <1>3 DEF Api!ApiStates
  <1> QED
    BY <1>1, <1>3, <1>4

\* A wrapper without a session, and one that was just given a session.
LEMMA FreshSound ==
  ASSUME NEW v, v = Detached \/ v = [Detached EXCEPT !.attached = TRUE]
  PROVE  /\ WrapperSound(v) /\ v.pending_operations = 0 /\ v.state = "ready"
         /\ \A c \in Api!Calls : ~Has(v, c)
  <1> DEFINE none == <<>>
  <1>1. /\ none \in Seq(Api!Calls) /\ none \in Queues
        /\ ToSet(none) = {} /\ none = <<>>
    BY QueueMembers DEF Queues
  <1>2. Detached = [state |-> "ready", pending_operations |-> 0,
                    attached |-> FALSE, queue |-> none, api |-> Api!Fresh]
    BY DEF Detached
  <1> HIDE DEF none
  <1>3. /\ v \in WrapperStates /\ v.state = "ready" /\ v.pending_operations = 0
        /\ v.queue = none /\ v.api = Api!Fresh
        /\ (~v.attached => v = Detached)
    <2>1. Api!Fresh \in Api!ApiStates /\ 0 \in Nat
      BY FreshFields
    <2>2. /\ Detached \in WrapperStates /\ Detached.state = "ready"
          /\ Detached.pending_operations = 0 /\ Detached.queue = none
          /\ Detached.api = Api!Fresh /\ Detached.attached = FALSE
      BY <1>1, <1>2, <2>1 DEF WrapperStates
    <2>3. CASE v = Detached
      BY <2>2, <2>3
    <2>4. CASE v = [Detached EXCEPT !.attached = TRUE]
      BY <2>2, <2>4 DEF WrapperStates
    <2> QED
      BY <2>3, <2>4
  <1>4. \A c \in Api!Calls : ~Has(v, c)
    BY <1>1, <1>3, FreshFields DEF Has
  <1>5. Places(v) /\ Interface(v)
    BY <1>1, <1>3, FreshFields DEF Places, Interface, Api!Calls
  <1>6. Asked(v) /\ Answers(v) = 0
    BY <1>3, <1>4 DEF Asked, Answers, Flag, Api!Calls
  <1> QED
    BY <1>3, <1>4, <1>5, <1>6 DEF WrapperSound

\* The session of an accepted connection is started.
LEMMA StartSound ==
  ASSUME NEW v, WrapperSound(v), v.state = "ready", v.attached
  PROVE  LET u == Called(v, "start", "start")
         IN  /\ WrapperSound(u) /\ u.state = "start" /\ u.attached
             /\ u.pending_operations = 1 /\ Has(u, "start")
  <1> DEFINE u == Called(v, "start", "start")
  <1>1. /\ v \in WrapperStates /\ Places(v) /\ v.pending_operations = Answers(v)
        /\ "start" \in Api!Calls /\ v.queue = <<>> /\ v.pending_operations = 0
        /\ v.api = Api!Fresh /\ \A c \in Api!Calls : ~Has(v, c)
    BY ReadyWrapper DEF WrapperSound, Api!Calls
  <1>2. /\ Append(v.queue, "start") \in Queues
        /\ ToSet(Append(v.queue, "start")) = ToSet(v.queue) \cup {"start"}
    BY <1>1, QueueCalled, QueueMembers DEF Queues
  <1>3. /\ u \in WrapperStates /\ Places(u) /\ Has(u, "start")
        /\ \A o \in Api!Calls : o # "start" => (Has(u, o) <=> Has(v, o))
        /\ u.pending_operations = Answers(u)
    BY <1>1, <1>2, CalledPlaces
  <1>4. /\ u.state = "start" /\ u.api = v.api /\ u.queue = Append(v.queue, "start")
        /\ u.pending_operations = v.pending_operations + 1 /\ u.attached
    BY <1>1, CalledFields
  <1> HIDE DEF u
  <1>5. Asked(u)
    BY <1>1, <1>3, <1>4 DEF Asked, Api!Calls
  <1>6. Interface(u)
    BY <1>1, <1>4, FreshFields DEF Interface, Api!Calls
  <1> QED
    BY <1>1, <1>3, <1>4, <1>5, <1>6 DEF WrapperSound, u

-----------------------------------------------------------------------------
(***************************************************************************)
(* The lists: their order is what the stop walks along.                     *)
(***************************************************************************)
Distinct(q) == \A i, j \in DOMAIN q : q[i] = q[j] => i = j

\* A wrapper in a list has one place there.
LEMMA PositionAt ==
  ASSUME NEW list \in Seq(Wrappers), NEW w \in ToSet(list)
  PROVE  /\ Position(list, w) \in 1 .. Len(list) /\ list[Position(list, w)] = w
         /\ Distinct(list) =>
              \A k \in 1 .. Len(list) : list[k] = w => k = Position(list, w)
  <1>1. DOMAIN list = 1 .. Len(list)
    OBVIOUS
  <1>2. \E k \in DOMAIN list : list[k] = w
    BY DEF ToSet
  <1>3. Position(list, w) \in DOMAIN list /\ list[Position(list, w)] = w
    BY <1>2 DEF Position
  <1> QED
    BY <1>1, <1>3 DEF Distinct

\* The first n elements of a sequence and the others.
LEMMA Cut ==
  ASSUME NEW S, NEW q \in Seq(S), NEW n \in Nat, n <= Len(q)
  PROVE  /\ SubSeq(q, 1, n) \in Seq(S) /\ Len(SubSeq(q, 1, n)) = n
         /\ \A k \in 1 .. n : SubSeq(q, 1, n)[k] = q[k]
         /\ SubSeq(q, n + 1, Len(q)) \in Seq(S)
         /\ Len(SubSeq(q, n + 1, Len(q))) = Len(q) - n
         /\ \A k \in 1 .. Len(q) - n : SubSeq(q, n + 1, Len(q))[k] = q[n + k]
  <1>1. Len(q) \in Nat /\ \A k \in 1 .. Len(q) : q[k] \in S
    OBVIOUS
  <1> DEFINE p == SubSeq(q, 1, n)
             r == SubSeq(q, n + 1, Len(q))
  <1>2. p \in Seq(S) /\ Len(p) = n /\ \A k \in 1 .. n : p[k] = q[k]
    BY <1>1
  <1>3. /\ r \in Seq(S) /\ Len(r) = Len(q) - n
        /\ \A k \in 1 .. Len(q) - n : r[k] = q[n + k]
    BY <1>1
  <1> QED
    BY <1>2, <1>3

\* What a list is without one of its wrappers.
ErasedFrom(list, w, r) ==
  LET p == Position(list, w)
  IN  /\ r \in Seq(Wrappers) /\ Len(r) = Len(list) - 1
      /\ \A j \in 1 .. Len(r) : r[j] = list[IF j < p THEN j ELSE j + 1]

\* Erasing keeps the others in their order.
LEMMA ErasedAt ==
  ASSUME NEW list \in Seq(Wrappers), NEW w \in ToSet(list), Distinct(list)
  PROVE  LET r == Erased(list, w)
         IN  ErasedFrom(list, w, r) /\ Distinct(r) /\ ToSet(r) = ToSet(list) \ {w}
  <1> DEFINE p == Position(list, w)
             n == Len(list)
             a == SubSeq(list, 1, p - 1)
             b == SubSeq(list, p + 1, n)
             r == a \o b
  <1>1. p \in 1 .. n /\ n \in Nat /\ list[p] = w /\ DOMAIN list = 1 .. n
    BY PositionAt
  <1>2. \A k \in 1 .. n : list[k] = w => k = p
    BY PositionAt
  <1>3. Erased(list, w) = r
    BY DEF Erased, RemoveAt
  <1> HIDE DEF p, n
  <1>4. a \in Seq(Wrappers) /\ Len(a) = p - 1 /\ \A j \in 1 .. p - 1 : a[j] = list[j]
    <2> DEFINE k == p - 1
    <2>1. k \in Nat /\ k <= Len(list)
      BY <1>1 DEF n
    <2> HIDE DEF k
    <2>2. /\ SubSeq(list, 1, k) \in Seq(Wrappers) /\ Len(SubSeq(list, 1, k)) = k
          /\ \A j \in 1 .. k : SubSeq(list, 1, k)[j] = list[j]
      BY <2>1, Cut
    <2> QED
      BY <2>2 DEF k
  <1>5. b \in Seq(Wrappers) /\ Len(b) = n - p /\ \A j \in 1 .. n - p : b[j] = list[p + j]
    <2>1. p \in Nat /\ p <= Len(list)
      BY <1>1 DEF n
    <2> QED
      BY <2>1, Cut DEF n
  <1> HIDE DEF a, b
  <1>6. r \in Seq(Wrappers) /\ Len(r) = n - 1
    <2>1. r \in Seq(Wrappers) /\ Len(r) = Len(a) + Len(b)
      BY <1>4, <1>5, ConcatProperties
    <2> QED
      BY <1>1, <1>4, <1>5, <2>1
  <1>7. \A j \in 1 .. n - 1 : r[j] = list[IF j < p THEN j ELSE j + 1]
    <2> TAKE j \in 1 .. n - 1
    <2>1. CASE j < p
      BY <1>1, <1>4, <1>5, <2>1
    <2>2. CASE ~(j < p)
      <3>1. r[j] = b[j - (p - 1)]
        BY <1>1, <1>4, <1>5, <2>2
      <3>2. j - (p - 1) \in 1 .. n - p /\ p + (j - (p - 1)) = j + 1
        BY <1>1, <2>2
      <3> QED
        BY <1>5, <2>2, <3>1, <3>2
    <2> QED
      BY <2>1, <2>2
  <1> HIDE DEF r
  <1>8. DOMAIN r = 1 .. n - 1
    BY <1>1, <1>6
  <1>9. Distinct(r)
    <2> SUFFICES ASSUME NEW i \in 1 .. n - 1, NEW j \in 1 .. n - 1, r[i] = r[j]
                 PROVE  i = j
      BY <1>8 DEF Distinct
    <2>1. list[IF i < p THEN i ELSE i + 1] = list[IF j < p THEN j ELSE j + 1]
      BY <1>7
    <2>2. (IF i < p THEN i ELSE i + 1) = (IF j < p THEN j ELSE j + 1)
      BY <1>1, <2>1 DEF Distinct
    <2> QED
      BY <1>1, <2>2
  <1>10. ToSet(r) = ToSet(list) \ {w}
    <2>1. ASSUME NEW x \in ToSet(r) PROVE x \in ToSet(list) /\ x # w
      <3>1. PICK j \in 1 .. n - 1 : x = r[j]
        BY <1>8, <2>1 DEF ToSet
      <3> DEFINE k == IF j < p THEN j ELSE j + 1
      <3>2. k \in 1 .. n /\ k # p
        BY <1>1
      <3>3. x = list[k]
        BY <1>7, <3>1
      <3> HIDE DEF k
      <3> QED
        BY <1>1, <1>2, <3>2, <3>3 DEF ToSet
    <2>2. ASSUME NEW x \in ToSet(list), x # w PROVE x \in ToSet(r)
      <3>1. PICK k \in 1 .. n : x = list[k]
        BY <1>1, <2>2 DEF ToSet
      <3> DEFINE j == IF k < p THEN k ELSE k - 1
      <3>2. j \in 1 .. n - 1 /\ (IF j < p THEN j ELSE j + 1) = k
        BY <1>1, <2>2, <3>1
      <3> HIDE DEF j
      <3>3. r[j] = x
        BY <1>7, <3>1, <3>2
      <3> QED
        BY <1>8, <3>2, <3>3 DEF ToSet
    <2> QED
      BY <2>1, <2>2
  <1> QED
    BY <1>3, <1>6, <1>7, <1>9, <1>10 DEF ErasedFrom, p, n

\* A list with one more wrapper at its front.
LEMMA PushedAt ==
  ASSUME NEW list \in Seq(Wrappers), NEW w \in Wrappers
  PROVE  LET r == <<w>> \o list
         IN  /\ r \in Seq(Wrappers) /\ Len(r) = Len(list) + 1 /\ r # <<>>
             /\ ToSet(r) = ToSet(list) \cup {w}
             /\ Distinct(list) /\ w \notin ToSet(list) => Distinct(r)
  <1> DEFINE r == <<w>> \o list
             n == Len(list)
  <1>1. /\ r \in Seq(Wrappers) /\ Len(r) = n + 1 /\ n \in Nat /\ r[1] = w
        /\ \A j \in 2 .. n + 1 : r[j] = list[j - 1]
        /\ DOMAIN list = 1 .. n
    OBVIOUS
  <1> HIDE DEF r, n
  <1>2. DOMAIN r = 1 .. n + 1
    BY <1>1
  <1>3. \A j \in 1 .. n : j + 1 \in 2 .. n + 1 /\ r[j + 1] = list[j]
    BY <1>1
  <1>4. ToSet(r) = ToSet(list) \cup {w}
    <2>1. ASSUME NEW x \in ToSet(r) PROVE x \in ToSet(list) \cup {w}
      <3>1. PICK j \in 1 .. n + 1 : x = r[j]
        BY <1>2, <2>1 DEF ToSet
      <3>2. CASE j = 1
        BY <1>1, <3>1, <3>2
      <3>3. CASE j # 1
        <4>1. x = list[j - 1] /\ j - 1 \in 1 .. n
          BY <1>1, <3>1, <3>3
        <4> QED
          BY <1>1, <4>1 DEF ToSet
      <3> QED
        BY <3>2, <3>3
    <2>2. ASSUME NEW x \in ToSet(list) PROVE x \in ToSet(r)
      <3>1. PICK j \in 1 .. n : x = list[j]
        BY <1>1, <2>2 DEF ToSet
      <3>2. x = r[j + 1] /\ j + 1 \in 1 .. n + 1
        BY <1>1, <1>3, <3>1
      <3> QED
        BY <1>2, <3>2 DEF ToSet
    <2>3. w \in ToSet(r)
      BY <1>1, <1>2 DEF ToSet
    <2> QED
      BY <2>1, <2>2, <2>3
  <1>5. ASSUME Distinct(list), w \notin ToSet(list) PROVE Distinct(r)
    <2> SUFFICES ASSUME NEW i \in 1 .. n + 1, NEW j \in 1 .. n + 1, r[i] = r[j]
                 PROVE  i = j
      BY <1>2 DEF Distinct
    <2>1. ASSUME NEW k \in 2 .. n + 1 PROVE r[k] # w
      <3>1. r[k] = list[k - 1] /\ k - 1 \in DOMAIN list
        BY <1>1
      <3>2. r[k] \in ToSet(list)
        BY <3>1 DEF ToSet
      <3> QED
        BY <1>5, <3>2
    <2>2. CASE i = 1 \/ j = 1
      BY <1>1, <2>1, <2>2
    <2>3. CASE i # 1 /\ j # 1
      <3>1. i - 1 \in 1 .. n /\ j - 1 \in 1 .. n /\ list[i - 1] = list[j - 1]
        BY <1>1, <2>3
      <3>2. i - 1 = j - 1
        BY <1>1, <1>5, <3>1 DEF Distinct
      <3> QED
        BY <1>1, <3>2
    <2> QED
      BY <2>2, <2>3
  <1>6. r # <<>>
    BY <1>1
  <1> QED
    BY <1>1, <1>4, <1>5, <1>6 DEF r, n

\* A list without doubles has as many wrappers as places.
LEMMA DistinctCardinality ==
  ASSUME NEW list \in Seq(Wrappers), Distinct(list)
  PROVE  Cardinality(ToSet(list)) = Len(list)
  <1> DEFINE n == Len(list)
  <1>1. n \in Nat /\ DOMAIN list = 1 .. n /\ list \in [1 .. n -> Wrappers]
    OBVIOUS
  <1>2. list \in [1 .. n -> ToSet(list)]
    BY <1>1 DEF ToSet
  <1>3. \A i, j \in 1 .. n : list[i] = list[j] => i = j
    BY <1>1 DEF Distinct
  <1>4. \A x \in ToSet(list) : \E i \in 1 .. n : list[i] = x
    BY <1>1 DEF ToSet
  <1> HIDE DEF n
  <1>5. list \in Bijection(1 .. n, ToSet(list))
    BY <1>2, <1>3, <1>4 DEF Bijection, Injection, Surjection, IsInjective
  <1>6. ExistsBijection(1 .. n, ToSet(list))
    BY <1>5 DEF ExistsBijection
  <1>7. IsFiniteSet(1 .. n) /\ Cardinality(1 .. n) = n
    BY <1>1, FS_Interval
  <1> QED
    BY <1>6, <1>7, FS_Bijection DEF n

-----------------------------------------------------------------------------
(***************************************************************************)
(* The counts over all wrappers.                                            *)
(***************************************************************************)
\* The pending operations of a wrapper.
LEMMA PendingOf ==
  ASSUME NEW vs \in [Wrappers -> WrapperStates]
  PROVE  /\ \A w \in Wrappers : vs[w].pending_operations \in Nat
         /\ \A x : x \in Pending(vs) <=>
              \E w \in Wrappers : \E k \in 1 .. vs[w].pending_operations : x = <<w, k>>
  <1>1. \A w \in Wrappers : vs[w].pending_operations \in Nat
    BY DEF WrapperStates
  <1>2. ASSUME NEW x
        PROVE  x \in Pending(vs) <=>
                 \E w \in Wrappers : \E k \in 1 .. vs[w].pending_operations : x = <<w, k>>
    BY DEF Pending
  <1> QED
    BY <1>1, <1>2

\* There are finitely many operations.
LEMMA PendingFinite ==
  ASSUME NEW vs \in [Wrappers -> WrapperStates]
  PROVE  IsFiniteSet(Pending(vs)) /\ Cardinality(Pending(vs)) \in Nat
  <1> DEFINE of(w) == {w} \X (1 .. vs[w].pending_operations)
             all == {of(w) : w \in Wrappers}
             f == [w \in Wrappers |-> of(w)]
  <1>1. IsFiniteSet(Wrappers)
    BY ManagerAssumption
  <1>2. ASSUME NEW w \in Wrappers PROVE IsFiniteSet(of(w))
    <2>1. vs[w].pending_operations \in Nat
      BY PendingOf
    <2>2. IsFiniteSet(1 .. vs[w].pending_operations) /\ IsFiniteSet({w})
      <3> DEFINE n == vs[w].pending_operations
      <3>1. 1 \in Int /\ n \in Int
        BY <2>1
      <3> HIDE DEF n
      <3>2. IsFiniteSet(1 .. n)
        BY <3>1, FS_Interval
      <3> QED
        BY <3>2, FS_Singleton DEF n
    <2> QED
      BY <2>2, FS_Product
  <1>3. Pending(vs) = UNION all
    BY DEF Pending
  <1> HIDE DEF of
  <1>4. f \in Surjection(Wrappers, all)
    BY DEF Surjection
  <1>5. IsFiniteSet(all)
    BY <1>1, <1>4, FS_Surjection
  <1>6. \A t \in all : IsFiniteSet(t)
    BY <1>2
  <1>7. IsFiniteSet(UNION all)
    BY <1>5, <1>6, FS_UNION
  <1> QED
    BY <1>3, <1>7, FS_CardinalityType

\* Only the numbers of operations count.
LEMMA PendingSame ==
  ASSUME NEW vs \in [Wrappers -> WrapperStates], NEW us \in [Wrappers -> WrapperStates],
         \A w \in Wrappers : us[w].pending_operations = vs[w].pending_operations
  PROVE  Pending(us) = Pending(vs)
  <1>1. \A x : x \in Pending(us) <=> x \in Pending(vs)
    BY PendingOf
  <1> QED
    BY <1>1

\* Each of the wrappers ws has one operation more.
LEMMA PendingMore ==
  ASSUME NEW vs \in [Wrappers -> WrapperStates], NEW us \in [Wrappers -> WrapperStates],
         NEW ws \in SUBSET Wrappers,
         \A w \in ws : us[w].pending_operations = vs[w].pending_operations + 1,
         \A w \in Wrappers \ ws : us[w].pending_operations = vs[w].pending_operations
  PROVE  Cardinality(Pending(us)) = Cardinality(Pending(vs)) + Cardinality(ws)
  <1> DEFINE n(w) == vs[w].pending_operations
             new == {<<w, n(w) + 1>> : w \in ws}
             f == [w \in ws |-> <<w, n(w) + 1>>]
  <1>1. IsFiniteSet(ws) /\ Cardinality(ws) \in Nat
    BY ManagerAssumption, FS_Subset, FS_CardinalityType
  <1>2. \A w \in Wrappers : n(w) \in Nat
    BY PendingOf
  <1>3. f \in Bijection(ws, new)
    BY DEF Bijection, Injection, Surjection, IsInjective
  <1>4. IsFiniteSet(new) /\ Cardinality(new) = Cardinality(ws)
    BY <1>1, <1>3, FS_Bijection DEF ExistsBijection
  <1>5. Pending(us) = Pending(vs) \cup new
    <2>1. ASSUME NEW x \in Pending(us) PROVE x \in Pending(vs) \cup new
      <3>0. PICK w \in Wrappers : \E k \in 1 .. us[w].pending_operations : x = <<w, k>>
        BY <2>1, PendingOf
      <3>1. PICK k \in 1 .. us[w].pending_operations : x = <<w, k>>
        BY <3>0
      <3>2. CASE k \in 1 .. n(w)
        BY <3>1, <3>2, PendingOf
      <3>3. CASE ~(k \in 1 .. n(w))
        <4>1. w \in ws /\ k = n(w) + 1
          BY <1>2, <3>1, <3>3
        <4> QED
          BY <3>1, <4>1
      <3> QED
        BY <3>2, <3>3
    <2>2. ASSUME NEW x \in Pending(vs) PROVE x \in Pending(us)
      <3>0. PICK w \in Wrappers : \E k \in 1 .. n(w) : x = <<w, k>>
        BY <2>2, PendingOf
      <3>1. PICK k \in 1 .. n(w) : x = <<w, k>>
        BY <3>0
      <3>2. k \in 1 .. us[w].pending_operations
        BY <1>2, <3>1
      <3> QED
        BY <3>1, <3>2, PendingOf
    <2>3. ASSUME NEW x \in new PROVE x \in Pending(us)
      <3>1. PICK w \in ws : x = <<w, n(w) + 1>>
        BY <2>3
      <3>2. n(w) + 1 \in 1 .. us[w].pending_operations /\ w \in Wrappers
        BY <1>2, <3>1
      <3> QED
        BY <3>1, <3>2, PendingOf
    <2> QED
      BY <2>1, <2>2, <2>3
  <1>6. Pending(vs) \cap new = {}
    <2> SUFFICES ASSUME NEW x \in Pending(vs), x \in new PROVE FALSE
      OBVIOUS
    <2>0. PICK w \in Wrappers : \E k \in 1 .. n(w) : x = <<w, k>>
      BY PendingOf
    <2>1. PICK k \in 1 .. n(w) : x = <<w, k>>
      BY <2>0
    <2>2. PICK u \in ws : x = <<u, n(u) + 1>>
      OBVIOUS
    <2>3. w = u /\ k = n(u) + 1
      BY <2>1, <2>2
    <2> QED
      BY <1>2, <2>1, <2>2, <2>3
  <1> HIDE DEF new
  <1>7. IsFiniteSet(Pending(vs)) /\ Cardinality(Pending(vs)) \in Nat
    BY PendingFinite
  <1>8. Cardinality(Pending(us)) = Cardinality(Pending(vs)) + Cardinality(new) - Cardinality({})
    BY <1>4, <1>5, <1>6, <1>7, FS_Union
  <1> QED
    BY <1>1, <1>4, <1>7, <1>8, FS_EmptySet

\* One wrapper has one operation more.
LEMMA PendingOne ==
  ASSUME NEW vs \in [Wrappers -> WrapperStates], NEW us \in [Wrappers -> WrapperStates],
         NEW w \in Wrappers, us[w].pending_operations = vs[w].pending_operations + 1,
         \A x \in Wrappers : x # w => us[x].pending_operations = vs[x].pending_operations
  PROVE  Cardinality(Pending(us)) = Cardinality(Pending(vs)) + 1
  <1> DEFINE ws == {w}
  <1>1. /\ ws \in SUBSET Wrappers
        /\ \A x \in ws : us[x].pending_operations = vs[x].pending_operations + 1
        /\ \A x \in Wrappers \ ws : us[x].pending_operations = vs[x].pending_operations
        /\ Cardinality(ws) = 1
    BY FS_Singleton
  <1> HIDE DEF ws
  <1> QED
    BY <1>1, PendingMore

\* No operation is pending if none is counted.
LEMMA PendingNone ==
  ASSUME NEW vs \in [Wrappers -> WrapperStates], NEW w \in Wrappers,
         vs[w].pending_operations > 0
  PROVE  Cardinality(Pending(vs)) > 0
  <1>1. vs[w].pending_operations \in Nat
    BY PendingOf
  <1>2. 1 \in 1 .. vs[w].pending_operations
    BY <1>1
  <1>3. <<w, 1>> \in Pending(vs)
    BY <1>2, PendingOf
  <1>4. IsFiniteSet(Pending(vs)) /\ Cardinality(Pending(vs)) \in Nat
    BY PendingFinite
  <1>5. Cardinality(Pending(vs)) # 0
    BY <1>3, <1>4, FS_EmptySet
  <1> QED
    BY <1>4, <1>5

\* The accepted sessions whose end the statistics have not seen.
Uncounted(vs) == {w \in Wrappers : Has(vs[w], "start") \/ Has(vs[w], "wait")}

\* One session more or less.
LEMMA UncountedChange ==
  ASSUME NEW vs, NEW us, NEW w \in Wrappers,
         \A x \in Wrappers : x # w => us[x] = vs[x]
  PROVE  LET in(ts) == Has(ts[w], "start") \/ Has(ts[w], "wait")
         IN  /\ Cardinality(Uncounted(vs)) \in Nat
             /\ (in(us) <=> in(vs)) => Cardinality(Uncounted(us)) = Cardinality(Uncounted(vs))
             /\ in(us) /\ ~in(vs) =>
                  Cardinality(Uncounted(us)) = Cardinality(Uncounted(vs)) + 1
             /\ ~in(us) /\ in(vs) =>
                  Cardinality(Uncounted(us)) = Cardinality(Uncounted(vs)) - 1
  <1> DEFINE in(ts) == Has(ts[w], "start") \/ Has(ts[w], "wait")
  <1>1. IsFiniteSet(Uncounted(vs)) /\ Cardinality(Uncounted(vs)) \in Nat
    <2>1. Uncounted(vs) \in SUBSET Wrappers
      BY DEF Uncounted
    <2> QED
      BY <2>1, ManagerAssumption, FS_Subset, FS_CardinalityType
  <1>2. (in(us) <=> in(vs)) => Uncounted(us) = Uncounted(vs)
    BY DEF Uncounted
  <1>3. ASSUME in(us), ~in(vs)
        PROVE  Cardinality(Uncounted(us)) = Cardinality(Uncounted(vs)) + 1
    <2>1. Uncounted(us) = Uncounted(vs) \cup {w} /\ w \notin Uncounted(vs)
      BY <1>3 DEF Uncounted
    <2> QED
      BY <1>1, <2>1, FS_AddElement
  <1>4. ASSUME ~in(us), in(vs)
        PROVE  Cardinality(Uncounted(us)) = Cardinality(Uncounted(vs)) - 1
    <2>1. Uncounted(us) = Uncounted(vs) \ {w} /\ w \in Uncounted(vs)
      BY <1>4 DEF Uncounted
    <2> QED
      BY <1>1, <2>1, FS_RemoveElement
  <1> QED
    BY <1>1, <1>2, <1>3, <1>4

-----------------------------------------------------------------------------
(***************************************************************************)
(* The inductive invariant, of the manager and its wrappers g = [m, ses].   *)
(***************************************************************************)
\* The states of the wrappers in the active list.
Busy == {"start", "work", "stop"}

Links(g) ==
  /\ Distinct(g.m.active_sessions) /\ Distinct(g.m.recycled_sessions)
  /\ \A w \in Wrappers : w \in ToSet(g.m.active_sessions) <=> g.ses[w].state \in Busy
  /\ \A w \in ToSet(g.m.recycled_sessions) : ~g.ses[w].attached
  /\ \A w \in Wrappers :
       g.ses[w].attached <=> g.m.accepting = w \/ g.ses[w].pending_operations > 0
  /\ g.m.accepting # NoSession => g.ses[g.m.accepting].state = "ready"

Counted(g) ==
  g.m.pending_operations =
    Flag(g.m.accepting # NoSession) + Flag(g.m.scheduled) + Cardinality(Pending(g.ses))

Accepts(g) ==
  /\ (g.m.accepting # NoSession) <=> (g.m.accept_state = "in_progress")
  /\ Len(g.m.active_sessions) <= MaxSessionCount
  /\ g.m.accepting # NoSession /\ g.m.intern_state = "work" =>
       g.m.open /\ Len(g.m.active_sessions) < MaxSessionCount
  /\ g.m.intern_state = "work" /\ g.m.accept_state = "stopped" =>
       g.m.accept_error = "error"

\* The session at place i has been told to stop or will be.
Reached(g, i) ==
  \/ g.ses[g.m.active_sessions[i]].state = "stop"
  \/ g.m.scheduled /\ \E k \in 1 .. i :
       g.m.active_sessions[k] = g.m.stopping_sessions_end

Walk(g) ==
  /\ g.m.scheduled =>
       /\ g.m.intern_state = "stop"
       /\ \/ g.m.stopping_sessions_end = NoSession
          \/ g.m.stopping_sessions_end \in ToSet(g.m.active_sessions)
  /\ g.m.intern_state = "stop" => \A i \in 1 .. Len(g.m.active_sessions) : Reached(g, i)
  /\ g.m.intern_state = "stopped" => g.m.pending_operations = 0

Stats(g) ==
  LET n == Cardinality(Uncounted(g.ses))
  IN  /\ g.m.intern_state = "work" => g.m.total_accepted = g.m.stopped + n
      /\ g.m.total_accepted >= g.m.stopped + n
      /\ Len(g.m.active_sessions) <= g.m.max_active
      /\ g.m.max_active <= MaxSessionCount
      /\ g.m.max_active <= g.m.total_accepted

Core(g) ==
  /\ g \in Pairs /\ \A w \in Wrappers : WrapperSound(g.ses[w])
  /\ Links(g) /\ Counted(g) /\ Accepts(g) /\ Walk(g) /\ Stats(g)

\* Parts of the manager that a step leaves alone.
SameUser(a, b) ==
  /\ a.extern_state = b.extern_state /\ a.intern_state = b.intern_state
  /\ a.extern_wait_error = b.extern_wait_error /\ a.wait_handler = b.wait_handler
  /\ a.stop_handler = b.stop_handler /\ a.posted = b.posted

SameAccept(a, b) ==
  /\ a.accept_state = b.accept_state /\ a.open = b.open
  /\ a.accepting = b.accepting /\ a.accept_error = b.accept_error

SameActive(a, b) ==
  /\ a.active_sessions = b.active_sessions
  /\ a.stopping_sessions_end = b.stopping_sessions_end /\ a.max_active = b.max_active

SameCounts(a, b) ==
  /\ a.pending_operations = b.pending_operations /\ a.scheduled = b.scheduled
  /\ a.total_accepted = b.total_accepted /\ a.stopped = b.stopped

\* The types of the two parts.
LEMMA PairOf ==
  ASSUME NEW g \in Pairs
  PROVE  /\ g.m \in ManagerStates /\ g.ses \in [Wrappers -> WrapperStates]
  BY DEF Pairs

\* The pair after the answer of a call of w was taken.
LEMMA CompletedFrame ==
  ASSUME NEW g \in Pairs, NEW w \in Wrappers, NEW c \in Api!Calls,
         g.m.pending_operations > 0, Completion(g.ses[w], c) \in WrapperStates
  PROVE  LET d == operation_completed(g, w, c)
         IN  /\ d \in Pairs /\ d.ses = [g.ses EXCEPT ![w] = Completion(g.ses[w], c)]
             /\ d.m.pending_operations = g.m.pending_operations - 1
             /\ d.m.scheduled = g.m.scheduled
             /\ d.m.recycled_sessions = g.m.recycled_sessions
             /\ d.m.total_accepted = g.m.total_accepted /\ d.m.stopped = g.m.stopped
             /\ SameUser(d.m, g.m) /\ SameAccept(d.m, g.m) /\ SameActive(d.m, g.m)
  <1> DEFINE n == g.m.pending_operations - 1
             k == [g.m EXCEPT !.pending_operations = n]
             u == Completion(g.ses[w], c)
             vs == [g.ses EXCEPT ![w] = u]
             d == operation_completed(g, w, c)
  <1>1. g.m \in ManagerStates /\ g.ses \in [Wrappers -> WrapperStates]
    BY PairOf
  <1>2. n \in Nat
    BY <1>1 DEF ManagerStates
  <1>3. d = [g EXCEPT !.m = k, !.ses = vs]
    BY <1>1 DEF operation_completed, Pairs
  <1> HIDE DEF n, u, d
  <1>4. /\ k \in ManagerStates /\ k.pending_operations = n
        /\ k.scheduled = g.m.scheduled
        /\ k.recycled_sessions = g.m.recycled_sessions
        /\ k.total_accepted = g.m.total_accepted /\ k.stopped = g.m.stopped
        /\ SameUser(k, g.m) /\ SameAccept(k, g.m) /\ SameActive(k, g.m)
    BY <1>1, <1>2 DEF ManagerStates, SameUser, SameAccept, SameActive
  <1> HIDE DEF k
  <1>5. vs \in [Wrappers -> WrapperStates]
    BY <1>1 DEF u
  <1> HIDE DEF vs
  <1>6. d \in Pairs /\ d.m = k /\ d.ses = vs
    BY <1>3, <1>4, <1>5 DEF Pairs
  <1> QED
    BY <1>4, <1>6 DEF d, n, u, vs

\* The pair after recycle.
LEMMA RecycleFrame ==
  ASSUME NEW z \in Pairs, NEW w \in Wrappers
  PROVE  LET y == recycle(z, w)
         IN  /\ y \in Pairs /\ SameUser(y.m, z.m) /\ SameAccept(y.m, z.m)
             /\ SameActive(y.m, z.m) /\ SameCounts(y.m, z.m)
             /\ \/ /\ z.ses[w].pending_operations # 0 /\ y.ses = z.ses
                   /\ y.m.recycled_sessions = z.m.recycled_sessions
                \/ /\ z.ses[w].pending_operations = 0
                   /\ y.ses = [z.ses EXCEPT ![w] = Detached]
                   /\ y.m.recycled_sessions \in
                        {z.m.recycled_sessions, <<w>> \o z.m.recycled_sessions}
  <1> DEFINE y == recycle(z, w)
             r == <<w>> \o z.m.recycled_sessions
             k == [z.m EXCEPT !.recycled_sessions = r]
             vs == [z.ses EXCEPT ![w] = Detached]
             a == [z EXCEPT !.ses = vs]
             b == [a EXCEPT !.m = k]
  <1>1. z.m \in ManagerStates /\ z.ses \in [Wrappers -> WrapperStates]
    BY PairOf
  <1>2. r \in Seq(Wrappers)
    BY <1>1, PushedAt DEF ManagerStates
  <1>3. Detached \in WrapperStates
    BY FreshSound DEF WrapperSound
  <1>4. vs \in [Wrappers -> WrapperStates]
    BY <1>1, <1>3
  <1>5. Release(z, w) = a /\ a.m = z.m
    BY DEF Release, Pairs
  <1>6. add_to_recycled(a, w) = b
    BY <1>5 DEF add_to_recycled
  <1>7. \/ y = z /\ z.ses[w].pending_operations # 0
        \/ y = a /\ z.ses[w].pending_operations = 0
        \/ y = b /\ z.ses[w].pending_operations = 0
    BY <1>5, <1>6, Zenon DEF recycle
  <1> HIDE DEF y, r, vs
  <1>8. /\ k \in ManagerStates /\ k.recycled_sessions = r
        /\ SameUser(k, z.m) /\ SameAccept(k, z.m) /\ SameActive(k, z.m)
        /\ SameCounts(k, z.m)
    BY <1>1, <1>2 DEF ManagerStates, SameUser, SameAccept, SameActive, SameCounts
  <1> HIDE DEF k
  <1>9. a \in Pairs /\ a.ses = vs /\ b \in Pairs /\ b.ses = vs /\ b.m = k
    BY <1>1, <1>4, <1>8 DEF Pairs
  <1>10. /\ SameUser(z.m, z.m) /\ SameAccept(z.m, z.m) /\ SameActive(z.m, z.m)
         /\ SameCounts(z.m, z.m)
    BY DEF SameUser, SameAccept, SameActive, SameCounts
  <1> HIDE DEF a, b
  <1> QED
    BY <1>5, <1>7, <1>8, <1>9, <1>10 DEF y, r, vs

\* The pair after session_stopped.
LEMMA StoppedFrame ==
  ASSUME NEW z \in Pairs
  PROVE  LET y == session_stopped(z)
         IN  /\ y \in Pairs /\ y.ses = z.ses /\ SameUser(y.m, z.m)
             /\ SameAccept(y.m, z.m) /\ SameActive(y.m, z.m)
             /\ y.m.recycled_sessions = z.m.recycled_sessions
             /\ y.m.pending_operations = z.m.pending_operations
             /\ y.m.scheduled = z.m.scheduled
             /\ y.m.total_accepted = z.m.total_accepted
             /\ y.m.stopped = z.m.stopped + 1
  <1> DEFINE n == z.m.stopped + 1
             k == [z.m EXCEPT !.stopped = n]
             y == session_stopped(z)
  <1>1. z.m \in ManagerStates /\ n \in Nat
    BY PairOf DEF ManagerStates
  <1>2. y = [z EXCEPT !.m = k]
    BY DEF session_stopped
  <1> HIDE DEF n, y
  <1>3. /\ k \in ManagerStates /\ k.stopped = n
        /\ k.recycled_sessions = z.m.recycled_sessions
        /\ k.pending_operations = z.m.pending_operations
        /\ k.scheduled = z.m.scheduled /\ k.total_accepted = z.m.total_accepted
        /\ SameUser(k, z.m) /\ SameAccept(k, z.m) /\ SameActive(k, z.m)
    BY <1>1 DEF ManagerStates, SameUser, SameAccept, SameActive
  <1> HIDE DEF k
  <1>4. y \in Pairs /\ y.ses = z.ses /\ y.m = k
    BY <1>2, <1>3 DEF Pairs
  <1> QED
    BY <1>3, <1>4 DEF y, n

\* The pair after mark_stopped and remove_from_active.
LEMMA RemoveFrame ==
  ASSUME NEW z \in Pairs, NEW w \in Wrappers, w \in ToSet(z.m.active_sessions),
         Distinct(z.m.active_sessions)
  PROVE  LET y == remove_from_active(mark(z, w, "stopped"), w)
             list == z.m.active_sessions
             end == z.m.stopping_sessions_end
         IN  /\ y \in Pairs
             /\ y.ses = [z.ses EXCEPT ![w] = [z.ses[w] EXCEPT !.state = "stopped"]]
             /\ SameUser(y.m, z.m) /\ SameAccept(y.m, z.m) /\ SameCounts(y.m, z.m)
             /\ y.m.recycled_sessions = z.m.recycled_sessions
             /\ y.m.max_active = z.m.max_active
             /\ y.m.active_sessions = Erased(list, w)
             /\ y.m.stopping_sessions_end = IF end = w THEN Following(list, w) ELSE end
  <1> DEFINE list == z.m.active_sessions
             end == z.m.stopping_sessions_end
             r == Erased(list, w)
             e == IF end = w THEN Following(list, w) ELSE end
             u == [z.ses[w] EXCEPT !.state = "stopped"]
             vs == [z.ses EXCEPT ![w] = u]
             a == [z EXCEPT !.ses = vs]
             k == [z.m EXCEPT !.stopping_sessions_end = e, !.active_sessions = r]
             y == remove_from_active(mark(z, w, "stopped"), w)
  <1>1. /\ z.m \in ManagerStates /\ z.ses \in [Wrappers -> WrapperStates]
        /\ list \in Seq(Wrappers) /\ end \in Wrappers \cup {NoSession}
    BY PairOf DEF ManagerStates
  <1>2. r \in Seq(Wrappers)
    BY <1>1, ErasedAt DEF ErasedFrom
  <1>3. e \in Wrappers \cup {NoSession}
    <2>1. Position(list, w) \in 1 .. Len(list)
      BY <1>1, PositionAt
    <2>2. Following(list, w) \in Wrappers \cup {NoSession}
      BY <1>1, <2>1 DEF Following
    <2> QED
      BY <1>1, <2>2
  <1>4. u \in WrapperStates
    BY <1>1 DEF WrapperStates
  <1>5. mark(z, w, "stopped") = a /\ a.m = z.m
    BY DEF mark, Pairs
  <1> HIDE DEF u
  <1>6. vs \in [Wrappers -> WrapperStates]
    BY <1>1, <1>4
  <1> HIDE DEF vs
  <1>7. y = [a EXCEPT !.m = k]
    BY <1>5 DEF remove_from_active
  <1> HIDE DEF y, r, e
  <1>8. /\ k \in ManagerStates /\ k.active_sessions = r /\ k.stopping_sessions_end = e
        /\ SameUser(k, z.m) /\ SameAccept(k, z.m) /\ SameCounts(k, z.m)
        /\ k.recycled_sessions = z.m.recycled_sessions
        /\ k.max_active = z.m.max_active
    BY <1>1, <1>2, <1>3 DEF ManagerStates, SameUser, SameAccept, SameCounts
  <1> HIDE DEF k
  <1>9. y \in Pairs /\ y.ses = vs /\ y.m = k
    BY <1>6, <1>7, <1>8 DEF Pairs
  <1> QED
    BY <1>8, <1>9 DEF y, r, e, u, vs

-----------------------------------------------------------------------------
(***************************************************************************)
(* How the parts of the invariant survive the change of one wrapper w to u. *)
(***************************************************************************)
LEMMA SoundMove ==
  ASSUME NEW g \in Pairs, \A x \in Wrappers : WrapperSound(g.ses[x]),
         NEW w \in Wrappers, NEW u, WrapperSound(u),
         NEW vs, vs = [g.ses EXCEPT ![w] = u]
  PROVE  /\ \A x \in Wrappers : WrapperSound(vs[x])
         /\ vs[w] = u /\ \A x \in Wrappers : x # w => vs[x] = g.ses[x]
  BY PairOf

\* The links follow the state of the wrapper.
LEMMA LinksMove ==
  ASSUME NEW g \in Pairs, Links(g), NEW y \in Pairs, NEW w \in Wrappers, NEW u,
         y.ses = [g.ses EXCEPT ![w] = u],
         Distinct(y.m.active_sessions), Distinct(y.m.recycled_sessions),
         \A x \in Wrappers : x # w =>
           /\ x \in ToSet(y.m.active_sessions) <=> x \in ToSet(g.m.active_sessions)
           /\ x \in ToSet(y.m.recycled_sessions) => x \in ToSet(g.m.recycled_sessions),
         w \in ToSet(y.m.active_sessions) <=> u.state \in Busy,
         w \in ToSet(y.m.recycled_sessions) => ~u.attached,
         u.attached <=> y.m.accepting = w \/ u.pending_operations > 0,
         \/ y.m.accepting = g.m.accepting
         \/ g.m.accepting = w /\ y.m.accepting = NoSession
         \/ g.m.accepting = NoSession /\ y.m.accepting = w,
         y.m.accepting = w => u.state = "ready"
  PROVE  Links(y)
  <1>1. /\ g.ses \in [Wrappers -> WrapperStates]
        /\ y.m.recycled_sessions \in Seq(Wrappers) /\ NoSession \notin Wrappers
        /\ y.m.accepting \in Wrappers \cup {NoSession}
    BY PairOf, ManagerAssumption DEF ManagerStates
  <1>2. y.ses[w] = u /\ \A x \in Wrappers : x # w => y.ses[x] = g.ses[x]
    BY <1>1
  <1>3. \A x \in ToSet(y.m.recycled_sessions) : x \in Wrappers
    BY <1>1 DEF ToSet
  <1>4. \A x \in Wrappers : x \in ToSet(y.m.active_sessions) <=> y.ses[x].state \in Busy
    BY <1>2 DEF Links
  <1>5. \A x \in ToSet(y.m.recycled_sessions) : ~y.ses[x].attached
    BY <1>2, <1>3 DEF Links
  <1>6. \A x \in Wrappers :
          y.ses[x].attached <=> y.m.accepting = x \/ y.ses[x].pending_operations > 0
    <2> SUFFICES ASSUME NEW x \in Wrappers, x # w
                 PROVE  y.ses[x].attached <=>
                          y.m.accepting = x \/ y.ses[x].pending_operations > 0
      BY <1>2
    <2>1. y.m.accepting = x <=> g.m.accepting = x
      BY <1>1
    <2> QED
      BY <1>2, <2>1 DEF Links
  <1>7. y.m.accepting # NoSession => y.ses[y.m.accepting].state = "ready"
    BY <1>1, <1>2 DEF Links
  <1> QED
    BY <1>4, <1>5, <1>6, <1>7 DEF Links

\* A list that recycle may have put w to.
LEMMA RecycledMove ==
  ASSUME NEW list \in Seq(Wrappers), Distinct(list), NEW w \in Wrappers,
         w \notin ToSet(list), NEW r \in {list, <<w>> \o list}
  PROVE  Distinct(r) /\ \A x \in Wrappers : x # w => (x \in ToSet(r) => x \in ToSet(list))
  BY PushedAt

\* The number of operations follows that of w and the accept.
LEMMA CountedMove ==
  ASSUME NEW g \in Pairs, Counted(g), NEW y \in Pairs, NEW w \in Wrappers, NEW u,
         y.ses = [g.ses EXCEPT ![w] = u], y.m.scheduled = g.m.scheduled,
         NEW v, v = g.ses[w],
         \/ /\ y.m.accepting = g.m.accepting
            /\ \/ /\ v.pending_operations = u.pending_operations + 1
                  /\ y.m.pending_operations = g.m.pending_operations - 1
               \/ /\ v.pending_operations = u.pending_operations
                  /\ y.m.pending_operations = g.m.pending_operations
         \/ /\ g.m.accepting # NoSession /\ y.m.accepting = NoSession
            /\ \/ /\ v.pending_operations = u.pending_operations
                  /\ y.m.pending_operations = g.m.pending_operations - 1
               \/ /\ v.pending_operations + 1 = u.pending_operations
                  /\ y.m.pending_operations = g.m.pending_operations
         \/ /\ g.m.accepting = NoSession /\ y.m.accepting # NoSession
            /\ v.pending_operations = u.pending_operations
            /\ y.m.pending_operations = g.m.pending_operations + 1
  PROVE  Counted(y)
  <1> DEFINE a == Cardinality(Pending(g.ses))
             b == Cardinality(Pending(y.ses))
             f == Flag(g.m.scheduled)
             n == g.m.pending_operations
             k == y.m.pending_operations
  <1>1. /\ g.ses \in [Wrappers -> WrapperStates] /\ y.ses \in [Wrappers -> WrapperStates]
        /\ n \in Nat /\ k \in Nat
    BY PairOf DEF ManagerStates
  <1>2. y.ses[w] = u /\ \A x \in Wrappers : x # w => y.ses[x] = g.ses[x]
    BY <1>1
  <1>3. a \in Nat /\ b \in Nat
    BY <1>1, PendingFinite
  <1>4. f \in Nat /\ Flag(y.m.scheduled) = f
    BY DEF Flag
  <1>5. v.pending_operations = u.pending_operations => b = a
    BY <1>1, <1>2, PendingSame
  <1>6. v.pending_operations = u.pending_operations + 1 => a = b + 1
    BY <1>1, <1>2, PendingOne
  <1>7. v.pending_operations + 1 = u.pending_operations => b = a + 1
    BY <1>1, <1>2, PendingOne
  <1>8. n = Flag(g.m.accepting # NoSession) + f + a
    BY DEF Counted
  <1> SUFFICES k = Flag(y.m.accepting # NoSession) + f + b
    BY <1>4 DEF Counted
  <1> HIDE DEF a, b, f, n, k
  <1>9. CASE y.m.accepting = g.m.accepting
    <2> DEFINE c == Flag(g.m.accepting # NoSession)
    <2>1. c \in Nat /\ Flag(y.m.accepting # NoSession) = c
      BY <1>9 DEF Flag
    <2>2. \/ a = b + 1 /\ k = n - 1
          \/ a = b /\ k = n
          \/ b = a /\ k = n - 1 /\ g.m.accepting # NoSession /\ y.m.accepting = NoSession
          \/ b = a + 1 /\ k = n /\ g.m.accepting # NoSession /\ y.m.accepting = NoSession
      BY <1>5, <1>6, <1>7, <1>9 DEF k, n
    <2>3. n = c + f + a
      BY <1>8
    <2> HIDE DEF c
    <2> QED
      BY <1>1, <1>3, <1>4, <1>9, <2>1, <2>2, <2>3
  <1>10. CASE g.m.accepting # NoSession /\ y.m.accepting = NoSession
    <2>1. Flag(g.m.accepting # NoSession) = 1 /\ Flag(y.m.accepting # NoSession) = 0
      BY <1>10 DEF Flag
    <2>2. \/ b = a /\ k = n - 1
          \/ b = a + 1 /\ k = n
      BY <1>5, <1>7, <1>10 DEF k, n
    <2> QED
      BY <1>1, <1>3, <1>4, <1>8, <2>1, <2>2
  <1>11. CASE g.m.accepting = NoSession /\ y.m.accepting # NoSession
    <2>1. Flag(g.m.accepting # NoSession) = 0 /\ Flag(y.m.accepting # NoSession) = 1
      BY <1>11 DEF Flag
    <2>2. b = a /\ k = n + 1
      BY <1>5, <1>11 DEF k, n
    <2> QED
      BY <1>1, <1>3, <1>4, <1>8, <2>1, <2>2
  <1> QED
    BY <1>9, <1>10, <1>11

\* The walk when the lists stay as they are.
LEMMA WalkStays ==
  ASSUME NEW g \in Pairs, Walk(g), NEW y \in Pairs, NEW w \in Wrappers, NEW u,
         y.ses = [g.ses EXCEPT ![w] = u],
         y.m.active_sessions = g.m.active_sessions,
         y.m.stopping_sessions_end = g.m.stopping_sessions_end,
         y.m.scheduled = g.m.scheduled, y.m.intern_state = g.m.intern_state,
         g.m.intern_state # "stopped", g.ses[w].state = "stop" => u.state = "stop"
  PROVE  Walk(y)
  <1>1. /\ g.ses \in [Wrappers -> WrapperStates]
        /\ g.m.active_sessions \in Seq(Wrappers)
    BY PairOf DEF ManagerStates
  <1>2. \A x \in Wrappers : g.ses[x].state = "stop" => y.ses[x].state = "stop"
    BY <1>1
  <1>3. ASSUME NEW i \in 1 .. Len(g.m.active_sessions), Reached(g, i) PROVE Reached(y, i)
    <2>1. g.m.active_sessions[i] \in Wrappers
      BY <1>1
    <2> QED
      BY <1>2, <1>3, <2>1 DEF Reached
  <1> QED
    BY <1>3 DEF Walk

\* At work there is no walk yet.
LEMMA WalkAtWork ==
  ASSUME NEW g, Walk(g), NEW y, g.m.intern_state = "work", y.m.intern_state = "work",
         y.m.scheduled = g.m.scheduled
  PROVE  Walk(y)
  BY DEF Walk

\* The walk goes on after the wrapper that leaves the list.
LEMMA WalkErased ==
  ASSUME NEW g \in Pairs, Walk(g), NEW y \in Pairs, NEW w \in Wrappers, NEW u,
         y.ses = [g.ses EXCEPT ![w] = u],
         w \in ToSet(g.m.active_sessions), Distinct(g.m.active_sessions),
         y.m.active_sessions = Erased(g.m.active_sessions, w),
         y.m.stopping_sessions_end =
           IF g.m.stopping_sessions_end = w THEN Following(g.m.active_sessions, w)
           ELSE g.m.stopping_sessions_end,
         y.m.scheduled = g.m.scheduled, y.m.intern_state = g.m.intern_state,
         g.m.intern_state # "stopped"
  PROVE  Walk(y)
  <1> DEFINE list == g.m.active_sessions
             r == y.m.active_sessions
             p == Position(list, w)
             n == Len(list)
             end == g.m.stopping_sessions_end
             e == y.m.stopping_sessions_end
  <1>1. /\ g.ses \in [Wrappers -> WrapperStates] /\ list \in Seq(Wrappers)
        /\ end \in Wrappers \cup {NoSession} /\ NoSession \notin Wrappers
    BY PairOf, ManagerAssumption DEF ManagerStates
  <1>2. /\ p \in 1 .. n /\ n \in Nat /\ list[p] = w
        /\ \A k \in 1 .. n : list[k] = w => k = p
    BY <1>1, PositionAt
  <1>3. /\ r \in Seq(Wrappers) /\ Len(r) = n - 1 /\ ToSet(r) = ToSet(list) \ {w}
        /\ \A j \in 1 .. n - 1 : r[j] = list[IF j < p THEN j ELSE j + 1]
    BY <1>1, ErasedAt DEF ErasedFrom
  <1>4. e = IF end = w THEN (IF p < n THEN list[p + 1] ELSE NoSession) ELSE end
    BY DEF Following
  <1> HIDE DEF list, r, p, n, end, e
  <1>5. p < n => list[p + 1] = r[p] /\ p \in 1 .. n - 1
    BY <1>2, <1>3
  <1>6. DOMAIN r = 1 .. n - 1
    BY <1>2, <1>3
  <1>7. end = NoSession \/ end \in ToSet(list) => e = NoSession \/ e \in ToSet(r)
    BY <1>3, <1>4, <1>5, <1>6 DEF ToSet
  <1>8. ASSUME NEW i \in 1 .. n - 1, \A j \in 1 .. n : Reached(g, j)
        PROVE  Reached(y, i)
    <2> DEFINE j == IF i < p THEN i ELSE i + 1
    <2>1. j \in 1 .. n /\ r[i] = list[j] /\ j # p /\ (i < p => j = i) /\ (i >= p => j = i + 1)
      BY <1>2, <1>3
    <2> HIDE DEF j
    <2>2. list[j] # w /\ list[j] \in Wrappers
      BY <1>1, <1>2, <2>1 DEF list, n
    <2>3. y.ses[list[j]] = g.ses[list[j]]
      BY <1>1, <2>2
    <2>4. CASE g.ses[list[j]].state = "stop"
      BY <2>1, <2>3, <2>4 DEF Reached, r
    <2>5. CASE g.m.scheduled /\ \E k \in 1 .. j : list[k] = end
      <3>1. PICK k \in 1 .. j : list[k] = end
        BY <2>5
      <3>2. k \in 1 .. n
        BY <1>2, <2>1
      <3>3. \E l \in 1 .. i : r[l] = e
        <4>1. CASE k = p
          <5>1. end = w /\ i >= p /\ p < n
            BY <1>2, <2>1, <3>1, <4>1
          <5>2. e = r[p] /\ p \in 1 .. i
            BY <1>2, <1>4, <1>5, <5>1
          <5> QED
            BY <5>2
        <4>2. CASE k # p
          <5> DEFINE l == IF k < p THEN k ELSE k - 1
          <5>1. end # w /\ e = end
            BY <1>2, <1>4, <3>1, <3>2, <4>2
          <5>2. l \in 1 .. n - 1 /\ (IF l < p THEN l ELSE l + 1) = k /\ l <= i
            BY <1>2, <2>1, <3>1, <3>2, <4>2
          <5> HIDE DEF l
          <5>3. r[l] = list[k]
            BY <1>3, <5>2
          <5> QED
            BY <3>1, <5>1, <5>2, <5>3
        <4> QED
          BY <4>1, <4>2
      <3> QED
        BY <2>5, <3>3 DEF Reached, r, e
    <2>6. Reached(g, j)
      BY <1>8, <2>1
    <2> QED
      BY <2>4, <2>5, <2>6 DEF Reached, list, end
  <1>9. /\ Walk(g) /\ Len(g.m.active_sessions) = n /\ Len(y.m.active_sessions) = n - 1
    BY <1>3 DEF n, list, r
  <1> QED
    BY <1>7, <1>8, <1>9 DEF Walk, list, r, end, e

\* Whether the end of the session is still to be counted.
Open(v) == Has(v, "start") \/ Has(v, "wait")

\* The statistics follow the start and the end of the session of w.
LEMMA StatsMove ==
  ASSUME NEW g \in Pairs, Stats(g), NEW y \in Pairs, NEW w \in Wrappers, NEW u,
         y.ses = [g.ses EXCEPT ![w] = u], y.m.intern_state = g.m.intern_state,
         Len(y.m.active_sessions) <= y.m.max_active,
         y.m.max_active <= MaxSessionCount, y.m.max_active <= y.m.total_accepted,
         NEW v, v = g.ses[w],
         \/ /\ Open(u) <=> Open(v)
            /\ y.m.total_accepted = g.m.total_accepted /\ y.m.stopped = g.m.stopped
         \/ /\ Open(v) /\ ~Open(u) /\ y.m.total_accepted = g.m.total_accepted
            /\ \/ y.m.stopped = g.m.stopped + 1
               \/ y.m.stopped = g.m.stopped /\ g.m.intern_state # "work"
         \/ /\ ~Open(v) /\ Open(u) /\ y.m.stopped = g.m.stopped
            /\ y.m.total_accepted = g.m.total_accepted + 1
         \/ /\ Open(u) <=> Open(v)
            /\ y.m.total_accepted = g.m.total_accepted + 1
            /\ y.m.stopped = g.m.stopped + 1
  PROVE  Stats(y)
  <1> DEFINE a == Cardinality(Uncounted(g.ses))
             b == Cardinality(Uncounted(y.ses))
             t == g.m.total_accepted
             t1 == y.m.total_accepted
             s == g.m.stopped
             s1 == y.m.stopped
  <1>1. /\ g.ses \in [Wrappers -> WrapperStates]
        /\ t \in Nat /\ t1 \in Nat /\ s \in Nat /\ s1 \in Nat
    BY PairOf DEF ManagerStates
  <1>2. y.ses[w] = u /\ \A x \in Wrappers : x # w => y.ses[x] = g.ses[x]
    BY <1>1
  <1>3. /\ a \in Nat
        /\ (Open(u) <=> Open(v)) => b = a
        /\ Open(u) /\ ~Open(v) => b = a + 1
        /\ ~Open(u) /\ Open(v) => b = a - 1
    BY <1>2, UncountedChange DEF Open
  <1>4. /\ g.m.intern_state = "work" => t = s + a
        /\ t >= s + a
    BY DEF Stats
  <1>5. \/ b = a /\ t1 = t /\ s1 = s
        \/ b = a - 1 /\ t1 = t /\ (s1 = s + 1 \/ (s1 = s /\ g.m.intern_state # "work"))
        \/ b = a + 1 /\ t1 = t + 1 /\ s1 = s
        \/ b = a /\ t1 = t + 1 /\ s1 = s + 1
    BY <1>3, Zenon
  <1> HIDE DEF a, b, t, t1, s, s1
  <1>6. /\ g.m.intern_state = "work" => t1 = s1 + b
        /\ t1 >= s1 + b
    BY <1>1, <1>3, <1>4, <1>5
  <1> QED
    BY <1>6 DEF Stats, b, t1, s1

\* The accept loop does not mind sessions that leave.
LEMMA AcceptsKept ==
  ASSUME NEW g \in Pairs, Accepts(g), NEW y \in Pairs, SameAccept(y.m, g.m),
         y.m.intern_state = g.m.intern_state,
         Len(y.m.active_sessions) <= Len(g.m.active_sessions)
  PROVE  Accepts(y)
  <1> DEFINE n == Len(g.m.active_sessions)
             k == Len(y.m.active_sessions)
  <1>1. n \in Nat /\ k \in Nat /\ MaxSessionCount \in Nat
    BY PairOf, ManagerAssumption DEF ManagerStates
  <1>2. /\ n <= MaxSessionCount => k <= MaxSessionCount
        /\ n < MaxSessionCount => k < MaxSessionCount
    BY <1>1 DEF n, k
  <1> QED
    BY <1>2 DEF Accepts, SameAccept

\* A session that is given back is out of use.
Quiet(g, y) ==
  \A w \in Wrappers : g.ses[w].attached /\ ~y.ses[w].attached =>
    /\ g.ses[w].api.extern_state \in {"ready", "stopped"}
    /\ g.ses[w].api.run = "stopped" \/ g.ses[w].api.extern_state = "ready"
    /\ g.ses[w].pending_operations = IF g.m.accepting = w THEN 0 ELSE 1

\* What holds when the answer of a call of w arrives.
LEMMA AnswerArrives ==
  ASSUME NEW g, Core(g), NEW w \in Wrappers, NEW c \in Api!Calls,
         g.ses[w].api.posted[c] # <<>>
  PROVE  LET v == g.ses[w]
             d == operation_completed(g, w, c)
         IN  /\ g \in Pairs /\ WrapperSound(v) /\ Taken(v, Completion(v, c), c) /\ Has(v, c)
             /\ v.attached /\ v.pending_operations > 0
             /\ w \notin ToSet(g.m.recycled_sessions) /\ g.m.accepting # w
             /\ g.m.pending_operations \in Nat /\ g.m.pending_operations > 0
             /\ d \in Pairs /\ d.ses = [g.ses EXCEPT ![w] = Completion(v, c)]
             /\ d.m.pending_operations = g.m.pending_operations - 1
             /\ d.m.scheduled = g.m.scheduled
             /\ d.m.recycled_sessions = g.m.recycled_sessions
             /\ d.m.total_accepted = g.m.total_accepted /\ d.m.stopped = g.m.stopped
             /\ SameUser(d.m, g.m) /\ SameAccept(d.m, g.m) /\ SameActive(d.m, g.m)
             /\ d.ses[w] = Completion(v, c)
  <1> DEFINE v == g.ses[w]
             d == operation_completed(g, w, c)
             a == Cardinality(Pending(g.ses))
             n == g.m.pending_operations
  <1>1. /\ g \in Pairs /\ g.ses \in [Wrappers -> WrapperStates] /\ WrapperSound(v)
        /\ n \in Nat /\ NoSession \notin Wrappers
    BY PairOf, ManagerAssumption DEF Core, ManagerStates
  <1>2. Taken(v, Completion(v, c), c) /\ Has(v, c)
    BY <1>1, AnswerTaken
  <1>3. v.state # "ready"
    BY <1>1, <1>2 DEF WrapperSound, Asked
  <1>4. v.attached
    BY <1>1, <1>3 DEF WrapperSound, Detached
  <1>5. w \notin ToSet(g.m.recycled_sessions) /\ g.m.accepting # w
    BY <1>1, <1>3, <1>4 DEF Core, Links
  <1>6. v.pending_operations > 0
    BY <1>4, <1>5 DEF Core, Links
  <1>7. a > 0 /\ a \in Nat
    BY <1>1, <1>6, PendingNone, PendingFinite
  <1>8. n = Flag(g.m.accepting # NoSession) + Flag(g.m.scheduled) + a
    BY DEF Core, Counted
  <1> HIDE DEF a, n
  <1>9. n > 0
    BY <1>7, <1>8 DEF Flag
  <1>10. Completion(v, c) \in WrapperStates
    BY <1>2 DEF Taken
  <1>11. /\ d \in Pairs /\ d.ses = [g.ses EXCEPT ![w] = Completion(v, c)]
         /\ d.m.pending_operations = g.m.pending_operations - 1
         /\ d.m.scheduled = g.m.scheduled
         /\ d.m.recycled_sessions = g.m.recycled_sessions
         /\ d.m.total_accepted = g.m.total_accepted /\ d.m.stopped = g.m.stopped
         /\ SameUser(d.m, g.m) /\ SameAccept(d.m, g.m) /\ SameActive(d.m, g.m)
    BY <1>1, <1>9, <1>10, CompletedFrame DEF n
  <1> HIDE DEF d
  <1>12. d.ses[w] = Completion(v, c)
    BY <1>1, <1>11
  <1> QED
    BY <1>1, <1>2, <1>4, <1>5, <1>6, <1>9, <1>11, <1>12 DEF d, n

\* An answer the manager no longer waits for: the wrapper is kept until the last.
LEMMA LateCore ==
  ASSUME NEW g, Core(g), g.m.intern_state # "stopped", NEW w \in Wrappers,
         NEW c \in {"start", "wait"}, g.ses[w].api.posted[c] # <<>>,
         g.ses[w].state # (IF c = "start" THEN "start" ELSE "work")
  PROVE  LET y == recycle(session_stopped(operation_completed(g, w, c)), w)
         IN  Core(y) /\ SameUser(y.m, g.m) /\ Quiet(g, y)
  <1> DEFINE v == g.ses[w]
             q == Completion(v, c)
             d == operation_completed(g, w, c)
             e == session_stopped(d)
             y == recycle(e, w)
             u == y.ses[w]
  <1>1. c \in Api!Calls
    BY DEF Api!Calls
  <1>2. /\ g \in Pairs /\ WrapperSound(v) /\ Taken(v, q, c) /\ Has(v, c)
        /\ v.attached /\ v.pending_operations > 0
        /\ w \notin ToSet(g.m.recycled_sessions) /\ g.m.accepting # w
        /\ g.m.pending_operations \in Nat /\ g.m.pending_operations > 0
        /\ d \in Pairs /\ d.ses = [g.ses EXCEPT ![w] = q]
        /\ d.m.pending_operations = g.m.pending_operations - 1
        /\ d.m.scheduled = g.m.scheduled
        /\ d.m.recycled_sessions = g.m.recycled_sessions
        /\ d.m.total_accepted = g.m.total_accepted /\ d.m.stopped = g.m.stopped
        /\ SameUser(d.m, g.m) /\ SameAccept(d.m, g.m) /\ SameActive(d.m, g.m)
        /\ d.ses[w] = q
    BY <1>1, AnswerArrives
  <1>3. /\ WrapperSound(q) /\ v.state \in {"stop", "stopped"}
        /\ q.pending_operations = 0 => v.state = "stopped" /\ v.api.extern_state = "stopped"
        /\ ~Has(q, "start") /\ ~Has(q, "wait") /\ q.attached
    BY <1>2, LateSound
  <1> HIDE DEF d
  <1>4. /\ e \in Pairs /\ e.ses = d.ses /\ SameUser(e.m, d.m)
        /\ SameAccept(e.m, d.m) /\ SameActive(e.m, d.m)
        /\ e.m.recycled_sessions = d.m.recycled_sessions
        /\ e.m.pending_operations = d.m.pending_operations
        /\ e.m.scheduled = d.m.scheduled
        /\ e.m.total_accepted = d.m.total_accepted
        /\ e.m.stopped = d.m.stopped + 1
    BY <1>2, StoppedFrame
  <1> HIDE DEF e
  <1>5. /\ y \in Pairs /\ SameUser(y.m, e.m) /\ SameAccept(y.m, e.m)
        /\ SameActive(y.m, e.m) /\ SameCounts(y.m, e.m)
        /\ \/ /\ e.ses[w].pending_operations # 0 /\ y.ses = e.ses
              /\ y.m.recycled_sessions = e.m.recycled_sessions
           \/ /\ e.ses[w].pending_operations = 0
              /\ y.ses = [e.ses EXCEPT ![w] = Detached]
              /\ y.m.recycled_sessions \in
                   {e.m.recycled_sessions, <<w>> \o e.m.recycled_sessions}
    BY <1>4, RecycleFrame
  <1> HIDE DEF y, q
  <1>6. /\ SameUser(y.m, g.m) /\ SameAccept(y.m, g.m) /\ SameActive(y.m, g.m)
    BY <1>2, <1>4, <1>5 DEF SameUser, SameAccept, SameActive
  <1>7. /\ y.m.pending_operations = g.m.pending_operations - 1
        /\ y.m.scheduled = g.m.scheduled
        /\ y.m.total_accepted = g.m.total_accepted
        /\ y.m.stopped = g.m.stopped + 1
    BY <1>2, <1>4, <1>5 DEF SameCounts
  <1>8. g.ses \in [Wrappers -> WrapperStates] /\ g.m.recycled_sessions \in Seq(Wrappers)
    BY <1>2, PairOf DEF ManagerStates
  <1>9. \/ /\ q.pending_operations # 0 /\ u = q /\ y.ses = [g.ses EXCEPT ![w] = u]
           /\ y.m.recycled_sessions = g.m.recycled_sessions
        \/ /\ q.pending_operations = 0 /\ u = Detached /\ y.ses = [g.ses EXCEPT ![w] = u]
           /\ y.m.recycled_sessions \in
                {g.m.recycled_sessions, <<w>> \o g.m.recycled_sessions}
    <2>1. e.ses[w] = q /\ e.ses = [g.ses EXCEPT ![w] = q]
      BY <1>2, <1>4
    <2>2. CASE e.ses[w].pending_operations # 0
      BY <1>2, <1>4, <1>5, <2>1, <2>2
    <2>3. CASE e.ses[w].pending_operations = 0
      <3>1. [e.ses EXCEPT ![w] = Detached] = [g.ses EXCEPT ![w] = Detached]
        BY <1>8, <2>1
      <3>2. y.ses = [g.ses EXCEPT ![w] = Detached] /\ u = Detached
        BY <1>5, <1>8, <2>3, <3>1
      <3> QED
        BY <1>2, <1>4, <1>5, <2>1, <2>3, <3>2
    <2> QED
      BY <2>2, <2>3
  <1> HIDE DEF u, v
  <1>10. /\ Detached.pending_operations = 0 /\ Detached.state = "ready"
         /\ Detached.attached = FALSE /\ WrapperSound(Detached)
         /\ ~Has(Detached, "start") /\ ~Has(Detached, "wait")
    BY FreshSound DEF Detached, Api!Calls
  <1>11. /\ WrapperSound(u) /\ v.pending_operations = u.pending_operations + 1
         /\ u.state \in Busy <=> v.state \in Busy
         /\ v.state = "stop" => u.state = "stop"
         /\ u.attached <=> u.pending_operations > 0
         /\ ~Open(u) /\ Open(v)
    <2>1. q.state = v.state /\ v.pending_operations = q.pending_operations + 1
          /\ q.pending_operations \in Nat
      BY <1>2 DEF Taken, WrapperStates
    <2>2. ~Open(q) /\ Open(v) /\ ~Open(Detached)
      BY <1>2, <1>3, <1>10 DEF Open
    <2>3. CASE q.pending_operations # 0 /\ u = q
      BY <1>3, <2>1, <2>2, <2>3
    <2>4. CASE q.pending_operations = 0 /\ u = Detached
      BY <1>3, <1>10, <2>1, <2>2, <2>4 DEF Busy
    <2> QED
      BY <1>9, <2>3, <2>4
  <1>12. y.ses = [g.ses EXCEPT ![w] = u]
    BY <1>9
  <1>13. Links(y)
    <2>1. Links(g)
      BY DEF Core
    <2>2. /\ Distinct(y.m.recycled_sessions)
          /\ \A x \in Wrappers : x # w =>
               (x \in ToSet(y.m.recycled_sessions) => x \in ToSet(g.m.recycled_sessions))
      <3> DEFINE list == g.m.recycled_sessions
                 r == y.m.recycled_sessions
      <3>1. r \in {list, <<w>> \o list} /\ Distinct(list) /\ list \in Seq(Wrappers)
        BY <1>8, <1>9, <2>1 DEF Links
      <3>2. w \notin ToSet(list)
        BY <1>2
      <3> HIDE DEF list, r
      <3>3. /\ Distinct(r)
            /\ \A x \in Wrappers : x # w => (x \in ToSet(r) => x \in ToSet(list))
        BY ZenonT(40), <3>1, <3>2, RecycledMove
      <3> QED
        BY <3>3 DEF list, r
    <2>3. w \in ToSet(y.m.recycled_sessions) => ~u.attached
      BY <1>2, <1>9, <1>10
    <2>4. y.m.active_sessions = g.m.active_sessions /\ y.m.accepting = g.m.accepting
      BY <1>6 DEF SameActive, SameAccept
    <2>5. w \in ToSet(y.m.active_sessions) <=> u.state \in Busy
      BY <1>11, <2>1, <2>4 DEF Links, v
    <2>6. \A x \in Wrappers : x # w =>
            /\ x \in ToSet(y.m.active_sessions) <=> x \in ToSet(g.m.active_sessions)
            /\ x \in ToSet(y.m.recycled_sessions) => x \in ToSet(g.m.recycled_sessions)
      BY <2>2, <2>4
    <2>7. Distinct(y.m.active_sessions)
      BY <2>1, <2>4 DEF Links
    <2>8. u.attached <=> y.m.accepting = w \/ u.pending_operations > 0
      BY <1>2, <1>11, <2>4
    <2>9. y.m.accepting = w => u.state = "ready"
      BY <1>2, <2>4
    <2> QED
      BY <1>2, <1>5, <1>12, <2>1, <2>2, <2>3, <2>4, <2>5, <2>6, <2>7, <2>8, <2>9, LinksMove
  <1>14. Counted(y)
    BY <1>2, <1>5, <1>6, <1>7, <1>11, <1>12, CountedMove DEF Core, SameAccept, v
  <1>15. Accepts(y)
    <2>1. Len(y.m.active_sessions) <= Len(g.m.active_sessions)
      BY <1>2, <1>6, PairOf DEF SameActive, ManagerStates
    <2> QED
      BY <1>2, <1>5, <1>6, <2>1, AcceptsKept DEF Core, SameUser
  <1>16. Walk(y)
    BY <1>2, <1>5, <1>6, <1>7, <1>11, <1>12, WalkStays DEF Core, SameUser, SameActive, v
  <1>17. Stats(y)
    BY <1>2, <1>5, <1>6, <1>7, <1>11, <1>12, StatsMove DEF Core, SameUser, SameActive, Stats, v
  <1>18. \A x \in Wrappers : WrapperSound(y.ses[x])
    BY <1>2, <1>11, <1>12, SoundMove DEF Core
  <1>19. Quiet(g, y)
    <2>1. \A x \in Wrappers : x # w => y.ses[x] = g.ses[x]
      BY <1>8, <1>12
    <2>2. ~u.attached => v.pending_operations = 1 /\ v.api.extern_state = "stopped"
      BY <1>3, <1>9, <1>10, <1>11
    <2>3. v.api.extern_state = "stopped" => v.api.run = "stopped"
      BY <1>2 DEF WrapperSound, Interface
    <2> QED
      BY <1>2, <2>1, <2>2, <2>3 DEF Quiet, u, v
  <1> QED
    BY <1>5, <1>6, <1>13, <1>14, <1>15, <1>16, <1>17, <1>18, <1>19 DEF Core, y, e, d

\* Only w has changed.
LEMMA CoreMove ==
  ASSUME NEW g, Core(g), NEW y \in Pairs, NEW w \in Wrappers, NEW u,
         y.ses = [g.ses EXCEPT ![w] = u], WrapperSound(u),
         Links(y), Counted(y), Accepts(y), Walk(y), Stats(y)
  PROVE  Core(y)
  BY SoundMove DEF Core

\* A session that is done with, by the answer of its stop or of a failed start,
\* leaves the active list; its wrapper is kept until the last answer.
LEMMA DismissCore ==
  ASSUME NEW g, Core(g), g.m.intern_state # "stopped", NEW w \in Wrappers,
         NEW c \in {"start", "stop"}, g.ses[w].api.posted[c] # <<>>,
         g.ses[w].state = c,
         c = "start" => Head(g.ses[w].api.posted["start"]) # "ok",
         NEW e, e = IF c = "start" THEN session_stopped(operation_completed(g, w, c))
                                   ELSE operation_completed(g, w, c)
  PROVE  LET y == Dismiss(e, w)
         IN  Core(y) /\ SameUser(y.m, g.m) /\ Quiet(g, y)
  <1> DEFINE v == g.ses[w]
             q == Completion(v, c)
             d == operation_completed(g, w, c)
             r == [q EXCEPT !.state = "stopped"]
             t == remove_from_active(mark(e, w, "stopped"), w)
             y == recycle(t, w)
             u == y.ses[w]
             list == g.m.active_sessions
             end == g.m.stopping_sessions_end
  <1>1. c \in Api!Calls
    BY DEF Api!Calls
  <1>2. /\ g \in Pairs /\ WrapperSound(v) /\ Taken(v, q, c) /\ Has(v, c)
        /\ v.attached /\ v.pending_operations > 0
        /\ w \notin ToSet(g.m.recycled_sessions) /\ g.m.accepting # w
        /\ g.m.pending_operations \in Nat /\ g.m.pending_operations > 0
        /\ d \in Pairs /\ d.ses = [g.ses EXCEPT ![w] = q]
        /\ d.m.pending_operations = g.m.pending_operations - 1
        /\ d.m.scheduled = g.m.scheduled
        /\ d.m.recycled_sessions = g.m.recycled_sessions
        /\ d.m.total_accepted = g.m.total_accepted /\ d.m.stopped = g.m.stopped
        /\ SameUser(d.m, g.m) /\ SameAccept(d.m, g.m) /\ SameActive(d.m, g.m)
        /\ d.ses[w] = q
    BY <1>1, AnswerArrives
  <1>3. ~Has(q, "stop") /\ q.api.extern_state = "stopped"
    <2>1. CASE c = "start"
      BY <1>2, <2>1 DEF WrapperSound, Interface, Asked, Taken, Api!Calls
    <2>2. CASE c = "stop"
      BY <1>2, <2>2 DEF WrapperSound, Interface, Taken
    <2> QED
      BY <2>1, <2>2
  <1>4. /\ WrapperSound(r) /\ r.state = "stopped" /\ r.attached
        /\ r.pending_operations = q.pending_operations
        /\ \A o \in Api!Calls : Has(r, o) <=> Has(q, o)
    BY <1>1, <1>2, <1>3, DismissSound
  <1> HIDE DEF d
  <1>5. /\ e \in Pairs /\ e.ses = d.ses /\ SameUser(e.m, d.m)
        /\ SameAccept(e.m, d.m) /\ SameActive(e.m, d.m)
        /\ e.m.recycled_sessions = d.m.recycled_sessions
        /\ e.m.pending_operations = d.m.pending_operations
        /\ e.m.scheduled = d.m.scheduled
        /\ e.m.total_accepted = d.m.total_accepted
        /\ e.m.stopped = IF c = "start" THEN d.m.stopped + 1 ELSE d.m.stopped
    <2>1. CASE c = "start"
      <3>1. e = session_stopped(d)
        BY <2>1 DEF d
      <3> QED
        BY <1>2, <2>1, <3>1, StoppedFrame
    <2>2. CASE c = "stop"
      BY <1>2, <2>2 DEF d, SameUser, SameAccept, SameActive
    <2> QED
      BY <2>1, <2>2
  <1>6. /\ Links(g) /\ w \in ToSet(list) /\ Distinct(list) /\ list \in Seq(Wrappers)
        /\ g.ses \in [Wrappers -> WrapperStates] /\ g.m.recycled_sessions \in Seq(Wrappers)
    BY <1>2, PairOf DEF Core, Links, Busy, ManagerStates
  <1>7. e.m.active_sessions = list /\ e.m.stopping_sessions_end = end
        /\ e.m.max_active = g.m.max_active
    BY <1>2, <1>5 DEF SameActive
  <1>8. e.ses = [g.ses EXCEPT ![w] = q] /\ e.ses[w] = q
    BY <1>2, <1>5
  <1> HIDE DEF q, list, end
  <1>9. /\ t \in Pairs
        /\ t.ses = [e.ses EXCEPT ![w] = [e.ses[w] EXCEPT !.state = "stopped"]]
        /\ SameUser(t.m, e.m) /\ SameAccept(t.m, e.m) /\ SameCounts(t.m, e.m)
        /\ t.m.recycled_sessions = e.m.recycled_sessions
        /\ t.m.max_active = e.m.max_active
        /\ t.m.active_sessions = Erased(list, w)
        /\ t.m.stopping_sessions_end = IF end = w THEN Following(list, w) ELSE end
    <2> DEFINE l == e.m.active_sessions
               n == e.m.stopping_sessions_end
    <2>1. e \in Pairs /\ w \in ToSet(l) /\ Distinct(l)
      BY <1>5, <1>6, <1>7
    <2>2. /\ t \in Pairs
          /\ t.ses = [e.ses EXCEPT ![w] = [e.ses[w] EXCEPT !.state = "stopped"]]
          /\ SameUser(t.m, e.m) /\ SameAccept(t.m, e.m) /\ SameCounts(t.m, e.m)
          /\ t.m.recycled_sessions = e.m.recycled_sessions
          /\ t.m.max_active = e.m.max_active
          /\ t.m.active_sessions = Erased(l, w)
          /\ t.m.stopping_sessions_end = IF n = w THEN Following(l, w) ELSE n
      BY <2>1, RemoveFrame, Zenon
    <2> QED
      BY <1>7, <2>2, Zenon
  <1>10. e.ses[w] = q => [e.ses[w] EXCEPT !.state = "stopped"] = r
    OBVIOUS
  <1> HIDE DEF t, r
  <1>11. t.ses = [g.ses EXCEPT ![w] = r] /\ t.ses[w] = r
    <2>1. t.ses = [e.ses EXCEPT ![w] = r]
      BY <1>8, <1>9, <1>10, Zenon
    <2> QED
      BY <1>6, <1>8, <2>1
  <1>12. /\ y \in Pairs /\ SameUser(y.m, t.m) /\ SameAccept(y.m, t.m)
         /\ SameActive(y.m, t.m) /\ SameCounts(y.m, t.m)
         /\ \/ /\ t.ses[w].pending_operations # 0 /\ y.ses = t.ses
               /\ y.m.recycled_sessions = t.m.recycled_sessions
            \/ /\ t.ses[w].pending_operations = 0
               /\ y.ses = [t.ses EXCEPT ![w] = Detached]
               /\ y.m.recycled_sessions \in
                    {t.m.recycled_sessions, <<w>> \o t.m.recycled_sessions}
    BY <1>9, RecycleFrame
  <1> HIDE DEF y
  <1>13. SameUser(y.m, g.m) /\ SameAccept(y.m, g.m)
    BY SMTT(30), <1>2, <1>5, <1>9, <1>12 DEF SameUser, SameAccept
  <1>14. /\ y.m.pending_operations = g.m.pending_operations - 1
         /\ y.m.scheduled = g.m.scheduled
         /\ y.m.total_accepted = g.m.total_accepted
         /\ y.m.stopped = IF c = "start" THEN g.m.stopped + 1 ELSE g.m.stopped
         /\ y.m.max_active = g.m.max_active
         /\ y.m.active_sessions = Erased(list, w)
         /\ y.m.stopping_sessions_end = IF end = w THEN Following(list, w) ELSE end
    BY <1>2, <1>5, <1>7, <1>9, <1>12 DEF SameCounts, SameActive
  <1>15. \/ /\ q.pending_operations # 0 /\ u = r /\ y.ses = [g.ses EXCEPT ![w] = u]
            /\ y.m.recycled_sessions = g.m.recycled_sessions
         \/ /\ q.pending_operations = 0 /\ u = Detached /\ y.ses = [g.ses EXCEPT ![w] = u]
            /\ y.m.recycled_sessions \in
                 {g.m.recycled_sessions, <<w>> \o g.m.recycled_sessions}
    <2>1. t.ses[w].pending_operations = q.pending_operations
          /\ t.m.recycled_sessions = g.m.recycled_sessions
      BY <1>2, <1>4, <1>5, <1>9, <1>11
    <2>2. CASE q.pending_operations # 0
      BY <1>11, <1>12, <2>1, <2>2
    <2>3. CASE q.pending_operations = 0
      <3>1. [t.ses EXCEPT ![w] = Detached] = [g.ses EXCEPT ![w] = Detached]
        BY <1>6, <1>11
      <3>2. y.ses = [g.ses EXCEPT ![w] = Detached] /\ u = Detached
        BY <1>6, <1>12, <2>1, <2>3, <3>1
      <3> QED
        BY <1>12, <2>1, <2>3, <3>2
    <2> QED
      BY <2>2, <2>3
  <1> HIDE DEF u, v
  <1>16. /\ Detached.pending_operations = 0 /\ Detached.state = "ready"
         /\ Detached.attached = FALSE /\ WrapperSound(Detached)
         /\ ~Has(Detached, "start") /\ ~Has(Detached, "wait")
    BY FreshSound DEF Detached, Api!Calls
  <1>17. /\ q.state = v.state /\ v.pending_operations = q.pending_operations + 1
         /\ q.pending_operations \in Nat /\ q.pending_operations = Answers(q)
    BY <1>2 DEF Taken, WrapperStates
  <1>18. c = "start" => ~Open(q) /\ Open(v)
    BY <1>2 DEF Taken, Open, WrapperSound, Asked, v, Api!Calls
  <1>19. c = "stop" => (Open(q) <=> Open(v))
    BY <1>2 DEF Taken, Open, Api!Calls
  <1>20. (Open(r) <=> Open(q)) /\ ~Open(Detached)
    BY <1>4, <1>16 DEF Open, Api!Calls
  <1>21. q.pending_operations = 0 => ~Open(q)
    BY <1>17 DEF Answers, Flag, Open
  <1>22. /\ WrapperSound(u) /\ v.pending_operations = u.pending_operations + 1
         /\ u.state \notin Busy
         /\ u.attached <=> u.pending_operations > 0
         /\ c = "start" => ~Open(u) /\ Open(v)
         /\ c = "stop" => (Open(u) <=> Open(v))
    <2>1. CASE q.pending_operations # 0 /\ u = r
      BY <1>4, <1>17, <1>18, <1>19, <1>20, <2>1 DEF Busy
    <2>2. CASE q.pending_operations = 0 /\ u = Detached
      BY <1>16, <1>17, <1>18, <1>19, <1>20, <1>21, <2>2 DEF Busy
    <2> QED
      BY <1>15, <2>1, <2>2
  <1>23. y.ses = [g.ses EXCEPT ![w] = u]
    BY <1>15
  <1>24. /\ ErasedFrom(list, w, y.m.active_sessions) /\ Distinct(y.m.active_sessions)
         /\ ToSet(y.m.active_sessions) = ToSet(list) \ {w}
    BY <1>6, <1>14, ErasedAt
  <1>25. Links(y)
    <2>1. /\ Distinct(y.m.recycled_sessions)
          /\ \A x \in Wrappers : x # w =>
               (x \in ToSet(y.m.recycled_sessions) => x \in ToSet(g.m.recycled_sessions))
      <3> DEFINE old == g.m.recycled_sessions
                 new == y.m.recycled_sessions
      <3>1. new \in {old, <<w>> \o old} /\ Distinct(old) /\ old \in Seq(Wrappers)
        BY <1>6, <1>15 DEF Links
      <3>2. w \notin ToSet(old)
        BY <1>2
      <3> HIDE DEF old, new
      <3>3. /\ Distinct(new)
            /\ \A x \in Wrappers : x # w => (x \in ToSet(new) => x \in ToSet(old))
        BY ZenonT(40), <3>1, <3>2, RecycledMove
      <3> QED
        BY <3>3 DEF old, new
    <2>2. w \in ToSet(y.m.recycled_sessions) => ~u.attached
      BY <1>2, <1>15, <1>16
    <2>3. y.m.accepting = g.m.accepting
      BY <1>13 DEF SameAccept
    <2>4. w \in ToSet(y.m.active_sessions) <=> u.state \in Busy
      BY <1>22, <1>24
    <2>5. \A x \in Wrappers : x # w =>
            /\ x \in ToSet(y.m.active_sessions) <=> x \in ToSet(g.m.active_sessions)
            /\ x \in ToSet(y.m.recycled_sessions) => x \in ToSet(g.m.recycled_sessions)
      BY <1>24, <2>1 DEF list
    <2>6. u.attached <=> y.m.accepting = w \/ u.pending_operations > 0
      BY <1>2, <1>22, <2>3
    <2>7. y.m.accepting = w => u.state = "ready"
      BY <1>2, <2>3
    <2> QED
      BY <1>2, <1>6, <1>12, <1>23, <1>24, <2>1, <2>2, <2>3, <2>4, <2>5, <2>6, <2>7, LinksMove
  <1>26. Counted(y)
    BY SMTT(30), <1>2, <1>12, <1>13, <1>14, <1>22, <1>23, CountedMove DEF Core, SameAccept, v
  <1> DEFINE n == Len(list)
             k == Len(y.m.active_sessions)
  <1>27. n \in Nat /\ k = n - 1
    BY <1>6, <1>24 DEF ErasedFrom
  <1>28. Accepts(y)
    <2>1. k <= n
      BY <1>27
    <2> QED
      BY <1>2, <1>12, <1>13, <2>1, AcceptsKept DEF Core, SameUser, list
  <1>29. Walk(y)
    <2>1. Walk(g) /\ y.m.intern_state = g.m.intern_state
      BY <1>13 DEF Core, SameUser
    <2> QED
      BY <1>2, <1>6, <1>12, <1>14, <1>23, <2>1, WalkErased DEF list, end
  <1>30. Stats(y)
    <2>1. /\ Stats(g) /\ y.m.intern_state = g.m.intern_state
      BY <1>13 DEF Core, SameUser
    <2>2. /\ n <= g.m.max_active /\ g.m.max_active <= MaxSessionCount
          /\ g.m.max_active <= g.m.total_accepted
      BY <2>1 DEF Stats, list
    <2>3. g.m.max_active \in Nat
      BY <1>2, PairOf DEF ManagerStates
    <2> HIDE DEF n, k
    <2>4. k <= y.m.max_active
      BY <1>14, <1>27, <2>2, <2>3
    <2>5. c = "start" \/ c = "stop"
      OBVIOUS
    <2> QED
      BY <1>2, <1>12, <1>14, <1>22, <1>23, <2>1, <2>2, <2>4, <2>5, StatsMove DEF v, k
  <1>31. Quiet(g, y)
    <2>1. \A x \in Wrappers : x # w => y.ses[x] = g.ses[x]
      BY <1>6, <1>23
    <2>2. ~u.attached => v.pending_operations = 1
      BY <1>4, <1>15, <1>17
    <2>3. v.api.extern_state = "stopped"
      BY <1>2, <1>3 DEF Taken
    <2>4. v.api.run = "stopped"
      BY <1>2, <2>3 DEF WrapperSound, Interface
    <2> QED
      BY <1>2, <2>1, <2>2, <2>3, <2>4 DEF Quiet, u, v
  <1>32. Core(y)
    BY <1>12, <1>22, <1>23, <1>25, <1>26, <1>28, <1>29, <1>30, CoreMove
  <1> QED
    BY <1>13, <1>31, <1>32 DEF y, t, Dismiss

\* The pair after a call of the sessions of ws.
LEMMA InvokeFrame ==
  ASSUME NEW z \in Pairs, NEW ws \in SUBSET Wrappers, NEW call \in Api!Calls,
         NEW state \in Busy
  PROVE  LET y == Invoke(z, ws, call, state)
         IN  /\ y \in Pairs
             /\ \A w \in Wrappers :
                  y.ses[w] = IF w \in ws THEN Called(z.ses[w], call, state) ELSE z.ses[w]
             /\ Cardinality(ws) \in Nat
             /\ y.m.pending_operations = z.m.pending_operations + Cardinality(ws)
             /\ SameUser(y.m, z.m) /\ SameAccept(y.m, z.m) /\ SameActive(y.m, z.m)
             /\ y.m.recycled_sessions = z.m.recycled_sessions
             /\ y.m.scheduled = z.m.scheduled
             /\ y.m.total_accepted = z.m.total_accepted /\ y.m.stopped = z.m.stopped
  <1> DEFINE n == Cardinality(ws)
             p == z.m.pending_operations + n
             k == [z.m EXCEPT !.pending_operations = p]
             vs == [w \in Wrappers |->
                      IF w \in ws THEN Called(z.ses[w], call, state) ELSE z.ses[w]]
             y == Invoke(z, ws, call, state)
  <1>1. z.m \in ManagerStates /\ z.ses \in [Wrappers -> WrapperStates]
    BY PairOf
  <1>2. n \in Nat
    BY ManagerAssumption, FS_Subset, FS_CardinalityType
  <1> HIDE DEF n
  <1>3. p \in Nat
    BY <1>1, <1>2 DEF ManagerStates
  <1>4. y = [m |-> k, ses |-> vs]
    BY Zenon DEF Invoke, Called, n
  <1> HIDE DEF p
  <1>5. /\ k \in ManagerStates /\ k.pending_operations = p
        /\ SameUser(k, z.m) /\ SameAccept(k, z.m) /\ SameActive(k, z.m)
        /\ k.recycled_sessions = z.m.recycled_sessions /\ k.scheduled = z.m.scheduled
        /\ k.total_accepted = z.m.total_accepted /\ k.stopped = z.m.stopped
    BY <1>1, <1>3 DEF ManagerStates, SameUser, SameAccept, SameActive
  <1>6. \A w \in Wrappers : Called(z.ses[w], call, state) \in WrapperStates
    BY <1>1, CalledFields DEF Busy
  <1>7. vs \in [Wrappers -> WrapperStates]
    BY <1>1, <1>6
  <1> HIDE DEF k, y
  <1>8. y \in Pairs /\ y.m = k /\ y.ses = vs
    BY <1>4, <1>5, <1>7 DEF Pairs
  <1> QED
    BY <1>2, <1>5, <1>8, Zenon DEF y, p, n

\* The pair after a call of the session of w.
LEMMA InvokeOne ==
  ASSUME NEW z \in Pairs, NEW w \in Wrappers, NEW call \in Api!Calls, NEW state \in Busy
  PROVE  LET y == Invoke(z, {w}, call, state)
         IN  /\ y \in Pairs /\ y.ses[w] = Called(z.ses[w], call, state)
             /\ \A x \in Wrappers : x # w => y.ses[x] = z.ses[x]
             /\ y.m.pending_operations = z.m.pending_operations + 1
             /\ SameUser(y.m, z.m) /\ SameAccept(y.m, z.m) /\ SameActive(y.m, z.m)
             /\ y.m.recycled_sessions = z.m.recycled_sessions
             /\ y.m.scheduled = z.m.scheduled
             /\ y.m.total_accepted = z.m.total_accepted /\ y.m.stopped = z.m.stopped
  <1> DEFINE y == Invoke(z, {w}, call, state)
  <1>1. {w} \in SUBSET Wrappers /\ Cardinality({w}) = 1
    BY FS_Singleton
  <1>2. /\ y \in Pairs
        /\ \A x \in Wrappers :
             y.ses[x] = IF x \in {w} THEN Called(z.ses[x], call, state) ELSE z.ses[x]
        /\ y.m.pending_operations = z.m.pending_operations + 1
        /\ SameUser(y.m, z.m) /\ SameAccept(y.m, z.m) /\ SameActive(y.m, z.m)
        /\ y.m.recycled_sessions = z.m.recycled_sessions
        /\ y.m.scheduled = z.m.scheduled
        /\ y.m.total_accepted = z.m.total_accepted /\ y.m.stopped = z.m.stopped
    BY <1>1, InvokeFrame
  <1> QED
    BY <1>2

\* The pair after the mark of a wrapper.
LEMMA MarkFrame ==
  ASSUME NEW z \in Pairs, NEW w \in Wrappers, NEW state \in Busy
  PROVE  LET y == mark(z, w, state)
         IN  /\ y \in Pairs /\ y.m = z.m
             /\ \A x \in Wrappers : x # w => y.ses[x] = z.ses[x]
             /\ y.ses[w].state = state
             /\ \A call \in Api!Calls :
                  Called(y.ses[w], call, state) = Called(z.ses[w], call, state)
  <1> DEFINE y == mark(z, w, state)
             v == [z.ses[w] EXCEPT !.state = state]
  <1>1. z.ses \in [Wrappers -> WrapperStates] /\ z.m \in ManagerStates
    BY PairOf
  <1>2. v \in WrapperStates /\ v.state = state
    BY <1>1 DEF WrapperStates, Busy
  <1>3. y = [z EXCEPT !.ses = [z.ses EXCEPT ![w] = v]]
    BY Zenon DEF mark
  <1>4. \A call \in Api!Calls : Called(v, call, state) = Called(z.ses[w], call, state)
    BY <1>1 DEF Called, WrapperStates
  <1> HIDE DEF v
  <1>5. [z.ses EXCEPT ![w] = v] \in [Wrappers -> WrapperStates]
        /\ [z.ses EXCEPT ![w] = v][w] = v
        /\ \A x \in Wrappers : x # w => [z.ses EXCEPT ![w] = v][x] = z.ses[x]
    BY <1>1, <1>2
  <1>6. y \in Pairs /\ y.m = z.m /\ y.ses = [z.ses EXCEPT ![w] = v]
    BY <1>3, <1>5 DEF Pairs
  <1> QED
    BY <1>2, <1>4, <1>5, <1>6 DEF v

\* A session that has started is asked for its end, unless the manager stops, and
\* one that has ended is told to stop.
LEMMA AskCore ==
  ASSUME NEW g, Core(g), g.m.intern_state # "stopped", NEW w \in Wrappers,
         NEW c \in {"start", "wait"}, g.ses[w].api.posted[c] # <<>>,
         g.ses[w].state = (IF c = "start" THEN "start" ELSE "work"),
         NEW call \in {"wait", "stop"}, c = "wait" => call = "stop",
         c = "start" /\ call = "stop" => g.m.intern_state # "work"
  PROVE  LET state == IF call = "wait" THEN "work" ELSE "stop"
             d == operation_completed(g, w, c)
             e == IF c = "wait" THEN session_stopped(d)
                  ELSE IF call = "wait" THEN mark(d, w, state) ELSE d
             y == Invoke(e, {w}, call, state)
         IN  Core(y) /\ SameUser(y.m, g.m) /\ Quiet(g, y)
  <1> DEFINE v == g.ses[w]
             q == Completion(v, c)
             state == IF call = "wait" THEN "work" ELSE "stop"
             d == operation_completed(g, w, c)
             e == IF c = "wait" THEN session_stopped(d)
                  ELSE IF call = "wait" THEN mark(d, w, state) ELSE d
             u == Called(q, call, state)
             y == Invoke(e, {w}, call, state)
  <1>1. c \in Api!Calls /\ call \in Api!Calls /\ state \in Busy
    BY DEF Api!Calls, Busy
  <1>2. /\ g \in Pairs /\ WrapperSound(v) /\ Taken(v, q, c) /\ Has(v, c)
        /\ v.attached /\ v.pending_operations > 0
        /\ w \notin ToSet(g.m.recycled_sessions) /\ g.m.accepting # w
        /\ g.m.pending_operations \in Nat /\ g.m.pending_operations > 0
        /\ d \in Pairs /\ d.ses = [g.ses EXCEPT ![w] = q]
        /\ d.m.pending_operations = g.m.pending_operations - 1
        /\ d.m.scheduled = g.m.scheduled
        /\ d.m.recycled_sessions = g.m.recycled_sessions
        /\ d.m.total_accepted = g.m.total_accepted /\ d.m.stopped = g.m.stopped
        /\ SameUser(d.m, g.m) /\ SameAccept(d.m, g.m) /\ SameActive(d.m, g.m)
        /\ d.ses[w] = q
    BY <1>1, AnswerArrives
  <1>3. v.state \in {"start", "work"}
    OBVIOUS
  <1>4. /\ WrapperSound(u) /\ u.state = state /\ u.attached
        /\ u.pending_operations = 1 /\ q.pending_operations = 0
        /\ ~Has(u, "start") /\ (Has(u, "wait") <=> call = "wait")
    BY <1>2, <1>3, AskSound
  <1> HIDE DEF d, e, state
  <1>5. /\ e \in Pairs
        /\ SameUser(e.m, d.m) /\ SameAccept(e.m, d.m) /\ SameActive(e.m, d.m)
        /\ e.m.recycled_sessions = d.m.recycled_sessions
        /\ e.m.pending_operations = d.m.pending_operations
        /\ e.m.scheduled = d.m.scheduled
        /\ e.m.total_accepted = d.m.total_accepted
        /\ e.m.stopped = IF c = "wait" THEN d.m.stopped + 1 ELSE d.m.stopped
        /\ Called(e.ses[w], call, state) = u
        /\ \A x \in Wrappers : x # w => e.ses[x] = d.ses[x]
    <2>1. CASE c = "wait"
      <3>1. e = session_stopped(d)
        BY <2>1 DEF e
      <3> QED
        BY <1>2, <2>1, <3>1, StoppedFrame
    <2>2. CASE c = "start" /\ call = "wait"
      <3> DEFINE k == mark(d, w, state)
      <3>1. e = k
        BY <2>2 DEF e
      <3>2. d \in Pairs /\ w \in Wrappers /\ state \in Busy /\ call \in Api!Calls
        BY <1>1, <1>2
      <3>3. /\ k \in Pairs /\ k.m = d.m
            /\ \A x \in Wrappers : x # w => k.ses[x] = d.ses[x]
            /\ \A o \in Api!Calls :
                  Called(k.ses[w], o, state) = Called(d.ses[w], o, state)
        BY <3>2, MarkFrame
      <3> HIDE DEF k
      <3> QED
        BY <1>2, <2>2, <3>1, <3>2, <3>3 DEF u, SameUser, SameAccept, SameActive
    <2>3. CASE c = "start" /\ call = "stop"
      <3>1. e = d
        BY <2>3 DEF e
      <3> QED
        BY <1>2, <2>3, <3>1 DEF SameUser, SameAccept, SameActive
    <2> QED
      BY <2>1, <2>2, <2>3
  <1> HIDE DEF u, q
  <1>6. /\ y \in Pairs /\ y.ses = [e.ses EXCEPT ![w] = u]
        /\ y.m.pending_operations = e.m.pending_operations + 1
        /\ SameUser(y.m, e.m) /\ SameAccept(y.m, e.m) /\ SameActive(y.m, e.m)
        /\ y.m.recycled_sessions = e.m.recycled_sessions
        /\ y.m.scheduled = e.m.scheduled
        /\ y.m.total_accepted = e.m.total_accepted /\ y.m.stopped = e.m.stopped
    <2>1. /\ y \in Pairs
          /\ y.ses[w] = Called(e.ses[w], call, state)
          /\ \A x \in Wrappers : x # w => y.ses[x] = e.ses[x]
          /\ y.m.pending_operations = e.m.pending_operations + 1
          /\ SameUser(y.m, e.m) /\ SameAccept(y.m, e.m) /\ SameActive(y.m, e.m)
          /\ y.m.recycled_sessions = e.m.recycled_sessions
          /\ y.m.scheduled = e.m.scheduled
          /\ y.m.total_accepted = e.m.total_accepted /\ y.m.stopped = e.m.stopped
      BY ZenonT(40), <1>1, <1>5, InvokeOne
    <2>2. e.ses \in [Wrappers -> WrapperStates] /\ y.ses \in [Wrappers -> WrapperStates]
      BY <1>5, <2>1, PairOf
    <2> HIDE DEF y
    <2>3. y.ses = [e.ses EXCEPT ![w] = u]
      BY <1>5, <2>1, <2>2
    <2> QED
      BY <2>1, <2>3
  <1> HIDE DEF y
  <1>7. g.ses \in [Wrappers -> WrapperStates] /\ e.ses \in [Wrappers -> WrapperStates]
    BY <1>2, <1>5, PairOf
  <1>8. y.ses = [g.ses EXCEPT ![w] = u]
    <2>1. \A x \in Wrappers : x # w => e.ses[x] = g.ses[x]
      BY <1>2, <1>5, <1>7
    <2> QED
      BY <1>6, <1>7, <2>1
  <1>9. SameUser(y.m, g.m) /\ SameAccept(y.m, g.m) /\ SameActive(y.m, g.m)
    BY <1>2, <1>5, <1>6 DEF SameUser, SameAccept, SameActive
  <1>10. /\ y.m.scheduled = g.m.scheduled
         /\ y.m.recycled_sessions = g.m.recycled_sessions
         /\ y.m.total_accepted = g.m.total_accepted
         /\ y.m.stopped = IF c = "wait" THEN g.m.stopped + 1 ELSE g.m.stopped
    BY <1>2, <1>5, <1>6
  <1>11. y.m.pending_operations = g.m.pending_operations
    <2> DEFINE a == g.m.pending_operations
               b == d.m.pending_operations
    <2>1. a \in Nat /\ b = a - 1 /\ y.m.pending_operations = b + 1
      BY <1>2, <1>5, <1>6
    <2> HIDE DEF a, b
    <2>2. b + 1 = a
      BY <2>1
    <2> QED
      BY <2>1, <2>2 DEF a
  <1>12. v.pending_operations = u.pending_operations
    BY <1>2, <1>4 DEF Taken
  <1>13. /\ Open(v)
         /\ call = "wait" => Open(u)
         /\ call = "stop" => ~Open(u)
    BY <1>2, <1>4 DEF Open
  <1> HIDE DEF v
  <1>14. Links(y)
    <2>1. Links(g)
      BY DEF Core
    <2>2. y.m.active_sessions = g.m.active_sessions /\ y.m.accepting = g.m.accepting
      BY <1>9 DEF SameActive, SameAccept
    <2>3. /\ Distinct(y.m.active_sessions) /\ Distinct(y.m.recycled_sessions)
          /\ \A x \in Wrappers : x # w =>
               /\ x \in ToSet(y.m.active_sessions) <=> x \in ToSet(g.m.active_sessions)
               /\ x \in ToSet(y.m.recycled_sessions) => x \in ToSet(g.m.recycled_sessions)
      BY <1>10, <2>1, <2>2 DEF Links
    <2>4. w \in ToSet(y.m.active_sessions) <=> u.state \in Busy
      BY <1>1, <1>3, <1>4, <2>1, <2>2 DEF Links, Busy, v
    <2>5. /\ w \in ToSet(y.m.recycled_sessions) => ~u.attached
          /\ y.m.accepting = w => u.state = "ready"
      BY <1>2, <1>10, <2>2
    <2>6. u.attached <=> y.m.accepting = w \/ u.pending_operations > 0
      BY <1>4
    <2> QED
      BY <1>2, <1>6, <1>8, <2>1, <2>2, <2>3, <2>4, <2>5, <2>6, LinksMove
  <1>15. Counted(y)
    BY <1>2, <1>6, <1>8, <1>9, <1>10, <1>11, <1>12, CountedMove DEF Core, SameAccept, v
  <1>16. Accepts(y)
    <2>1. Len(y.m.active_sessions) <= Len(g.m.active_sessions)
      BY <1>2, <1>9, PairOf DEF SameActive, ManagerStates
    <2> QED
      BY <1>2, <1>6, <1>9, <2>1, AcceptsKept DEF Core, SameUser
  <1>17. Walk(y)
    <2>1. g.ses[w].state # "stop"
      BY <1>3 DEF v
    <2>2. /\ Walk(g) /\ y.m.active_sessions = g.m.active_sessions
          /\ y.m.stopping_sessions_end = g.m.stopping_sessions_end
          /\ y.m.intern_state = g.m.intern_state
      BY <1>9 DEF Core, SameUser, SameActive
    <2> QED
      BY <1>2, <1>6, <1>8, <1>10, <2>1, <2>2, WalkStays
  <1>18. Stats(y)
    <2>1. \/ /\ Open(u) <=> Open(v)
             /\ y.m.total_accepted = g.m.total_accepted /\ y.m.stopped = g.m.stopped
          \/ /\ Open(v) /\ ~Open(u) /\ y.m.total_accepted = g.m.total_accepted
             /\ \/ y.m.stopped = g.m.stopped + 1
                \/ y.m.stopped = g.m.stopped /\ g.m.intern_state # "work"
      BY <1>10, <1>13
    <2> QED
      BY <1>2, <1>6, <1>8, <1>9, <1>10, <2>1, StatsMove
         DEF Core, SameUser, SameActive, Stats, v
  <1>19. Quiet(g, y)
    <2>1. \A x \in Wrappers : x # w => y.ses[x] = g.ses[x]
      BY <1>7, <1>8
    <2>2. y.ses[w] = u
      BY <1>7, <1>8
    <2> QED
      BY <1>4, <2>1, <2>2 DEF Quiet
  <1>20. Core(y)
    BY <1>4, <1>6, <1>8, <1>14, <1>15, <1>16, <1>17, <1>18, CoreMove
  <1> QED
    BY <1>9, <1>19, <1>20 DEF y, e, d, state

-----------------------------------------------------------------------------
(***************************************************************************)
(* The stop.                                                                *)
(***************************************************************************)
\* Where a step of the walk begins and where the next one would.
First(list, begin) == IF begin = NoSession THEN Len(list) + 1 ELSE Position(list, begin)
Beyond(list, begin) == First(list, begin) + MaxStoppingSessions

\* The sessions that a step of the walk tells to stop.
Chunk(g, begin) ==
  LET list == g.m.active_sessions
  IN  {w \in Wrappers : /\ g.ses[w].state # "stop"
                        /\ \E k \in 1 .. Len(list) :
                             /\ First(list, begin) <= k /\ k < Beyond(list, begin)
                             /\ list[k] = w}

\* The bounds of a step.
LEMMA Bounds ==
  ASSUME NEW list \in Seq(Wrappers), NEW begin \in Wrappers \cup {NoSession},
         begin # NoSession => begin \in ToSet(list)
  PROVE  /\ First(list, begin) \in Nat /\ First(list, begin) >= 1
         /\ Beyond(list, begin) \in Nat /\ First(list, begin) <= Beyond(list, begin)
         /\ begin = NoSession => First(list, begin) > Len(list)
         /\ begin # NoSession => /\ First(list, begin) <= Len(list)
                                 /\ list[First(list, begin)] = begin
  <1> DEFINE n == Len(list)
             p == First(list, begin)
  <1>1. n \in Nat /\ MaxStoppingSessions \in Nat
    BY ManagerAssumption
  <1>2. CASE begin = NoSession
    <2>1. p = n + 1 /\ Beyond(list, begin) = p + MaxStoppingSessions
      BY <1>2 DEF First, Beyond
    <2> HIDE DEF n, p
    <2>2. p \in Nat /\ p >= 1 /\ p > n
      BY <1>1, <2>1
    <2>3. /\ p + MaxStoppingSessions \in Nat /\ p <= p + MaxStoppingSessions
      BY <1>1, <2>2
    <2> QED
      BY <1>2, <2>1, <2>2, <2>3 DEF n, p
  <1>3. CASE begin # NoSession
    <2>1. begin \in ToSet(list)
      BY <1>3
    <2>2. /\ p = Position(list, begin) /\ Beyond(list, begin) = p + MaxStoppingSessions
      BY <1>3 DEF First, Beyond
    <2>3. p \in 1 .. n /\ list[p] = begin
      BY <2>1, <2>2, PositionAt
    <2> HIDE DEF n, p
    <2>4. p \in Nat /\ p >= 1 /\ p <= n
      BY <1>1, <2>3
    <2>5. p + MaxStoppingSessions \in Nat /\ p <= p + MaxStoppingSessions
      BY <1>1, <2>4
    <2> QED
      BY <1>3, <2>2, <2>3, <2>4, <2>5 DEF n, p
  <1> QED
    BY <1>2, <1>3

\* The pair after a step of the walk.
LEMMA StepFrame ==
  ASSUME NEW z \in Pairs, NEW begin \in Wrappers \cup {NoSession},
         begin # NoSession => begin \in ToSet(z.m.active_sessions)
  PROVE  LET y == start_active_session_stop(z, begin)
             list == z.m.active_sessions
             ws == Chunk(z, begin)
             more == Beyond(list, begin) <= Len(list)
         IN  /\ y \in Pairs
             /\ \A w \in Wrappers :
                  y.ses[w] = IF w \in ws THEN Called(z.ses[w], "stop", "stop") ELSE z.ses[w]
             /\ Cardinality(ws) \in Nat
             /\ y.m.pending_operations =
                  z.m.pending_operations + Cardinality(ws) + Flag(more)
             /\ y.m.scheduled = more
             /\ y.m.stopping_sessions_end =
                  IF more THEN list[Beyond(list, begin)] ELSE NoSession
             /\ SameUser(y.m, z.m) /\ SameAccept(y.m, z.m)
             /\ y.m.active_sessions = list /\ y.m.max_active = z.m.max_active
             /\ y.m.recycled_sessions = z.m.recycled_sessions
             /\ y.m.total_accepted = z.m.total_accepted /\ y.m.stopped = z.m.stopped
  <1> DEFINE list == z.m.active_sessions
             n == Len(list)
             first == First(list, begin)
             last == Beyond(list, begin)
             more == last <= n
             chunk == {list[k] : k \in first .. (IF last > n THEN n ELSE last - 1)}
             ws == {w \in chunk : z.ses[w].state # "stop"}
             q == Invoke(z, ws, "stop", "stop")
             end == IF more THEN list[last] ELSE NoSession
             count == IF more THEN q.m.pending_operations + 1 ELSE q.m.pending_operations
             k == [q.m EXCEPT !.stopping_sessions_end = end, !.scheduled = more,
                              !.pending_operations = count]
             y == start_active_session_stop(z, begin)
  <1>1. /\ z.m \in ManagerStates /\ list \in Seq(Wrappers) /\ n \in Nat
        /\ begin # NoSession => begin \in ToSet(list)
    BY PairOf DEF ManagerStates
  <1>2. first \in Nat /\ first >= 1 /\ last \in Nat /\ first <= last
    BY <1>1, Bounds
  <1>3. y = [q EXCEPT !.m.stopping_sessions_end = end, !.m.scheduled = more,
                      !.m.pending_operations = IF more THEN @ + 1 ELSE @]
    BY Zenon DEF start_active_session_stop, First, Beyond
  <1>4. Chunk(z, begin) = {w \in Wrappers : /\ z.ses[w].state # "stop"
                                            /\ \E j \in 1 .. n : /\ first <= j /\ j < last
                                                                 /\ list[j] = w}
    BY DEF Chunk
  <1> HIDE DEF first, last
  <1>5. \A j : j \in first .. (IF last > n THEN n ELSE last - 1) <=>
               j \in 1 .. n /\ first <= j /\ j < last
    <2> HIDE DEF n
    <2> QED
      BY <1>1, <1>2
  <1>6. \A j \in 1 .. n : list[j] \in Wrappers
    BY <1>1
  <1> HIDE DEF list
  <1>7. \A w : w \in ws <=> w \in Chunk(z, begin)
    BY <1>4, <1>5, <1>6, Zenon
  <1>8. ws = Chunk(z, begin) /\ ws \in SUBSET Wrappers
    BY <1>4, <1>7
  <1>9. "stop" \in Api!Calls /\ "stop" \in Busy
    BY DEF Api!Calls, Busy
  <1> HIDE DEF ws, n
  <1>10. /\ q \in Pairs
         /\ \A w \in Wrappers :
              q.ses[w] = IF w \in ws THEN Called(z.ses[w], "stop", "stop") ELSE z.ses[w]
         /\ Cardinality(ws) \in Nat
         /\ q.m.pending_operations = z.m.pending_operations + Cardinality(ws)
         /\ SameUser(q.m, z.m) /\ SameAccept(q.m, z.m) /\ SameActive(q.m, z.m)
         /\ q.m.recycled_sessions = z.m.recycled_sessions
         /\ q.m.total_accepted = z.m.total_accepted /\ q.m.stopped = z.m.stopped
    BY <1>8, <1>9, InvokeFrame
  <1> HIDE DEF q
  <1>11. q.m \in ManagerStates /\ q.ses \in [Wrappers -> WrapperStates]
    BY <1>10, PairOf
  <1>12. more \in BOOLEAN /\ count \in Nat /\ count = q.m.pending_operations + Flag(more)
    <2> HIDE DEF more
    <2>1. q.m.pending_operations \in Nat
      BY <1>11 DEF ManagerStates
    <2> QED
      BY <1>1, <1>2, <2>1 DEF more, Flag
  <1>13. end \in Wrappers \cup {NoSession}
    <2>1. more => last \in 1 .. n
      BY <1>1, <1>2
    <2> QED
      BY <1>6, <2>1
  <1>14. more = (Beyond(z.m.active_sessions, begin) <= Len(z.m.active_sessions))
         /\ end = IF more THEN z.m.active_sessions[Beyond(z.m.active_sessions, begin)]
                  ELSE NoSession
    BY Zenon DEF last, n, list
  <1> HIDE DEF more, count, end
  <1>15. /\ k \in ManagerStates /\ k.pending_operations = count /\ k.scheduled = more
         /\ k.stopping_sessions_end = end
         /\ SameUser(k, q.m) /\ SameAccept(k, q.m)
         /\ k.active_sessions = q.m.active_sessions /\ k.max_active = q.m.max_active
         /\ k.recycled_sessions = q.m.recycled_sessions
         /\ k.total_accepted = q.m.total_accepted /\ k.stopped = q.m.stopped
    BY <1>11, <1>12, <1>13 DEF ManagerStates, SameUser, SameAccept
  <1>16. y \in Pairs /\ y.ses = q.ses /\ y.m = k
    <2> HIDE DEF y
    <2>1. y = [q EXCEPT !.m = k]
      BY <1>3, <1>10, <1>11 DEF Pairs, count
    <2> HIDE DEF k
    <2> QED
      BY <1>10, <1>15, <2>1 DEF Pairs
  <1> HIDE DEF k, y
  <1>17. SameUser(y.m, z.m) /\ SameAccept(y.m, z.m)
    BY <1>10, <1>15, <1>16 DEF SameUser, SameAccept
  <1>18. y.m.pending_operations = z.m.pending_operations + Cardinality(ws) + Flag(more)
    BY <1>10, <1>12, <1>15, <1>16
  <1>19. /\ y.m.scheduled = more /\ y.m.stopping_sessions_end = end
         /\ y.m.active_sessions = z.m.active_sessions /\ y.m.max_active = z.m.max_active
         /\ y.m.recycled_sessions = z.m.recycled_sessions
         /\ y.m.total_accepted = z.m.total_accepted /\ y.m.stopped = z.m.stopped
         /\ \A w \in Wrappers :
              y.ses[w] = IF w \in ws THEN Called(z.ses[w], "stop", "stop") ELSE z.ses[w]
    BY <1>10, <1>15, <1>16 DEF SameActive
  <1> QED
    BY <1>8, <1>10, <1>14, <1>16, <1>17, <1>18, <1>19, Zenon DEF y

\* A session that is given up is one that was.
Keeps(g, y) == \A w \in Wrappers : y.ses[w].attached = g.ses[w].attached

\* A step of the walk tells its sessions to stop and leaves the rest to the next.
LEMMA StepCore ==
  ASSUME NEW z \in Pairs, \A w \in Wrappers : WrapperSound(z.ses[w]),
         Links(z), Counted(z), Accepts(z), Stats(z),
         z.m.intern_state = "stop", z.m.scheduled = FALSE,
         NEW begin \in Wrappers \cup {NoSession},
         begin # NoSession => begin \in ToSet(z.m.active_sessions),
         \A i \in 1 .. Len(z.m.active_sessions) :
           \/ z.ses[z.m.active_sessions[i]].state = "stop"
           \/ \E k \in 1 .. i : z.m.active_sessions[k] = begin
  PROVE  LET y == start_active_session_stop(z, begin)
         IN  Core(y) /\ SameUser(y.m, z.m) /\ SameAccept(y.m, z.m) /\ Keeps(z, y)
  <1> DEFINE y == start_active_session_stop(z, begin)
             list == z.m.active_sessions
             n == Len(list)
             ws == Chunk(z, begin)
             first == First(list, begin)
             last == Beyond(list, begin)
             more == last <= n
  <1>1. /\ y \in Pairs
        /\ \A w \in Wrappers :
             y.ses[w] = IF w \in ws THEN Called(z.ses[w], "stop", "stop") ELSE z.ses[w]
        /\ Cardinality(ws) \in Nat
        /\ y.m.pending_operations =
             z.m.pending_operations + Cardinality(ws) + Flag(more)
        /\ y.m.scheduled = more
        /\ y.m.stopping_sessions_end = IF more THEN list[last] ELSE NoSession
        /\ SameUser(y.m, z.m) /\ SameAccept(y.m, z.m)
        /\ y.m.active_sessions = list /\ y.m.max_active = z.m.max_active
        /\ y.m.recycled_sessions = z.m.recycled_sessions
        /\ y.m.total_accepted = z.m.total_accepted /\ y.m.stopped = z.m.stopped
    BY StepFrame
  <1>2. /\ list \in Seq(Wrappers) /\ n \in Nat /\ NoSession \notin Wrappers
        /\ z.ses \in [Wrappers -> WrapperStates] /\ y.ses \in [Wrappers -> WrapperStates]
        /\ z.m.pending_operations \in Nat
    BY <1>1, PairOf, ManagerAssumption DEF ManagerStates
  <1>3. /\ first \in Nat /\ first >= 1 /\ last \in Nat /\ first <= last
        /\ begin = NoSession => first > n
        /\ begin # NoSession => first <= n /\ list[first] = begin
    BY <1>2, Bounds
  <1>4. \A w : w \in ws <=> /\ w \in Wrappers /\ z.ses[w].state # "stop"
                            /\ \E k \in 1 .. n : first <= k /\ k < last /\ list[k] = w
    BY DEF Chunk
  <1> HIDE DEF y, ws, first, last
  <1>5. ASSUME NEW w \in ws
        PROVE  w \in Wrappers /\ z.ses[w].state \in {"start", "work"}
    <2>1. PICK k \in 1 .. n : list[k] = w
      BY <1>4
    <2>2. w \in ToSet(list) /\ w \in Wrappers
      BY <1>2, <2>1 DEF ToSet
    <2>3. z.ses[w].state \in Busy /\ z.ses[w].state # "stop"
      BY <1>4, <2>2 DEF Links
    <2> QED
      BY <2>2, <2>3 DEF Busy
  <1>6. ASSUME NEW w \in Wrappers
        PROVE  /\ WrapperSound(y.ses[w])
               /\ y.ses[w].attached = z.ses[w].attached
               /\ Open(y.ses[w]) <=> Open(z.ses[w])
               /\ y.ses[w].state \in Busy <=> z.ses[w].state \in Busy
               /\ w \in ws => /\ y.ses[w].state = "stop"
                              /\ y.ses[w].pending_operations =
                                   z.ses[w].pending_operations + 1
               /\ w \notin ws => y.ses[w] = z.ses[w]
    <2> DEFINE v == z.ses[w]
               u == Called(v, "stop", "stop")
    <2>1. CASE w \in ws
      <3>1. WrapperSound(v) /\ v.state \in {"start", "work"}
        BY <1>5, <2>1
      <3>2. v.attached
        BY <3>1 DEF WrapperSound, Detached
      <3>3. /\ WrapperSound(u) /\ u.state = "stop" /\ u.attached
            /\ u.pending_operations = v.pending_operations + 1
            /\ \A o \in {"start", "wait"} : Has(u, o) <=> Has(v, o)
        BY <3>1, StopSound
      <3>4. Open(u) <=> Open(v)
        BY <3>3 DEF Open
      <3>5. y.ses[w] = u
        BY <1>1, <2>1
      <3>6. v \in WrapperStates /\ u \in WrapperStates
        BY <3>1, <3>3 DEF WrapperSound
      <3>7. u.attached = v.attached
        BY <3>2, <3>3, <3>6 DEF WrapperStates
      <3> HIDE DEF u, v
      <3> QED
        BY <2>1, <3>1, <3>3, <3>4, <3>5, <3>7 DEF Busy, v
    <2>2. CASE w \notin ws
      BY <1>1, <2>2
    <2> QED
      BY <2>1, <2>2
  <1>7. Links(y)
    <2>1. \A w \in ToSet(z.m.recycled_sessions) : w \in Wrappers
      BY PairOf DEF ManagerStates, ToSet
    <2>2. \A w \in Wrappers : z.ses[w].pending_operations \in Nat
      BY <1>2, PendingOf
    <2>3. \A w \in ws : z.ses[w].attached
      <3> SUFFICES ASSUME NEW w \in ws PROVE z.ses[w].attached
        OBVIOUS
      <3>1. WrapperSound(z.ses[w]) /\ z.ses[w].state \in {"start", "work"}
        BY <1>5
      <3> QED
        BY <3>1 DEF WrapperSound, Detached
    <2>4. /\ y.m.active_sessions = z.m.active_sessions
          /\ y.m.recycled_sessions = z.m.recycled_sessions
          /\ y.m.accepting = z.m.accepting
      BY <1>1 DEF SameAccept
    <2>5. \A w \in Wrappers :
            y.ses[w].attached <=> y.m.accepting = w \/ y.ses[w].pending_operations > 0
      <3> SUFFICES ASSUME NEW w \in Wrappers
                   PROVE  y.ses[w].attached <=>
                            y.m.accepting = w \/ y.ses[w].pending_operations > 0
        OBVIOUS
      <3>1. CASE w \in ws
        BY <1>6, <2>2, <2>3, <3>1
      <3>2. CASE w \notin ws
        BY <1>6, <2>4, <3>2 DEF Links
      <3> QED
        BY <3>1, <3>2
    <2>6. y.m.accepting # NoSession => y.ses[y.m.accepting].state = "ready"
      <3> SUFFICES ASSUME y.m.accepting # NoSession
                   PROVE  y.ses[y.m.accepting].state = "ready"
        OBVIOUS
      <3>1. y.m.accepting \in Wrappers /\ z.ses[y.m.accepting].state = "ready"
        BY <1>1, <2>4, PairOf DEF Links, ManagerStates
      <3>2. y.m.accepting \notin ws
        BY <1>5, <3>1
      <3> QED
        BY <1>6, <3>1, <3>2
    <2> QED
      BY <1>6, <2>1, <2>4, <2>5, <2>6 DEF Links
  <1>8. Counted(y)
    <2> DEFINE a == Cardinality(Pending(z.ses))
               b == Cardinality(Pending(y.ses))
               c == Cardinality(ws)
               s == Flag(z.m.accepting # NoSession)
    <2>1. a \in Nat /\ c \in Nat
      BY <1>1, <1>2, PendingFinite
    <2>2. b = a + c
      <3>1. ws \in SUBSET Wrappers
        BY <1>5
      <3>2. /\ \A w \in ws : y.ses[w].pending_operations = z.ses[w].pending_operations + 1
            /\ \A w \in Wrappers \ ws :
                 y.ses[w].pending_operations = z.ses[w].pending_operations
        BY <1>5, <1>6
      <3> QED
        BY <1>2, <3>1, <3>2, PendingMore
    <2>3. /\ z.m.pending_operations = s + 0 + a
          /\ y.m.pending_operations = z.m.pending_operations + c + Flag(more)
          /\ y.m.accepting = z.m.accepting
      BY <1>1 DEF Counted, Flag, SameAccept
    <2>4. s \in Nat /\ Flag(more) \in Nat
      BY DEF Flag
    <2> DEFINE e == Flag(more)
               p == z.m.pending_operations
    <2> HIDE DEF a, b, c, s, e, p
    <2>5. p + c + e = s + e + b
      BY <2>1, <2>2, <2>3, <2>4 DEF e, p
    <2>6. y.m.pending_operations = p + c + e
      BY <2>3 DEF e, p
    <2>7. y.m.pending_operations =
            Flag(y.m.accepting # NoSession) + Flag(y.m.scheduled) + b
      BY <1>1, <2>3, <2>5, <2>6 DEF s, e
    <2> QED
      BY <2>7 DEF Counted, b
  <1>9. Accepts(y)
    BY <1>1 DEF Accepts, SameAccept, SameUser
  <1>10. Stats(y)
    <2>1. Uncounted(y.ses) = Uncounted(z.ses)
      BY <1>6 DEF Uncounted, Open
    <2> QED
      BY <1>1, <2>1 DEF Stats, SameUser
  <1>11. Walk(y)
    <2>1. y.m.intern_state = "stop"
      BY <1>1 DEF SameUser
    <2>2. more => last \in 1 .. n
      BY <1>2, <1>3
    <2>3. more => y.m.stopping_sessions_end \in ToSet(y.m.active_sessions)
      BY <1>1, <1>2, <2>2 DEF ToSet
    <2>4. ASSUME NEW i \in 1 .. n
          PROVE  Reached(y, i)
      <3>1. list[i] \in Wrappers
        BY <1>2
      <3>2. y.ses[list[i]].state = "stop" => Reached(y, i)
        BY <1>1 DEF Reached
      <3>3. CASE z.ses[list[i]].state = "stop"
        <4>1. list[i] \notin ws
          BY <1>4, <3>3
        <4> QED
          BY <1>6, <3>1, <3>2, <3>3, <4>1
      <3>4. CASE z.ses[list[i]].state # "stop"
        <4>1. PICK k \in 1 .. i : list[k] = begin
          BY <3>4
        <4>2. k \in 1 .. n /\ begin # NoSession
          BY <1>2, <4>1
        <4>3. first \in 1 .. n /\ list[first] = begin
          BY <1>3, <4>2
        <4>4. k = first
          <5>1. DOMAIN list = 1 .. n
            BY <1>2
          <5> QED
            BY <4>1, <4>2, <4>3, <5>1 DEF Links, Distinct
        <4>5. first <= i
          BY <4>1, <4>4
        <4>6. CASE i < last
          <5>1. list[i] \in ws
            BY <1>4, <3>1, <3>4, <4>5, <4>6
          <5> QED
            BY <1>6, <3>1, <3>2, <5>1
        <4>7. CASE ~(i < last)
          <5>1. more /\ last \in 1 .. i
            BY <1>2, <1>3, <4>7
          <5>2. y.m.scheduled /\ list[last] = y.m.stopping_sessions_end
            BY <1>1, <5>1
          <5> QED
            BY <1>1, <5>1, <5>2 DEF Reached
        <4> QED
          BY <4>6, <4>7
      <3> QED
        BY <3>3, <3>4
    <2> QED
      BY <1>1, <2>1, <2>3, <2>4 DEF Walk
  <1>12. Core(y)
    BY <1>1, <1>6, <1>7, <1>8, <1>9, <1>10, <1>11 DEF Core
  <1>13. Keeps(z, y)
    BY <1>6 DEF Keeps
  <1> QED
    BY <1>1, <1>12, <1>13 DEF y

-----------------------------------------------------------------------------
(***************************************************************************)
(* What the user of the manager sees of it.                                 *)
(***************************************************************************)
Run(k) == IF k.intern_state = "stop" THEN "ending" ELSE k.intern_state

View(k) ==
  [extern_state |-> k.extern_state, run |-> Run(k),
   extern_wait_error |-> k.extern_wait_error,
   wait_handler |-> k.wait_handler, stop_handler |-> k.stop_handler,
   posted |-> k.posted]

Views ==
  [extern_state      : {"ready", "work", "stop", "stopped"},
   run               : {"work", "ending", "stopped"},
   extern_wait_error : Errors,
   wait_handler      : BOOLEAN,
   stop_handler      : BOOLEAN,
   posted            : [Api!Calls -> Seq(Errors)]]

\* The view has the members of the manager that the user sees.
LEMMA ViewOf ==
  ASSUME NEW k \in ManagerStates
  PROVE  /\ View(k) \in Views
         /\ View(k).extern_state = k.extern_state /\ View(k).run = Run(k)
         /\ View(k).extern_wait_error = k.extern_wait_error
         /\ View(k).wait_handler = k.wait_handler
         /\ View(k).stop_handler = k.stop_handler /\ View(k).posted = k.posted
  <1>1. Run(k) \in {"work", "ending", "stopped"}
    BY DEF ManagerStates, Run
  <1> QED
    BY <1>1 DEF ManagerStates, View, Views

\* A view with the members of k is that of k.
LEMMA ViewIs ==
  ASSUME NEW k \in ManagerStates, NEW x \in Views,
         x.extern_state = k.extern_state, x.run = Run(k),
         x.extern_wait_error = k.extern_wait_error,
         x.wait_handler = k.wait_handler, x.stop_handler = k.stop_handler,
         x.posted = k.posted
  PROVE  View(k) = x
  BY DEF View, Views

\* All that the user does not see.
SameRest(a, b) ==
  /\ SameAccept(a, b) /\ SameActive(a, b) /\ SameCounts(a, b)
  /\ a.recycled_sessions = b.recycled_sessions

\* What the user sees, but for the results.
SameStates(a, b) ==
  /\ a.extern_state = b.extern_state /\ a.intern_state = b.intern_state
  /\ a.extern_wait_error = b.extern_wait_error /\ a.wait_handler = b.wait_handler
  /\ a.stop_handler = b.stop_handler

\* The pair after an answer to the user.
LEMMA PostFrame ==
  ASSUME NEW z \in Pairs, NEW call \in Api!Calls, NEW error \in Errors
  PROVE  LET y == Post(z, call, error)
         IN  /\ y \in Pairs /\ y.ses = z.ses /\ SameRest(y.m, z.m)
             /\ SameStates(y.m, z.m)
             /\ View(y.m) = Own!Answer(View(z.m), call, error)
  <1> DEFINE posted == [z.m.posted EXCEPT ![call] = Append(@, error)]
             k == [z.m EXCEPT !.posted = posted]
             y == Post(z, call, error)
  <1>1. z.m \in ManagerStates /\ z.m.posted \in [Api!Calls -> Seq(Errors)]
    BY PairOf DEF ManagerStates
  <1>2. posted \in [Api!Calls -> Seq(Errors)]
    BY <1>1
  <1>3. y = [z EXCEPT !.m = k]
    BY Zenon DEF Post
  <1>4. Own!Answer(View(z.m), call, error) = [View(z.m) EXCEPT !.posted = posted]
    BY DEF Own!Answer, View
  <1> HIDE DEF posted, y
  <1>5. k \in ManagerStates /\ k.posted = posted /\ SameRest(k, z.m) /\ SameStates(k, z.m)
    BY <1>1, <1>2
       DEF ManagerStates, SameRest, SameAccept, SameActive, SameCounts, SameStates
  <1> HIDE DEF k
  <1>6. y \in Pairs /\ y.ses = z.ses /\ y.m = k
    BY <1>3, <1>5 DEF Pairs
  <1>7. View(k) = [View(z.m) EXCEPT !.posted = posted]
    BY <1>5 DEF View, Run, SameStates
  <1> QED
    BY <1>4, <1>5, <1>6, <1>7 DEF y

\* The pair after complete_extern_wait.
LEMMA WaitFrame ==
  ASSUME NEW z \in Pairs, NEW error \in Errors
  PROVE  LET y == complete_extern_wait(z, error)
         IN  /\ y \in Pairs /\ y.ses = z.ses /\ SameRest(y.m, z.m)
             /\ y.m.extern_state = z.m.extern_state
             /\ y.m.intern_state = z.m.intern_state
             /\ y.m.stop_handler = z.m.stop_handler /\ y.m.wait_handler = FALSE
             /\ y.m.extern_wait_error = IF z.m.extern_wait_error = "ok" THEN error
                                        ELSE z.m.extern_wait_error
             /\ View(y.m) = Own!Tell(View(z.m), error)
  <1> DEFINE why == IF z.m.extern_wait_error = "ok" THEN error ELSE z.m.extern_wait_error
             k == [z.m EXCEPT !.extern_wait_error = why, !.wait_handler = FALSE]
             q == [z EXCEPT !.m.extern_wait_error = why, !.m.wait_handler = FALSE]
             n == Post(q, "wait", why)
             y == complete_extern_wait(z, error)
             x == View(z.m)
             r == [x EXCEPT !.extern_wait_error = why, !.wait_handler = FALSE]
  <1>1. z.m \in ManagerStates
    BY PairOf
  <1>2. why \in Errors
    BY <1>1 DEF ManagerStates
  <1>3. y = IF z.m.wait_handler THEN n ELSE q
    BY Zenon DEF complete_extern_wait
  <1>4. x.extern_wait_error = z.m.extern_wait_error /\ x.wait_handler = z.m.wait_handler
    BY DEF View
  <1>5. Own!Tell(x, error) = IF z.m.wait_handler THEN Own!Answer(r, "wait", why) ELSE r
    <2> HIDE DEF x
    <2> QED
      BY <1>4, Zenon DEF Own!Tell
  <1> HIDE DEF why
  <1>6. /\ k \in ManagerStates /\ SameRest(k, z.m)
        /\ k.extern_state = z.m.extern_state /\ k.intern_state = z.m.intern_state
        /\ k.stop_handler = z.m.stop_handler /\ k.wait_handler = FALSE
        /\ k.extern_wait_error = why /\ k.posted = z.m.posted
    BY <1>1, <1>2 DEF ManagerStates, SameRest, SameAccept, SameActive, SameCounts
  <1>7. q \in Pairs /\ q.ses = z.ses /\ q.m = k
    <2>1. q = [z EXCEPT !.m = k]
      BY <1>1 DEF Pairs
    <2> HIDE DEF k, q
    <2> QED
      BY <1>6, <2>1 DEF Pairs
  <1> HIDE DEF k, q
  <1>8. View(k) = r
    <2>1. Run(k) = Run(z.m)
      BY <1>6 DEF Run
    <2>2. /\ x \in Views /\ x.extern_state = z.m.extern_state /\ x.run = Run(z.m)
          /\ x.stop_handler = z.m.stop_handler /\ x.posted = z.m.posted
      BY <1>1, ViewOf
    <2> HIDE DEF x
    <2>3. /\ r \in Views /\ r.extern_state = x.extern_state /\ r.run = x.run
          /\ r.extern_wait_error = why /\ r.wait_handler = FALSE
          /\ r.stop_handler = x.stop_handler /\ r.posted = x.posted
      BY <1>2, <2>2 DEF Views
    <2> HIDE DEF r
    <2> QED
      BY <1>6, <2>1, <2>2, <2>3, ViewIs
  <1>9. "wait" \in Api!Calls
    BY DEF Api!Calls
  <1>10. /\ n \in Pairs /\ n.ses = q.ses /\ SameRest(n.m, q.m) /\ SameStates(n.m, q.m)
         /\ View(n.m) = Own!Answer(View(q.m), "wait", why)
    BY <1>2, <1>7, <1>9, PostFrame
  <1> HIDE DEF n, x, r, y
  <1>11. SameRest(n.m, z.m)
    BY <1>6, <1>7, <1>10 DEF SameRest, SameAccept, SameActive, SameCounts
  <1>12. CASE z.m.wait_handler
    BY <1>3, <1>5, <1>6, <1>7, <1>8, <1>10, <1>11, <1>12 DEF SameStates, y, x, why
  <1>13. CASE ~z.m.wait_handler
    BY <1>3, <1>5, <1>6, <1>7, <1>8, <1>13 DEF y, x, why
  <1> QED
    BY <1>12, <1>13

\* The invariant does not depend on what only the user sees.
LEMMA RestCore ==
  ASSUME NEW g, Core(g), NEW y \in Pairs, y.ses = g.ses, SameRest(y.m, g.m),
         \/ y.m.intern_state = g.m.intern_state
         \/ /\ g.m.intern_state = "stop" /\ y.m.intern_state = "stopped"
            /\ g.m.pending_operations = 0
  PROVE  Core(y)
  <1>1. Links(y) /\ Counted(y)
    BY DEF Core, Links, Counted, SameRest, SameAccept, SameActive, SameCounts
  <1>2. Accepts(y)
    BY DEF Core, Accepts, SameRest, SameAccept, SameActive
  <1>3. Stats(y)
    BY DEF Core, Stats, SameRest, SameActive, SameCounts
  <1>4. Walk(y)
    <2>1. CASE y.m.intern_state = g.m.intern_state
      BY <2>1 DEF Core, Walk, Reached, SameRest, SameActive, SameCounts
    <2>2. CASE y.m.intern_state = "stopped" /\ g.m.pending_operations = 0
      <3> DEFINE a == Cardinality(Pending(g.ses))
                 s == Flag(g.m.accepting # NoSession)
      <3>1. a \in Nat /\ s \in Nat
        BY PendingFinite DEF Core, Pairs, Flag
      <3> DEFINE f == Flag(g.m.scheduled)
      <3>2. 0 = s + f + a
        BY <2>2 DEF Core, Counted
      <3>3. g.m.scheduled => f = 1
        BY Zenon DEF Flag
      <3>4. f \in Nat
        BY DEF Flag
      <3> HIDE DEF a, s, f
      <3>5. ~g.m.scheduled
        BY <3>1, <3>2, <3>3, <3>4
      <3> QED
        BY <2>2, <3>5 DEF Walk, SameRest, SameCounts
    <2> QED
      BY <2>1, <2>2
  <1> QED
    BY <1>1, <1>2, <1>3, <1>4 DEF Core

\* When the last pending operation has ended, the manager has stopped, and a stop
\* the user has asked for is answered.
LEMMA ContinueStop ==
  ASSUME NEW g, Core(g), g.m.intern_state = "stop"
  PROVE  LET z == continue_stop(g)
         IN  /\ Core(z) /\ z.ses = g.ses
             /\ \/ z = g
                \/ /\ z.m.intern_state = "stopped" /\ SameRest(z.m, g.m)
                   /\ z.m.extern_wait_error = g.m.extern_wait_error
                   /\ z.m.wait_handler = g.m.wait_handler
                   /\ z.m.extern_state = IF g.m.extern_state = "stop" THEN "stopped"
                                         ELSE g.m.extern_state
                   /\ z.m.stop_handler = IF g.m.extern_state = "stop" THEN FALSE
                                         ELSE g.m.stop_handler
                   /\ View(z.m) = Own!Finish(View(g.m))
  <1> DEFINE z == continue_stop(g)
             x == View(g.m)
             b == [x EXCEPT !.run = "stopped"]
  <1>1. g \in Pairs /\ g.m \in ManagerStates
    BY PairOf DEF Core
  <1>2. /\ x \in Views /\ x.extern_state = g.m.extern_state /\ x.run = Run(g.m)
        /\ x.extern_wait_error = g.m.extern_wait_error
        /\ x.wait_handler = g.m.wait_handler /\ x.stop_handler = g.m.stop_handler
        /\ x.posted = g.m.posted
    BY <1>1, ViewOf
  <1> HIDE DEF x
  <1>3. /\ b \in Views /\ b.extern_state = x.extern_state /\ b.run = "stopped"
        /\ b.extern_wait_error = x.extern_wait_error
        /\ b.wait_handler = x.wait_handler /\ b.stop_handler = x.stop_handler
        /\ b.posted = x.posted
    BY <1>2 DEF Views
  <1>4. CASE g.m.pending_operations # 0
    <2>1. z = g
      BY <1>4 DEF continue_stop
    <2> QED
      BY <2>1
  <1>5. CASE g.m.pending_operations = 0 /\ g.m.extern_state # "stop"
    <2> DEFINE k == [g.m EXCEPT !.intern_state = "stopped"]
    <2>1. z = [g EXCEPT !.m = k]
      BY <1>5, Zenon DEF continue_stop
    <2>2. /\ k \in ManagerStates /\ SameRest(k, g.m) /\ k.intern_state = "stopped"
          /\ k.extern_state = g.m.extern_state
          /\ k.extern_wait_error = g.m.extern_wait_error
          /\ k.wait_handler = g.m.wait_handler /\ k.stop_handler = g.m.stop_handler
          /\ k.posted = g.m.posted
      BY <1>1 DEF ManagerStates, SameRest, SameAccept, SameActive, SameCounts
    <2> HIDE DEF k, z
    <2>3. z \in Pairs /\ z.ses = g.ses /\ z.m = k
      BY <1>1, <2>1, <2>2 DEF Pairs
    <2>4. Own!Finish(x) = b
      BY <1>2, <1>5, Zenon DEF Own!Finish
    <2>5. Run(k) = "stopped"
      BY <2>2 DEF Run
    <2> HIDE DEF b
    <2>6. View(k) = b
      BY <1>2, <1>3, <2>2, <2>5, ViewIs
    <2>7. Core(z)
      BY <1>5, <2>2, <2>3, RestCore
    <2> QED
      BY <1>5, <2>2, <2>3, <2>4, <2>6, <2>7 DEF z, x
  <1>6. CASE g.m.pending_operations = 0 /\ g.m.extern_state = "stop"
    <2> DEFINE k == [g.m EXCEPT !.intern_state = "stopped", !.extern_state = "stopped"]
               q == [g EXCEPT !.m.intern_state = "stopped", !.m.extern_state = "stopped"]
               j == [k EXCEPT !.stop_handler = FALSE]
               p == [q EXCEPT !.m.stop_handler = FALSE]
               n == Post(p, "stop", "ok")
               e == [b EXCEPT !.extern_state = "stopped"]
               h == [b EXCEPT !.extern_state = "stopped", !.stop_handler = FALSE]
    <2>1. z = complete_extern_stop(q, "ok")
      BY <1>6, Zenon DEF continue_stop
    <2>2. z = IF q.m.stop_handler THEN n ELSE q
      BY <2>1, Zenon DEF complete_extern_stop
    <2>3. /\ k \in ManagerStates /\ SameRest(k, g.m) /\ k.intern_state = "stopped"
          /\ k.extern_state = "stopped"
          /\ k.extern_wait_error = g.m.extern_wait_error
          /\ k.wait_handler = g.m.wait_handler /\ k.stop_handler = g.m.stop_handler
          /\ k.posted = g.m.posted
      BY <1>1 DEF ManagerStates, SameRest, SameAccept, SameActive, SameCounts
    <2>4. q \in Pairs /\ q.ses = g.ses /\ q.m = k
      <3>1. q = [g EXCEPT !.m = k]
        BY <1>1 DEF Pairs
      <3> HIDE DEF k, q
      <3> QED
        BY <1>1, <2>3, <3>1 DEF Pairs
    <2> HIDE DEF k, q, z
    <2>5. /\ j \in ManagerStates /\ SameRest(j, k) /\ j.intern_state = "stopped"
          /\ j.extern_state = "stopped"
          /\ j.extern_wait_error = k.extern_wait_error
          /\ j.wait_handler = k.wait_handler /\ j.stop_handler = FALSE
          /\ j.posted = k.posted
      BY <2>3 DEF ManagerStates, SameRest, SameAccept, SameActive, SameCounts
    <2>6. p \in Pairs /\ p.ses = q.ses /\ p.m = j
      <3>1. p = [q EXCEPT !.m = j]
        BY <2>4, Zenon
      <3> HIDE DEF j, p
      <3> QED
        BY <2>4, <2>5, <3>1 DEF Pairs
    <2> HIDE DEF j, p
    <2>7. "stop" \in Api!Calls /\ "ok" \in Errors
      BY DEF Api!Calls, Errors, Api!Errors
    <2>8. /\ n \in Pairs /\ n.ses = p.ses /\ SameRest(n.m, p.m) /\ SameStates(n.m, p.m)
          /\ View(n.m) = Own!Answer(View(p.m), "stop", "ok")
      BY <2>6, <2>7, PostFrame
    <2>9. Own!Finish(x) = IF x.stop_handler THEN Own!Answer(h, "stop", "ok") ELSE e
      BY <1>2, <1>6, Zenon DEF Own!Finish
    <2>10. Run(k) = "stopped" /\ Run(j) = "stopped"
      BY <2>3, <2>5 DEF Run
    <2> HIDE DEF b
    <2>11. View(j) = h
      <3>1. /\ h \in Views /\ h.extern_state = "stopped" /\ h.run = b.run
            /\ h.extern_wait_error = b.extern_wait_error
            /\ h.wait_handler = b.wait_handler /\ h.stop_handler = FALSE
            /\ h.posted = b.posted
        BY <1>3 DEF Views
      <3> HIDE DEF h
      <3> QED
        BY ZenonT(40), <1>2, <1>3, <2>3, <2>5, <2>10, <3>1, ViewIs
    <2>12. View(k) = e
      <3>1. /\ e \in Views /\ e.extern_state = "stopped" /\ e.run = b.run
            /\ e.extern_wait_error = b.extern_wait_error
            /\ e.wait_handler = b.wait_handler /\ e.stop_handler = b.stop_handler
            /\ e.posted = b.posted
        BY <1>3 DEF Views
      <3> HIDE DEF e
      <3> QED
        BY <1>2, <1>3, <2>3, <2>10, <3>1, ViewIs
    <2> HIDE DEF n, e, h
    <2>13. SameRest(n.m, g.m)
      BY <2>3, <2>5, <2>6, <2>8 DEF SameRest, SameAccept, SameActive, SameCounts
    <2>14. CASE g.m.stop_handler
      <3>1. z = n /\ Own!Finish(x) = Own!Answer(h, "stop", "ok")
        BY <1>2, <2>2, <2>3, <2>4, <2>9, <2>14
      <3>2. n.m.intern_state = "stopped" /\ n.ses = g.ses
        BY <2>4, <2>5, <2>6, <2>8 DEF SameStates
      <3>3. Core(z)
        BY <1>6, <2>8, <2>13, <3>1, <3>2, RestCore
      <3>4. /\ n.m.extern_wait_error = g.m.extern_wait_error
            /\ n.m.wait_handler = g.m.wait_handler
            /\ n.m.extern_state = "stopped" /\ n.m.stop_handler = FALSE
        BY <2>3, <2>5, <2>6, <2>8 DEF SameStates
      <3>5. View(n.m) = Own!Finish(x)
        BY <2>6, <2>8, <2>11, <3>1
      <3> QED
        BY <1>6, <2>13, <3>1, <3>2, <3>3, <3>4, <3>5 DEF z, x
    <2>15. CASE ~g.m.stop_handler
      <3>1. z = q /\ Own!Finish(x) = e
        BY <1>2, <2>2, <2>3, <2>4, <2>9, <2>15
      <3>2. Core(z)
        BY <1>6, <2>3, <2>4, <3>1, RestCore
      <3>3. g.m.stop_handler = FALSE
        BY <1>1, <2>15 DEF ManagerStates
      <3> QED
        BY <1>6, <2>3, <2>4, <2>12, <3>1, <3>2, <3>3 DEF z, x
    <2> QED
      BY <2>14, <2>15
  <1> QED
    BY <1>4, <1>5, <1>6

\* Whether the end has begun does not matter to what a wait is told.
LEMMA ToldRun ==
  ASSUME NEW x \in Views, NEW error \in Errors, NEW run \in {"work", "ending", "stopped"}
  PROVE  /\ Own!Tell(x, error) \in Views
         /\ Own!Tell([x EXCEPT !.run = run], error) =
              [Own!Tell(x, error) EXCEPT !.run = run]
  <1> DEFINE why == IF x.extern_wait_error = "ok" THEN error ELSE x.extern_wait_error
             longer == [x.posted EXCEPT !["wait"] = Append(@, why)]
             b == [x EXCEPT !.run = run]
             q == [x EXCEPT !.extern_wait_error = why, !.wait_handler = FALSE]
             r == [b EXCEPT !.extern_wait_error = why, !.wait_handler = FALSE]
  <1>1. why \in Errors /\ "wait" \in Api!Calls
    BY DEF Views, Api!Calls
  <1>2. longer \in [Api!Calls -> Seq(Errors)]
    BY <1>1 DEF Views
  <1>3. /\ b \in Views /\ b.extern_state = x.extern_state /\ b.run = run
        /\ b.extern_wait_error = x.extern_wait_error
        /\ b.wait_handler = x.wait_handler /\ b.stop_handler = x.stop_handler
        /\ b.posted = x.posted
    BY DEF Views
  <1>4. Own!Tell(x, error) = IF x.wait_handler THEN Own!Answer(q, "wait", why) ELSE q
    BY Zenon DEF Own!Tell
  <1> HIDE DEF b
  <1>5. Own!Tell(b, error) = IF x.wait_handler THEN Own!Answer(r, "wait", why) ELSE r
    BY <1>3, Zenon DEF Own!Tell
  <1> HIDE DEF why
  <1>6. q \in Views /\ q.posted = x.posted
    BY <1>1 DEF Views
  <1>7. r = [q EXCEPT !.run = run] /\ r \in Views /\ r.posted = x.posted
    BY <1>1, <1>3 DEF Views, b
  <1> HIDE DEF q, r
  <1>8. /\ Own!Answer(q, "wait", why) = [q EXCEPT !.posted = longer]
        /\ Own!Answer(r, "wait", why) = [r EXCEPT !.posted = longer]
    BY <1>6, <1>7, Zenon DEF Own!Answer
  <1> HIDE DEF longer
  <1>9. /\ [q EXCEPT !.posted = longer] \in Views
        /\ [r EXCEPT !.posted = longer] = [[q EXCEPT !.posted = longer] EXCEPT !.run = run]
    BY <1>2, <1>6, <1>7 DEF Views
  <1>10. CASE x.wait_handler
    BY <1>4, <1>5, <1>8, <1>9, <1>10 DEF b
  <1>11. CASE ~x.wait_handler
    BY <1>4, <1>5, <1>6, <1>7, <1>11 DEF b
  <1> QED
    BY <1>10, <1>11

\* What the user sees of a manager that begins to stop because of the error.
Stopping(a, b, error) ==
  /\ b.intern_state \in {"stop", "stopped"}
  /\ a.extern_state = "work" =>
       /\ b.extern_state = "work" /\ b.stop_handler = a.stop_handler
       /\ b.wait_handler = FALSE
       /\ b.extern_wait_error =
            IF a.extern_wait_error = "ok" THEN error ELSE a.extern_wait_error
  /\ a.extern_state = "stop" =>
       /\ b.wait_handler = a.wait_handler /\ b.extern_wait_error = a.extern_wait_error
       /\ IF b.intern_state = "stop"
          THEN b.extern_state = "stop" /\ b.stop_handler = a.stop_handler
          ELSE b.extern_state = "stopped" /\ b.stop_handler = FALSE

\* The manager begins to stop.
LEMMA StartStop ==
  ASSUME NEW g, Core(g), g.m.intern_state = "work",
         g.m.extern_state \in {"work", "stop"}, NEW error \in Errors,
         NEW reason, g.m.extern_state = "work" => reason = error
  PROVE  LET z == start_stop(g, error)
         IN  /\ Core(z) /\ Keeps(g, z) /\ Stopping(g.m, z.m, error)
             /\ View(z.m) \in Own!Endings(View(g.m), reason)
  <1> DEFINE state == IF g.m.accept_state = "ready" THEN "stopped" ELSE g.m.accept_state
             k == [g.m EXCEPT !.open = FALSE, !.intern_state = "stop",
                              !.accept_state = state]
             q == [close_acceptor(g) EXCEPT
                     !.m.intern_state = "stop",
                     !.m.accept_state = IF @ = "ready" THEN "stopped" ELSE @]
             n == complete_extern_wait(q, error)
             t == IF q.m.extern_state = "work" THEN n ELSE q
             first == IF t.m.active_sessions = <<>> THEN NoSession
                      ELSE Head(t.m.active_sessions)
             s == start_active_session_stop(t, first)
             z == continue_stop(s)
             x == View(g.m)
             b == [x EXCEPT !.run = "ending"]
             o == IF x.extern_state = "work" THEN Own!Tell(x, reason) ELSE x
  <1>1. start_stop(g, error) = z
    BY Zenon DEF start_stop
  <1>2. g \in Pairs /\ g.m \in ManagerStates
    BY PairOf DEF Core
  <1>3. state \in {"ready", "in_progress", "stopped"} /\ state # "ready"
        /\ (state = "in_progress" <=> g.m.accept_state = "in_progress")
    BY <1>2 DEF ManagerStates
  <1>4. q = [g EXCEPT !.m = k]
    <2>1. close_acceptor(g) = [g EXCEPT !.m = [g.m EXCEPT !.open = FALSE]]
      BY Zenon DEF close_acceptor
    <2> DEFINE j == [g.m EXCEPT !.open = FALSE]
               p == [g EXCEPT !.m = j]
    <2>2. j \in ManagerStates /\ j.accept_state = g.m.accept_state
      BY <1>2 DEF ManagerStates
    <2>3. k = [j EXCEPT !.intern_state = "stop", !.accept_state = state]
      BY Zenon
    <2> HIDE DEF j
    <2>4. p \in Pairs /\ p.m = j /\ p.ses = g.ses
      BY <1>2, <2>2 DEF Pairs
    <2>5. q = [p EXCEPT !.m.intern_state = "stop",
                        !.m.accept_state = IF @ = "ready" THEN "stopped" ELSE @]
      BY <2>1, Zenon DEF j
    <2> HIDE DEF p, k
    <2>6. q = [p EXCEPT !.m = k]
      BY <2>2, <2>3, <2>4, <2>5 DEF Pairs
    <2> QED
      BY <1>2, <2>4, <2>6 DEF p, Pairs
  <1> HIDE DEF state
  <1>5. /\ k \in ManagerStates /\ k.open = FALSE /\ k.intern_state = "stop"
        /\ k.accept_state = state /\ k.accepting = g.m.accepting
        /\ k.accept_error = g.m.accept_error
        /\ SameActive(k, g.m) /\ SameCounts(k, g.m)
        /\ k.recycled_sessions = g.m.recycled_sessions
        /\ k.extern_state = g.m.extern_state
        /\ k.extern_wait_error = g.m.extern_wait_error
        /\ k.wait_handler = g.m.wait_handler /\ k.stop_handler = g.m.stop_handler
        /\ k.posted = g.m.posted
    BY <1>2, <1>3 DEF ManagerStates, SameActive, SameCounts
  <1> HIDE DEF k, q
  <1>6. q \in Pairs /\ q.ses = g.ses /\ q.m = k
    BY <1>2, <1>4, <1>5 DEF Pairs
  <1>7. /\ n \in Pairs /\ n.ses = q.ses /\ SameRest(n.m, q.m)
        /\ n.m.extern_state = q.m.extern_state
        /\ n.m.intern_state = q.m.intern_state
        /\ n.m.stop_handler = q.m.stop_handler /\ n.m.wait_handler = FALSE
        /\ n.m.extern_wait_error = IF q.m.extern_wait_error = "ok" THEN error
                                   ELSE q.m.extern_wait_error
        /\ View(n.m) = Own!Tell(View(q.m), error)
    BY <1>6, WaitFrame
  <1> HIDE DEF n
  <1>8. /\ t \in Pairs /\ t.ses = g.ses /\ SameRest(t.m, k)
        /\ t.m.extern_state = g.m.extern_state /\ t.m.intern_state = "stop"
        /\ t.m.stop_handler = g.m.stop_handler
        /\ g.m.extern_state = "work" =>
             /\ t.m.wait_handler = FALSE
             /\ t.m.extern_wait_error = IF g.m.extern_wait_error = "ok" THEN error
                                        ELSE g.m.extern_wait_error
        /\ g.m.extern_state = "stop" =>
             /\ t.m.wait_handler = g.m.wait_handler
             /\ t.m.extern_wait_error = g.m.extern_wait_error
    <2>1. CASE g.m.extern_state = "work"
      BY <1>5, <1>6, <1>7, <2>1
    <2>2. CASE g.m.extern_state = "stop"
      BY <1>5, <1>6, <2>2 DEF SameRest, SameAccept, SameActive, SameCounts
    <2> QED
      BY <2>1, <2>2
  <1>9. View(t.m) = [o EXCEPT !.run = "ending"]
    <2>1. /\ x \in Views /\ x.extern_state = g.m.extern_state /\ x.run = Run(g.m)
          /\ x.extern_wait_error = g.m.extern_wait_error
          /\ x.wait_handler = g.m.wait_handler /\ x.stop_handler = g.m.stop_handler
          /\ x.posted = g.m.posted
      BY <1>2, ViewOf
    <2> HIDE DEF x
    <2>2. /\ b \in Views /\ b.extern_state = x.extern_state /\ b.run = "ending"
          /\ b.extern_wait_error = x.extern_wait_error
          /\ b.wait_handler = x.wait_handler /\ b.stop_handler = x.stop_handler
          /\ b.posted = x.posted
      BY <2>1 DEF Views
    <2>3. Run(k) = "ending"
      BY <1>5 DEF Run
    <2>4. b = [x EXCEPT !.run = "ending"]
      OBVIOUS
    <2> HIDE DEF b
    <2>5. View(k) = b
      BY <1>5, <2>1, <2>2, <2>3, ViewIs
    <2>6. CASE g.m.extern_state = "work"
      <3>1. View(t.m) = Own!Tell(b, error) /\ o = Own!Tell(x, error)
        BY <1>5, <1>6, <1>7, <2>1, <2>5, <2>6
      <3>2. Own!Tell(b, error) = [Own!Tell(x, error) EXCEPT !.run = "ending"]
        BY <2>1, <2>4, ToldRun
      <3> HIDE DEF o
      <3> QED
        BY <3>1, <3>2
    <2>7. CASE g.m.extern_state = "stop"
      BY <1>5, <1>6, <2>1, <2>4, <2>5, <2>7
    <2> QED
      BY <2>6, <2>7
  <1> HIDE DEF t, o, x, b
  <1>10. /\ t.m.active_sessions = g.m.active_sessions
         /\ t.m.active_sessions \in Seq(Wrappers) /\ NoSession \notin Wrappers
         /\ t.m.scheduled = FALSE
    <2>1. t.m.active_sessions = g.m.active_sessions /\ t.m.scheduled = g.m.scheduled
      BY <1>5, <1>8 DEF SameRest, SameActive, SameCounts
    <2>2. ~g.m.scheduled /\ g.m.scheduled \in BOOLEAN
      BY <1>2 DEF Core, Walk, ManagerStates
    <2> QED
      BY <1>8, <2>1, <2>2, PairOf, ManagerAssumption DEF ManagerStates
  <1>11. /\ first \in Wrappers \cup {NoSession}
         /\ first # NoSession => first \in ToSet(t.m.active_sessions)
         /\ \A i \in 1 .. Len(t.m.active_sessions) :
              \/ t.ses[t.m.active_sessions[i]].state = "stop"
              \/ \E j \in 1 .. i : t.m.active_sessions[j] = first
    <2> DEFINE list == t.m.active_sessions
    <2>1. list \in Seq(Wrappers)
      BY <1>10
    <2>2. CASE list = <<>>
      BY <2>1, <2>2
    <2>3. CASE list # <<>>
      <3>1. Head(list) = list[1] /\ 1 \in 1 .. Len(list) /\ list[1] \in Wrappers
        BY <2>1, <2>3
      <3>2. first = list[1]
        BY <2>3, <3>1
      <3>3. first \in ToSet(list)
        BY <2>1, <3>1, <3>2 DEF ToSet
      <3>4. \A i \in 1 .. Len(list) : 1 \in 1 .. i
        BY <2>1
      <3> QED
        BY <3>1, <3>2, <3>3, <3>4
    <2> QED
      BY <2>2, <2>3
  <1> HIDE DEF first
  <1>12. /\ \A w \in Wrappers : WrapperSound(t.ses[w])
         /\ Links(t) /\ Counted(t) /\ Accepts(t) /\ Stats(t)
    <2>1. /\ t.m.accepting = g.m.accepting /\ t.m.accept_state = state
          /\ SameActive(t.m, g.m) /\ SameCounts(t.m, g.m)
          /\ t.m.recycled_sessions = g.m.recycled_sessions
      BY <1>5, <1>8 DEF SameRest, SameAccept, SameActive, SameCounts
    <2>2. Links(t) /\ Counted(t)
      BY <1>8, <2>1 DEF Core, Links, Counted, SameActive, SameCounts
    <2>3. Accepts(t)
      BY <1>3, <1>8, <2>1 DEF Core, Accepts, SameActive
    <2>4. Stats(t)
      BY <1>8, <2>1 DEF Core, Stats, SameActive, SameCounts
    <2> QED
      BY <1>8, <2>2, <2>3, <2>4 DEF Core
  <1>13. Core(s) /\ SameUser(s.m, t.m) /\ Keeps(t, s)
    BY <1>8, <1>10, <1>11, <1>12, StepCore
  <1> HIDE DEF s
  <1>14. s.m.intern_state = "stop" /\ View(s.m) = View(t.m)
    BY <1>8, <1>13 DEF SameUser, View, Run
  <1>15. /\ Core(z) /\ z.ses = s.ses
         /\ \/ z = s
            \/ /\ z.m.intern_state = "stopped" /\ SameRest(z.m, s.m)
               /\ z.m.extern_wait_error = s.m.extern_wait_error
               /\ z.m.wait_handler = s.m.wait_handler
               /\ z.m.extern_state = IF s.m.extern_state = "stop" THEN "stopped"
                                     ELSE s.m.extern_state
               /\ z.m.stop_handler = IF s.m.extern_state = "stop" THEN FALSE
                                     ELSE s.m.stop_handler
               /\ View(z.m) = Own!Finish(View(s.m))
    BY <1>13, <1>14, ContinueStop
  <1> HIDE DEF z
  <1>16. Keeps(g, z)
    BY <1>8, <1>13, <1>15 DEF Keeps
  <1>17. Stopping(g.m, z.m, error)
    <2>1. CASE z = s
      BY <1>8, <1>13, <1>14, <2>1 DEF Stopping, SameUser
    <2>2. CASE z # s
      BY <1>8, <1>13, <1>14, <1>15, <2>2 DEF Stopping, SameUser
    <2> QED
      BY <2>1, <2>2
  <1>18. View(z.m) \in Own!Endings(View(g.m), reason)
    <2>1. Own!Endings(x, reason) =
            {[o EXCEPT !.run = "ending"], Own!Finish([o EXCEPT !.run = "ending"])}
      BY Zenon DEF Own!Endings, o
    <2>2. View(z.m) \in {View(s.m), Own!Finish(View(s.m))}
      BY <1>15
    <2> QED
      BY <1>9, <1>14, <2>1, <2>2 DEF x
  <1> QED
    BY <1>1, <1>15, <1>16, <1>17, <1>18

\* What the user sees of a manager that goes on with its stop.
Ends(a, b) ==
  \/ SameUser(b, a)
  \/ /\ b.intern_state = "stopped"
     /\ b.extern_wait_error = a.extern_wait_error /\ b.wait_handler = a.wait_handler
     /\ b.extern_state = IF a.extern_state = "stop" THEN "stopped" ELSE a.extern_state
     /\ b.stop_handler = IF a.extern_state = "stop" THEN FALSE ELSE a.stop_handler
     /\ View(b) = Own!Finish(View(a))

\* A stop with nothing pending ends, and goes on otherwise.
LEMMA StopGoesOn ==
  ASSUME NEW g, Core(g), g.m.intern_state = "stop"
  PROVE  LET z == continue_stop(g) IN Core(z) /\ z.ses = g.ses /\ Ends(g.m, z.m)
  <1> DEFINE z == continue_stop(g)
  <1>1. /\ Core(z) /\ z.ses = g.ses
        /\ \/ z = g
           \/ /\ z.m.intern_state = "stopped" /\ SameRest(z.m, g.m)
              /\ z.m.extern_wait_error = g.m.extern_wait_error
              /\ z.m.wait_handler = g.m.wait_handler
              /\ z.m.extern_state = IF g.m.extern_state = "stop" THEN "stopped"
                                    ELSE g.m.extern_state
              /\ z.m.stop_handler = IF g.m.extern_state = "stop" THEN FALSE
                                    ELSE g.m.stop_handler
              /\ View(z.m) = Own!Finish(View(g.m))
    BY ContinueStop
  <1> HIDE DEF z
  <1>2. CASE z = g
    BY <1>1, <1>2 DEF Ends, SameUser, z
  <1>3. CASE z # g
    BY <1>1, <1>3 DEF Ends, z
  <1> QED
    BY <1>2, <1>3

\* A scheduled step of the walk.
LEMMA ScheduledCore ==
  ASSUME NEW g, Core(g), g.m.scheduled
  PROVE  LET z == handle_scheduled_active_session_stop(g)
         IN  Core(z) /\ Keeps(g, z) /\ Ends(g.m, z.m) /\ z.m.intern_state # "work"
  <1> DEFINE n == g.m.pending_operations
             p == n - 1
             k == [g.m EXCEPT !.scheduled = FALSE, !.pending_operations = p]
             d == [g EXCEPT !.m.scheduled = FALSE, !.m.pending_operations = @ - 1]
             begin == g.m.stopping_sessions_end
             s == start_active_session_stop(d, begin)
             z == continue_stop(s)
             a == Cardinality(Pending(g.ses))
             c == Flag(g.m.accepting # NoSession)
             list == g.m.active_sessions
  <1>1. handle_scheduled_active_session_stop(g) = z
    BY Zenon DEF handle_scheduled_active_session_stop
  <1>2. /\ g \in Pairs /\ g.m \in ManagerStates /\ n \in Nat
        /\ g.ses \in [Wrappers -> WrapperStates] /\ list \in Seq(Wrappers)
        /\ begin \in Wrappers \cup {NoSession} /\ NoSession \notin Wrappers
    BY PairOf, ManagerAssumption DEF Core, ManagerStates
  <1>3. a \in Nat /\ c \in Nat /\ n = c + 1 + a
    BY <1>2, PendingFinite DEF Core, Counted, Flag
  <1> HIDE DEF n, a, c
  <1>4. p \in Nat /\ p = c + 0 + a
    BY <1>2, <1>3
  <1>5. d = [g EXCEPT !.m = k]
    BY <1>2 DEF Pairs, n
  <1> HIDE DEF p
  <1>6. /\ k \in ManagerStates /\ k.scheduled = FALSE /\ k.pending_operations = p
        /\ SameUser(k, g.m) /\ SameAccept(k, g.m) /\ SameActive(k, g.m)
        /\ k.recycled_sessions = g.m.recycled_sessions
        /\ k.total_accepted = g.m.total_accepted /\ k.stopped = g.m.stopped
    BY <1>2, <1>4 DEF ManagerStates, SameUser, SameAccept, SameActive
  <1> HIDE DEF k, d
  <1>7. d \in Pairs /\ d.ses = g.ses /\ d.m = k
    BY <1>2, <1>5, <1>6 DEF Pairs
  <1>8. /\ Walk(g) /\ Links(g) /\ g.m.intern_state = "stop"
        /\ begin = NoSession \/ begin \in ToSet(list)
        /\ \A i \in 1 .. Len(list) : Reached(g, i)
    BY DEF Core, Walk
  <1>9. /\ d.m.active_sessions = list /\ d.m.intern_state = "stop"
        /\ d.m.scheduled = FALSE
    BY <1>6, <1>7, <1>8 DEF SameActive, SameUser
  <1>10. \A i \in 1 .. Len(list) : \/ d.ses[list[i]].state = "stop"
                                   \/ \E j \in 1 .. i : list[j] = begin
    BY <1>7, <1>8 DEF Reached
  <1>11. Links(d)
    BY <1>6, <1>7, <1>8 DEF Links, SameAccept, SameActive
  <1>12. Counted(d)
    BY <1>4, <1>6, <1>7 DEF Counted, SameAccept, Flag, a, c
  <1>13. Accepts(d)
    BY <1>6, <1>7 DEF Core, Accepts, SameAccept, SameActive, SameUser
  <1>14. Stats(d)
    BY <1>6, <1>7 DEF Core, Stats, SameActive, SameUser
  <1>15. \A w \in Wrappers : WrapperSound(d.ses[w])
    BY <1>7 DEF Core
  <1> HIDE DEF begin
  <1>16. begin # NoSession => begin \in ToSet(d.m.active_sessions)
    BY <1>8, <1>9
  <1> HIDE DEF list
  <1>17. \A i \in 1 .. Len(d.m.active_sessions) :
           \/ d.ses[d.m.active_sessions[i]].state = "stop"
           \/ \E j \in 1 .. i : d.m.active_sessions[j] = begin
    BY <1>9, <1>10
  <1>18. Core(s) /\ SameUser(s.m, d.m) /\ Keeps(d, s)
    BY <1>2, <1>7, <1>9, <1>11, <1>12, <1>13, <1>14, <1>15, <1>16, <1>17, StepCore
  <1> HIDE DEF s
  <1>19. SameUser(s.m, g.m) /\ s.m.intern_state = "stop"
    BY <1>6, <1>7, <1>8, <1>18 DEF SameUser
  <1>20. Core(z) /\ z.ses = s.ses /\ Ends(s.m, z.m)
    BY <1>18, <1>19, StopGoesOn
  <1> HIDE DEF z
  <1>21. Keeps(g, z)
    BY <1>7, <1>18, <1>20 DEF Keeps
  <1>22. View(s.m) = View(g.m)
    BY <1>19 DEF SameUser, View, Run
  <1>23. Ends(g.m, z.m)
    <2>1. CASE SameUser(z.m, s.m)
      BY <1>19, <2>1 DEF Ends, SameUser
    <2>2. CASE ~SameUser(z.m, s.m)
      BY <1>19, <1>20, <1>22, <2>2 DEF Ends, SameUser
    <2> QED
      BY <2>1, <2>2
  <1>24. z.m.intern_state # "work"
    BY <1>19, <1>20 DEF Ends, SameUser
  <1> QED
    BY <1>1, <1>20, <1>21, <1>23, <1>24

-----------------------------------------------------------------------------
(***************************************************************************)
(* The work.                                                                *)
(***************************************************************************)
\* Something will wake up a manager that works.
Awake(g) ==
  g.m.intern_state = "work" => g.m.accepting # NoSession \/ g.m.active_sessions # <<>>

\* What the user sees of a manager that goes on with its work, or ends it.
Works(a, b) ==
  \/ SameUser(b, a)
  \/ Stopping(a, b, "error") /\ View(b) \in Own!Endings(View(a), "error")

\* No accept is started any more.
LEMMA StopAccept ==
  ASSUME NEW g, Core(g), g.m.intern_state = "work", g.m.extern_state = "work",
         g.m.accept_state # "in_progress"
  PROVE  LET z == stop_accept(g, "error")
         IN  Core(z) /\ Keeps(g, z) /\ Awake(z) /\ Works(g.m, z.m)
  <1> DEFINE k == [g.m EXCEPT !.accept_state = "stopped", !.accept_error = "error"]
             q == [g EXCEPT !.m.accept_state = "stopped", !.m.accept_error = "error"]
             s == start_stop(q, "error")
             z == stop_accept(g, "error")
  <1>1. z = IF q.m.active_sessions = <<>> THEN s ELSE q
    BY Zenon DEF stop_accept
  <1>2. g \in Pairs /\ g.m \in ManagerStates /\ "error" \in Errors
    BY PairOf DEF Core, Errors, Api!Errors
  <1>3. q = [g EXCEPT !.m = k]
    BY <1>2 DEF Pairs
  <1>4. /\ k \in ManagerStates /\ k.accept_state = "stopped" /\ k.accept_error = "error"
        /\ k.accepting = g.m.accepting /\ k.open = g.m.open
        /\ k.recycled_sessions = g.m.recycled_sessions
        /\ SameUser(k, g.m) /\ SameActive(k, g.m) /\ SameCounts(k, g.m)
    BY <1>2 DEF ManagerStates, SameUser, SameActive, SameCounts
  <1> HIDE DEF k, q
  <1>5. q \in Pairs /\ q.ses = g.ses /\ q.m = k
    BY <1>2, <1>3, <1>4 DEF Pairs
  <1>6. Core(q)
    <2>1. Links(q) /\ Counted(q)
      BY <1>4, <1>5 DEF Core, Links, Counted, SameActive, SameCounts
    <2>2. Accepts(q)
      BY <1>4, <1>5 DEF Core, Accepts, SameActive, SameUser
    <2>3. Walk(q)
      BY <1>4, <1>5 DEF Core, Walk, Reached, SameActive, SameCounts, SameUser
    <2>4. Stats(q)
      BY <1>4, <1>5 DEF Core, Stats, SameActive, SameCounts, SameUser
    <2> QED
      BY <1>5, <2>1, <2>2, <2>3, <2>4 DEF Core
  <1>7. /\ View(q.m) = View(g.m) /\ q.m.intern_state = "work"
        /\ q.m.extern_state = "work"
    BY <1>4, <1>5 DEF SameUser, View, Run
  <1>8. /\ Core(s) /\ Keeps(q, s) /\ Stopping(q.m, s.m, "error")
        /\ View(s.m) \in Own!Endings(View(q.m), "error")
    BY <1>2, <1>6, <1>7, StartStop
  <1> HIDE DEF s, z
  <1>9. CASE q.m.active_sessions = <<>>
    <2>1. z = s
      BY <1>1, <1>9
    <2>2. Stopping(g.m, s.m, "error")
      BY <1>4, <1>5, <1>8 DEF Stopping, SameUser
    <2>3. Keeps(g, s)
      BY <1>5, <1>8 DEF Keeps
    <2>4. Awake(s)
      BY <1>8 DEF Awake, Stopping
    <2> QED
      BY <1>7, <1>8, <2>1, <2>2, <2>3, <2>4 DEF Works, z
  <1>10. CASE q.m.active_sessions # <<>>
    <2>1. z = q
      BY <1>1, <1>10
    <2>2. Keeps(g, q) /\ Awake(q) /\ Works(g.m, q.m)
      BY <1>4, <1>5, <1>10 DEF Keeps, Awake, Works
    <2> QED
      BY <1>6, <2>1, <2>2 DEF z
  <1> QED
    BY <1>9, <1>10

\* The wrapper of the next accept is a cached one or a new one: it is free and in
\* no list any more.
LEMMA NextWrapper ==
  ASSUME NEW g, Core(g), NEW f, CanCreate(g, f)
  PROVE  LET list == g.m.recycled_sessions
             w == IF list # <<>> THEN Head(list) ELSE CHOOSE x \in NewWrappers(g) : TRUE
             r == IF list # <<>> THEN Erased(list, w) ELSE list
         IN  /\ w \in Wrappers /\ g.ses[w] = Detached /\ r \in Seq(Wrappers)
             /\ Distinct(r) /\ w \notin ToSet(r)
             /\ \A x \in ToSet(r) : x \in ToSet(list)
  <1> DEFINE list == g.m.recycled_sessions
             n == CHOOSE x \in NewWrappers(g) : TRUE
  <1>1. /\ list \in Seq(Wrappers) /\ Distinct(list) /\ g \in Pairs
        /\ \A x \in ToSet(list) : ~g.ses[x].attached
    BY PairOf DEF Core, Links, ManagerStates
  <1>2. \A x \in Wrappers : ~g.ses[x].attached => g.ses[x] = Detached
    BY DEF Core, WrapperSound
  <1>3. CASE list # <<>>
    <2> DEFINE w == Head(list)
               r == Erased(list, w)
    <2>1. w = list[1] /\ 1 \in 1 .. Len(list) /\ list[1] \in Wrappers
      BY <1>1, <1>3
    <2>2. w \in ToSet(list)
      BY <1>1, <2>1 DEF ToSet
    <2>3. ErasedFrom(list, w, r) /\ Distinct(r) /\ ToSet(r) = ToSet(list) \ {w}
      BY <1>1, <2>2, ErasedAt
    <2>4. r \in Seq(Wrappers)
      BY <2>3 DEF ErasedFrom
    <2>5. w \in Wrappers /\ g.ses[w] = Detached
      BY <1>1, <1>2, <2>1, <2>2
    <2> HIDE DEF w, r, list
    <2>6. \A x \in ToSet(r) : x \in ToSet(list)
      BY <2>3
    <2>7. w \notin ToSet(r)
      BY <2>3
    <2> QED
      BY <1>3, <2>3, <2>4, <2>5, <2>6, <2>7 DEF w, r, list
  <1>4. CASE list = <<>>
    <2>1. NewWrappers(g) # {}
      BY <1>4 DEF CanCreate
    <2>2. n \in NewWrappers(g)
      BY <2>1
    <2> HIDE DEF n
    <2>3. n \in Wrappers /\ ~g.ses[n].attached /\ n \notin ToSet(list)
      BY <2>2 DEF NewWrappers
    <2>4. g.ses[n] = Detached
      BY <1>2, <2>3
    <2> QED
      BY <1>1, <1>4, <2>3, <2>4 DEF n
  <1> QED
    BY <1>3, <1>4

\* A wrapper that was just given a session.
Attached == [Detached EXCEPT !.attached = TRUE]

\* The pair after an accept was started.
LEMMA AcceptFrame ==
  ASSUME NEW g, Core(g), NEW f, CanCreate(g, f)
  PROVE  LET z == AcceptNext(g)
         IN  \E w \in Wrappers :
               /\ z \in Pairs /\ g.ses[w] = Detached
               /\ z.ses = [g.ses EXCEPT ![w] = Attached]
               /\ z.m.recycled_sessions \in Seq(Wrappers)
               /\ Distinct(z.m.recycled_sessions)
               /\ w \notin ToSet(z.m.recycled_sessions)
               /\ \A x \in ToSet(z.m.recycled_sessions) : x \in ToSet(g.m.recycled_sessions)
               /\ z.m.accepting = w /\ z.m.accept_state = "in_progress"
               /\ z.m.open = g.m.open
               /\ z.m.pending_operations = g.m.pending_operations + 1
               /\ z.m.scheduled = g.m.scheduled
               /\ z.m.total_accepted = g.m.total_accepted /\ z.m.stopped = g.m.stopped
               /\ SameUser(z.m, g.m) /\ SameActive(z.m, g.m)
  <1> DEFINE list == g.m.recycled_sessions
             cached == list # <<>>
             w == IF cached THEN Head(list) ELSE CHOOSE x \in NewWrappers(g) : TRUE
             r == IF cached THEN Erased(list, w) ELSE list
             q == IF cached THEN remove_from_recycled(g, w) ELSE g
             a == attach(q, w)
             e == [a EXCEPT !.m.accept_error = "ok"]
             z == AcceptNext(g)
             p == g.m.pending_operations + 1
             j == [g.m EXCEPT !.recycled_sessions = r]
             h == [j EXCEPT !.accept_error = "ok"]
             k == [h EXCEPT !.accepting = w, !.accept_state = "in_progress",
                            !.pending_operations = p]
  <1>1. z = start_accept_session(e, w)
    BY Zenon DEF AcceptNext
  <1>2. /\ g \in Pairs /\ g.m \in ManagerStates /\ g.ses \in [Wrappers -> WrapperStates]
        /\ p \in Nat /\ "ok" \in Errors
    BY PairOf DEF Core, ManagerStates, Errors, Api!Errors
  <1>3. /\ w \in Wrappers /\ g.ses[w] = Detached /\ r \in Seq(Wrappers)
        /\ Distinct(r) /\ w \notin ToSet(r)
        /\ \A x \in ToSet(r) : x \in ToSet(list)
    BY NextWrapper
  <1>4. q \in Pairs /\ q.m = j /\ q.ses = g.ses
    <2>1. CASE cached
      <3>1. q = [g EXCEPT !.m = [g.m EXCEPT !.recycled_sessions = Erased(list, w)]]
        BY <2>1, Zenon DEF remove_from_recycled
      <3>2. r = Erased(list, w)
        BY <2>1, Zenon
      <3> HIDE DEF w, r, q
      <3>3. q = [g EXCEPT !.m = j]
        BY <3>1, <3>2, Zenon
      <3>4. j \in ManagerStates
        BY <1>2, <1>3 DEF ManagerStates
      <3> HIDE DEF j
      <3> QED
        BY <1>2, <3>3, <3>4 DEF Pairs
    <2>2. CASE ~cached
      <3>1. q = g /\ r = list
        BY <2>2, Zenon
      <3> HIDE DEF w, r, q
      <3>2. j = g.m
        BY <1>2, <3>1 DEF ManagerStates
      <3> QED
        BY <1>2, <3>1, <3>2
    <2> QED
      BY <2>1, <2>2
  <1> HIDE DEF w, r, q, p
  <1>5. /\ j \in ManagerStates /\ j.recycled_sessions = r
        /\ j.pending_operations = g.m.pending_operations
        /\ j.scheduled = g.m.scheduled /\ j.open = g.m.open
        /\ j.total_accepted = g.m.total_accepted /\ j.stopped = g.m.stopped
        /\ SameUser(j, g.m) /\ SameActive(j, g.m)
    BY <1>2, <1>3 DEF ManagerStates, SameUser, SameActive
  <1> HIDE DEF j
  <1>6. /\ h \in ManagerStates /\ h.recycled_sessions = r
        /\ h.pending_operations = g.m.pending_operations
        /\ h.scheduled = g.m.scheduled /\ h.open = g.m.open
        /\ h.total_accepted = g.m.total_accepted /\ h.stopped = g.m.stopped
        /\ SameUser(h, g.m) /\ SameActive(h, g.m)
    BY <1>2, <1>5 DEF ManagerStates, SameUser, SameActive
  <1> DEFINE vs == [g.ses EXCEPT ![w] = Attached]
  <1>7. vs \in [Wrappers -> WrapperStates]
    <2>1. Attached \in WrapperStates
      BY FreshSound DEF Attached, WrapperSound
    <2> QED
      BY <1>2, <2>1
  <1>8. a \in Pairs /\ a.m = j /\ a.ses = vs
    <2>1. a = [q EXCEPT !.ses = vs]
      BY <1>4, Zenon DEF attach, Attached
    <2> HIDE DEF a, vs
    <2> QED
      BY <1>4, <1>7, <2>1 DEF Pairs
  <1> HIDE DEF a, vs
  <1>9. e \in Pairs /\ e.m = h /\ e.ses = vs
    <2>1. e = [a EXCEPT !.m = h]
      BY <1>8, Zenon
    <2> HIDE DEF e, h
    <2> QED
      BY <1>6, <1>8, <2>1 DEF Pairs
  <1> HIDE DEF e, h
  <1>10. /\ k \in ManagerStates /\ k.recycled_sessions = r
         /\ k.accepting = w /\ k.accept_state = "in_progress"
         /\ k.pending_operations = p
         /\ k.scheduled = h.scheduled /\ k.open = h.open
         /\ k.total_accepted = h.total_accepted /\ k.stopped = h.stopped
         /\ SameUser(k, h) /\ SameActive(k, h)
    BY <1>2, <1>3, <1>6 DEF ManagerStates, SameUser, SameActive
  <1>11. z \in Pairs /\ z.m = k /\ z.ses = vs
    <2>1. z = [e EXCEPT !.m.accepting = w, !.m.accept_state = "in_progress",
                        !.m.pending_operations = @ + 1]
      BY <1>1, Zenon DEF start_accept_session
    <2> HIDE DEF z
    <2>2. z = [e EXCEPT !.m = k]
      BY <1>6, <1>9, <2>1 DEF Pairs, p
    <2> HIDE DEF k
    <2> QED
      BY <1>9, <1>10, <2>2 DEF Pairs
  <1> HIDE DEF k, z
  <1>12. SameUser(z.m, g.m) /\ SameActive(z.m, g.m)
    BY <1>6, <1>10, <1>11 DEF SameUser, SameActive
  <1>13. /\ z.m.recycled_sessions = r /\ z.m.accepting = w
         /\ z.m.accept_state = "in_progress" /\ z.m.pending_operations = p
         /\ z.m.scheduled = g.m.scheduled /\ z.m.open = g.m.open
         /\ z.m.total_accepted = g.m.total_accepted /\ z.m.stopped = g.m.stopped
    BY <1>6, <1>10, <1>11
  <1> HIDE DEF list
  <1> QED
    BY <1>3, <1>11, <1>12, <1>13, Zenon DEF z, vs, p, list

\* Sessions are only taken on.
Grows(g, y) == \A w \in Wrappers : g.ses[w].attached => y.ses[w].attached

\* The next accept is started.
LEMMA AcceptCore ==
  ASSUME NEW g, Core(g), g.m.intern_state = "work", g.m.accept_state = "ready",
         g.m.open, ~Full(g), NEW f, CanCreate(g, f)
  PROVE  LET z == AcceptNext(g)
         IN  Core(z) /\ Grows(g, z) /\ Awake(z) /\ SameUser(z.m, g.m)
  <1> DEFINE z == AcceptNext(g)
  <1>1. PICK w \in Wrappers :
               /\ z \in Pairs /\ g.ses[w] = Detached
               /\ z.ses = [g.ses EXCEPT ![w] = Attached]
               /\ z.m.recycled_sessions \in Seq(Wrappers)
               /\ Distinct(z.m.recycled_sessions)
               /\ w \notin ToSet(z.m.recycled_sessions)
               /\ \A x \in ToSet(z.m.recycled_sessions) : x \in ToSet(g.m.recycled_sessions)
               /\ z.m.accepting = w /\ z.m.accept_state = "in_progress"
               /\ z.m.open = g.m.open
               /\ z.m.pending_operations = g.m.pending_operations + 1
               /\ z.m.scheduled = g.m.scheduled
               /\ z.m.total_accepted = g.m.total_accepted /\ z.m.stopped = g.m.stopped
               /\ SameUser(z.m, g.m) /\ SameActive(z.m, g.m)
    BY AcceptFrame
  <1> HIDE DEF z
  <1>2. /\ g \in Pairs /\ g.ses \in [Wrappers -> WrapperStates]
        /\ NoSession \notin Wrappers /\ Links(g)
    BY PairOf, ManagerAssumption DEF Core
  <1>3. g.m.accepting = NoSession
    BY DEF Core, Accepts
  <1>4. /\ WrapperSound(Attached) /\ Attached.pending_operations = 0
        /\ Attached.state = "ready" /\ Attached.attached /\ ~Open(Attached)
    BY FreshSound DEF Attached, Detached, Open, Api!Calls
  <1>5. /\ Detached.pending_operations = 0 /\ Detached.state = "ready"
        /\ ~Open(Detached) /\ ~Detached.attached
    BY FreshSound DEF Detached, Open, Api!Calls
  <1>6. Links(z)
    <2>1. z.m.active_sessions = g.m.active_sessions
      BY <1>1 DEF SameActive
    <2>2. /\ \A x \in Wrappers : x # w =>
               /\ x \in ToSet(z.m.active_sessions) <=> x \in ToSet(g.m.active_sessions)
               /\ x \in ToSet(z.m.recycled_sessions) => x \in ToSet(g.m.recycled_sessions)
          /\ Distinct(z.m.active_sessions)
      BY <1>1, <1>2, <2>1 DEF Links
    <2>3. w \in ToSet(z.m.active_sessions) <=> Attached.state \in Busy
      BY <1>1, <1>2, <1>4, <1>5, <2>1 DEF Links, Busy
    <2> QED
      BY <1>1, <1>2, <1>3, <1>4, <2>2, <2>3, LinksMove
  <1>7. Counted(z)
    BY <1>1, <1>2, <1>3, <1>4, <1>5, CountedMove DEF Core
  <1>8. Accepts(z)
    <2> DEFINE n == Len(g.m.active_sessions)
    <2>1. n \in Nat /\ MaxSessionCount \in Nat /\ ~(n >= MaxSessionCount)
      BY <1>2, PairOf, ManagerAssumption DEF ManagerStates, Full
    <2>2. z.m.active_sessions = g.m.active_sessions
      BY <1>1 DEF SameActive
    <2>3. n <= MaxSessionCount /\ n < MaxSessionCount
      BY <2>1
    <2> QED
      BY <1>1, <1>2, <2>2, <2>3 DEF Accepts
  <1>9. Walk(z)
    BY <1>1, WalkAtWork DEF Core, SameUser
  <1>10. Stats(z)
    <2>1. Open(Attached) <=> Open(g.ses[w])
      BY <1>1, <1>4, <1>5
    <2>2. /\ Stats(g) /\ z.m.intern_state = g.m.intern_state
          /\ Len(z.m.active_sessions) <= z.m.max_active
          /\ z.m.max_active <= MaxSessionCount /\ z.m.max_active <= z.m.total_accepted
      BY <1>1 DEF Core, Stats, SameActive, SameUser
    <2> QED
      BY <1>1, <1>2, <2>1, <2>2, StatsMove
  <1>11. Core(z)
    BY <1>1, <1>4, <1>6, <1>7, <1>8, <1>9, <1>10, CoreMove
  <1>12. Grows(g, z)
    <2>1. z.ses[w] = Attached /\ \A x \in Wrappers : x # w => z.ses[x] = g.ses[x]
      BY <1>1, <1>2
    <2> QED
      BY <1>4, <2>1 DEF Grows
  <1>13. Awake(z)
    BY <1>1, <1>2 DEF Awake
  <1> QED
    BY <1>1, <1>11, <1>12, <1>13 DEF z

\* The pair after the acceptor was opened or closed, or the accept loop has
\* registered an error.
Listens(z, g) ==
  /\ z \in Pairs /\ z.ses = g.ses /\ z.m.accept_state = g.m.accept_state
  /\ z.m.accepting = g.m.accepting
  /\ z.m.recycled_sessions = g.m.recycled_sessions
  /\ SameUser(z.m, g.m) /\ SameActive(z.m, g.m) /\ SameCounts(z.m, g.m)

\* Opening the acceptor changes nothing else.
LEMMA OpenFrame ==
  ASSUME NEW g \in Pairs, NEW f
  PROVE  LET q == open_acceptor(g, f)
         IN  Listens(q, g) /\ (~q.m.open => q.m.accept_error = "error")
  <1> DEFINE b == "open" \notin f
             e == IF "open" \in f THEN "error" ELSE "ok"
             j == [g.m EXCEPT !.open = b]
             k == [j EXCEPT !.accept_error = e]
             o == open(g, f)
             q == open_acceptor(g, f)
  <1>1. /\ g.m \in ManagerStates /\ b \in BOOLEAN /\ e \in Errors
        /\ ~b => e = "error"
    BY PairOf DEF Errors, Api!Errors
  <1>2. o = [g EXCEPT !.m = j] /\ q = [o EXCEPT !.m.accept_error = e]
    BY Zenon DEF open, open_acceptor
  <1> HIDE DEF b, e, o, q
  <1>3. /\ j \in ManagerStates /\ j.open = b
        /\ j.accept_state = g.m.accept_state /\ j.accepting = g.m.accepting
        /\ j.recycled_sessions = g.m.recycled_sessions
        /\ SameUser(j, g.m) /\ SameActive(j, g.m) /\ SameCounts(j, g.m)
    BY <1>1 DEF ManagerStates, SameUser, SameActive, SameCounts
  <1> HIDE DEF j
  <1>4. o \in Pairs /\ o.m = j /\ o.ses = g.ses
    BY <1>2, <1>3 DEF Pairs
  <1>5. /\ k \in ManagerStates /\ k.open = b /\ k.accept_error = e
        /\ k.accept_state = j.accept_state /\ k.accepting = j.accepting
        /\ k.recycled_sessions = j.recycled_sessions
        /\ SameUser(k, j) /\ SameActive(k, j) /\ SameCounts(k, j)
    BY <1>1, <1>3 DEF ManagerStates, SameUser, SameActive, SameCounts
  <1>6. q = [o EXCEPT !.m = k]
    BY <1>2, <1>4, Zenon
  <1> HIDE DEF k
  <1>7. q \in Pairs /\ q.m = k /\ q.ses = g.ses
    BY <1>4, <1>5, <1>6 DEF Pairs
  <1>8. SameUser(k, g.m) /\ SameActive(k, g.m) /\ SameCounts(k, g.m)
    BY <1>3, <1>5 DEF SameUser, SameActive, SameCounts
  <1> QED
    BY <1>1, <1>3, <1>5, <1>7, <1>8 DEF Listens, q

\* Closing the acceptor changes nothing else.
LEMMA CloseFrame ==
  ASSUME NEW g \in Pairs
  PROVE  Listens(close_acceptor(g), g)
  <1> DEFINE k == [g.m EXCEPT !.open = FALSE]
             q == close_acceptor(g)
  <1>1. g.m \in ManagerStates
    BY PairOf
  <1>2. q = [g EXCEPT !.m = k]
    BY Zenon DEF close_acceptor
  <1> HIDE DEF q
  <1>3. /\ k \in ManagerStates
        /\ k.accept_state = g.m.accept_state /\ k.accepting = g.m.accepting
        /\ k.recycled_sessions = g.m.recycled_sessions
        /\ SameUser(k, g.m) /\ SameActive(k, g.m) /\ SameCounts(k, g.m)
    BY <1>1 DEF ManagerStates, SameUser, SameActive, SameCounts
  <1> HIDE DEF k
  <1>4. q \in Pairs /\ q.m = k /\ q.ses = g.ses
    BY <1>2, <1>3 DEF Pairs
  <1> QED
    BY <1>3, <1>4 DEF Listens, q

\* Putting off the next session changes nothing but the error.
LEMMA LaterFrame ==
  ASSUME NEW g \in Pairs
  PROVE  Listens([g EXCEPT !.m.accept_error = "error"], g)
  <1> DEFINE k == [g.m EXCEPT !.accept_error = "error"]
             q == [g EXCEPT !.m.accept_error = "error"]
  <1>1. g.m \in ManagerStates /\ "error" \in Errors
    BY PairOf DEF Errors, Api!Errors
  <1>2. q = [g EXCEPT !.m = k]
    BY Zenon
  <1> HIDE DEF q
  <1>3. /\ k \in ManagerStates
        /\ k.accept_state = g.m.accept_state /\ k.accepting = g.m.accepting
        /\ k.recycled_sessions = g.m.recycled_sessions
        /\ SameUser(k, g.m) /\ SameActive(k, g.m) /\ SameCounts(k, g.m)
    BY <1>1 DEF ManagerStates, SameUser, SameActive, SameCounts
  <1> HIDE DEF k
  <1>4. q \in Pairs /\ q.m = k /\ q.ses = g.ses
    BY <1>2, <1>3 DEF Pairs
  <1> QED
    BY <1>3, <1>4 DEF Listens, q

\* While no accept is outstanding the acceptor is nobody else's business.
LEMMA ListensCore ==
  ASSUME NEW g, Core(g), NEW z, Listens(z, g), g.m.accept_state = "ready"
  PROVE  Core(z) /\ Keeps(g, z)
  <1>1. g.m.accepting = NoSession
    BY DEF Core, Accepts
  <1>2. Links(z) /\ Counted(z)
    BY DEF Core, Links, Counted, Listens, SameActive, SameCounts
  <1>3. Accepts(z)
    BY <1>1 DEF Core, Accepts, Listens, SameActive, SameUser
  <1>4. Walk(z)
    BY DEF Core, Walk, Reached, Listens, SameActive, SameCounts, SameUser
  <1>5. Stats(z)
    BY DEF Core, Stats, Listens, SameActive, SameCounts, SameUser
  <1> QED
    BY <1>2, <1>3, <1>4, <1>5 DEF Core, Listens, Keeps

\* The manager goes on with its work: it accepts, rests, or ends it.
LEMMA ContinueWork ==
  ASSUME NEW g, Core(g), g.m.intern_state = "work", g.m.extern_state = "work", NEW f
  PROVE  LET z == continue_work(g, f)
         IN  Core(z) /\ Grows(g, z) /\ Awake(z) /\ Works(g.m, z.m)
  <1> DEFINE z == continue_work(g, f)
             o == open_acceptor(g, f)
             q == IF g.m.open THEN g ELSE o
             l == [q EXCEPT !.m.accept_error = "error"]
  <1>1. z = IF g.m.accept_state = "stopped" THEN stop_accept(g, g.m.accept_error)
            ELSE IF g.m.accept_state = "in_progress" THEN g
            ELSE IF Full(g) THEN close_acceptor(g)
            ELSE IF ~q.m.open THEN stop_accept(q, q.m.accept_error)
            ELSE IF CanCreate(q, f) THEN AcceptNext(q)
            ELSE IF q.m.active_sessions # <<>> THEN l
            ELSE stop_accept(q, "error")
    BY Zenon DEF continue_work
  <1>2. /\ g \in Pairs /\ Accepts(g)
        /\ g.m.accept_state \in {"ready", "in_progress", "stopped"}
    BY PairOf DEF Core, ManagerStates
  <1>3. Listens(o, g) /\ (~o.m.open => o.m.accept_error = "error")
    BY <1>2, OpenFrame
  <1>4. Listens(close_acceptor(g), g)
    BY <1>2, CloseFrame
  <1> HIDE DEF o, z
  <1>5. Listens(q, g) /\ (~q.m.open => q.m.accept_error = "error")
    BY <1>2, <1>3 DEF Listens, SameUser, SameActive, SameCounts
  <1>6. \A y : Keeps(g, y) => Grows(g, y)
    BY DEF Keeps, Grows
  <1> HIDE DEF q, l
  <1>7. CASE g.m.accept_state = "stopped"
    <2> DEFINE y == stop_accept(g, "error")
    <2>1. z = y
      BY <1>1, <1>2, <1>7 DEF Accepts
    <2>2. Core(y) /\ Keeps(g, y) /\ Awake(y) /\ Works(g.m, y.m)
      BY <1>7, StopAccept
    <2> HIDE DEF y
    <2> QED
      BY <1>6, <2>1, <2>2 DEF z
  <1>8. CASE g.m.accept_state = "in_progress"
    <2>1. z = g
      BY <1>1, <1>8
    <2>2. Grows(g, g) /\ Awake(g) /\ Works(g.m, g.m)
      BY <1>2, <1>8 DEF Accepts, Grows, Awake, Works, SameUser
    <2> QED
      BY <2>1, <2>2 DEF z
  <1>9. CASE g.m.accept_state = "ready" /\ Full(g)
    <2> DEFINE y == close_acceptor(g)
    <2>1. z = y
      BY <1>1, <1>9
    <2>2. Core(y) /\ Keeps(g, y)
      BY <1>4, <1>9, ListensCore
    <2>3. g.m.active_sessions # <<>>
      BY <1>2, <1>9, PairOf, ManagerAssumption DEF Full, ManagerStates
    <2> HIDE DEF y
    <2>4. Awake(y) /\ Works(g.m, y.m)
      BY <1>4, <2>3 DEF Awake, Works, Listens, SameActive, y
    <2> QED
      BY <1>6, <2>1, <2>2, <2>4 DEF z
  <1>10. CASE g.m.accept_state = "ready" /\ ~Full(g)
    <2>1. Core(q) /\ Keeps(g, q)
      BY <1>5, <1>10, ListensCore
    <2>2. /\ q.m.intern_state = "work" /\ q.m.extern_state = "work"
          /\ q.m.accept_state = "ready" /\ ~Full(q)
          /\ View(q.m) = View(g.m) /\ q.m.active_sessions = g.m.active_sessions
          /\ q.ses = g.ses /\ q \in Pairs
      BY <1>5, <1>10 DEF Listens, SameUser, SameActive, Full, View, Run
    <2>3. \A k : Works(q.m, k) => Works(g.m, k)
      BY <1>5, <2>2 DEF Listens, SameUser, Works, Stopping
    <2>4. CASE ~q.m.open \/ (~CanCreate(q, f) /\ q.m.active_sessions = <<>>)
      <3> DEFINE y == stop_accept(q, "error")
      <3>1. z = y
        BY <1>1, <1>5, <1>10, <2>4
      <3>2. Core(y) /\ Keeps(q, y) /\ Awake(y) /\ Works(q.m, y.m)
        BY <2>1, <2>2, StopAccept
      <3> HIDE DEF y
      <3>3. Keeps(g, y)
        BY <2>2, <3>2 DEF Keeps
      <3> QED
        BY <1>6, <2>3, <3>1, <3>2, <3>3 DEF z
    <2>5. CASE q.m.open /\ CanCreate(q, f)
      <3> DEFINE y == AcceptNext(q)
      <3>1. z = y
        BY <1>1, <1>10, <2>5
      <3>2. Core(y) /\ Grows(q, y) /\ Awake(y) /\ SameUser(y.m, q.m)
        BY <2>1, <2>2, <2>5, AcceptCore
      <3> HIDE DEF y
      <3>3. Grows(g, y)
        BY <2>2, <3>2 DEF Grows
      <3>4. Works(g.m, y.m)
        BY <2>3, <3>2 DEF Works
      <3> QED
        BY <3>1, <3>2, <3>3, <3>4 DEF z
    <2>6. CASE q.m.open /\ ~CanCreate(q, f) /\ q.m.active_sessions # <<>>
      <3>1. z = l
        BY <1>1, <1>10, <2>6
      <3>2. Listens(l, q)
        BY <2>2, LaterFrame DEF l
      <3>3. Core(l) /\ Keeps(q, l)
        BY <2>1, <2>2, <3>2, ListensCore
      <3>4. Keeps(g, l)
        BY <2>2, <3>3 DEF Keeps
      <3>5. Awake(l) /\ Works(q.m, l.m)
        BY <2>6, <3>2 DEF Awake, Works, Listens, SameActive
      <3> QED
        BY <1>6, <2>3, <3>1, <3>3, <3>4, <3>5 DEF z
    <2> QED
      BY <2>4, <2>5, <2>6
  <1> QED
    BY <1>2, <1>7, <1>8, <1>9, <1>10

-----------------------------------------------------------------------------
(***************************************************************************)
(* The end of an accept.                                                    *)
(***************************************************************************)
\* The pair after the end of the accept was registered.
LEMMA DoneFrame ==
  ASSUME NEW g \in Pairs, g.m.pending_operations > 0,
         NEW state \in {"ready", "stopped"}
  PROVE  LET d == AcceptDone(g, state)
         IN  /\ d \in Pairs /\ d.ses = g.ses /\ d.m.accept_state = state
             /\ d.m.accepting = NoSession /\ d.m.open = g.m.open
             /\ d.m.accept_error = g.m.accept_error
             /\ d.m.pending_operations = g.m.pending_operations - 1
             /\ d.m.scheduled = g.m.scheduled
             /\ d.m.recycled_sessions = g.m.recycled_sessions
             /\ d.m.total_accepted = g.m.total_accepted /\ d.m.stopped = g.m.stopped
             /\ SameUser(d.m, g.m) /\ SameActive(d.m, g.m)
  <1> DEFINE p == g.m.pending_operations - 1
             k == [g.m EXCEPT !.pending_operations = p, !.accept_state = state,
                              !.accepting = NoSession]
             d == AcceptDone(g, state)
  <1>1. g.m \in ManagerStates
    BY PairOf
  <1>2. p \in Nat
    BY <1>1 DEF ManagerStates
  <1>3. d = [g EXCEPT !.m.pending_operations = @ - 1, !.m.accept_state = state,
                      !.m.accepting = NoSession]
    BY Zenon DEF AcceptDone
  <1> HIDE DEF d
  <1>4. d = [g EXCEPT !.m = k]
    BY <1>3 DEF Pairs
  <1> HIDE DEF p
  <1>5. /\ k \in ManagerStates /\ k.accept_state = state
        /\ k.accepting = NoSession /\ k.open = g.m.open
        /\ k.accept_error = g.m.accept_error
        /\ k.pending_operations = p /\ k.scheduled = g.m.scheduled
        /\ k.recycled_sessions = g.m.recycled_sessions
        /\ k.total_accepted = g.m.total_accepted /\ k.stopped = g.m.stopped
        /\ SameUser(k, g.m) /\ SameActive(k, g.m)
    BY <1>1, <1>2 DEF ManagerStates, SameUser, SameActive
  <1> HIDE DEF k
  <1>6. d \in Pairs /\ d.m = k /\ d.ses = g.ses
    BY <1>4, <1>5 DEF Pairs
  <1> QED
    BY <1>5, <1>6 DEF d, p

\* The pair after session_accepted.
LEMMA AcceptedFrame ==
  ASSUME NEW z \in Pairs
  PROVE  LET y == session_accepted(z)
         IN  /\ y \in Pairs /\ y.ses = z.ses /\ SameUser(y.m, z.m)
             /\ SameAccept(y.m, z.m) /\ SameActive(y.m, z.m)
             /\ y.m.recycled_sessions = z.m.recycled_sessions
             /\ y.m.pending_operations = z.m.pending_operations
             /\ y.m.scheduled = z.m.scheduled
             /\ y.m.total_accepted = z.m.total_accepted + 1
             /\ y.m.stopped = z.m.stopped
  <1> DEFINE n == z.m.total_accepted + 1
             k == [z.m EXCEPT !.total_accepted = n]
             y == session_accepted(z)
  <1>1. z.m \in ManagerStates /\ n \in Nat
    BY PairOf DEF ManagerStates
  <1>2. y = [z EXCEPT !.m = k]
    BY DEF session_accepted
  <1> HIDE DEF n, y
  <1>3. /\ k \in ManagerStates /\ k.total_accepted = n
        /\ k.recycled_sessions = z.m.recycled_sessions
        /\ k.pending_operations = z.m.pending_operations
        /\ k.scheduled = z.m.scheduled /\ k.stopped = z.m.stopped
        /\ SameUser(k, z.m) /\ SameAccept(k, z.m) /\ SameActive(k, z.m)
    BY <1>1 DEF ManagerStates, SameUser, SameAccept, SameActive
  <1> HIDE DEF k
  <1>4. y \in Pairs /\ y.ses = z.ses /\ y.m = k
    BY <1>2, <1>3 DEF Pairs
  <1> QED
    BY <1>3, <1>4 DEF y, n

\* The pair after the connection was put to the active list.
LEMMA AddFrame ==
  ASSUME NEW z \in Pairs, NEW w \in Wrappers
  PROVE  LET y == add_to_active(z, w)
             n == Len(z.m.active_sessions) + 1
         IN  /\ y \in Pairs /\ y.ses = z.ses /\ SameUser(y.m, z.m)
             /\ SameAccept(y.m, z.m) /\ SameCounts(y.m, z.m)
             /\ y.m.active_sessions = <<w>> \o z.m.active_sessions
             /\ y.m.max_active = IF z.m.max_active < n THEN n ELSE z.m.max_active
             /\ y.m.recycled_sessions = z.m.recycled_sessions
  <1> DEFINE n == Len(z.m.active_sessions) + 1
             r == <<w>> \o z.m.active_sessions
             j == [z.m EXCEPT !.active_sessions = r]
             o == [z EXCEPT !.m.active_sessions = r]
             x == IF z.m.max_active < n THEN n ELSE z.m.max_active
             k == [j EXCEPT !.max_active = x]
             y == add_to_active(z, w)
  <1>1. z.m \in ManagerStates /\ n \in Nat /\ r \in Seq(Wrappers)
    BY PairOf, PushedAt DEF ManagerStates
  <1>2. y = [o EXCEPT !.m.max_active = IF @ < n THEN n ELSE @]
    BY Zenon DEF add_to_active, set_active_session_count
  <1>3. o = [z EXCEPT !.m = j]
    BY Zenon
  <1> HIDE DEF n, r, y, o
  <1>4. /\ j \in ManagerStates /\ j.active_sessions = r
        /\ j.max_active = z.m.max_active
        /\ j.recycled_sessions = z.m.recycled_sessions
        /\ SameUser(j, z.m) /\ SameAccept(j, z.m) /\ SameCounts(j, z.m)
    BY <1>1 DEF ManagerStates, SameUser, SameAccept, SameCounts
  <1> HIDE DEF j
  <1>5. o \in Pairs /\ o.m = j /\ o.ses = z.ses
    BY <1>3, <1>4 DEF Pairs
  <1>6. y = [o EXCEPT !.m = k]
    BY <1>2, <1>4, <1>5, Zenon DEF x
  <1>7. x \in Nat
    BY <1>1 DEF ManagerStates, x
  <1> HIDE DEF x
  <1>8. /\ k \in ManagerStates /\ k.active_sessions = r /\ k.max_active = x
        /\ k.recycled_sessions = j.recycled_sessions
        /\ SameUser(k, j) /\ SameAccept(k, j) /\ SameCounts(k, j)
    BY <1>4, <1>7 DEF ManagerStates, SameUser, SameAccept, SameCounts
  <1> HIDE DEF k
  <1>9. y \in Pairs /\ y.m = k /\ y.ses = z.ses
    BY <1>5, <1>6, <1>8 DEF Pairs
  <1>10. SameUser(k, z.m) /\ SameAccept(k, z.m) /\ SameCounts(k, z.m)
    BY <1>4, <1>8 DEF SameUser, SameAccept, SameCounts
  <1> QED
    BY <1>4, <1>8, <1>9, <1>10 DEF y, x, n, r

\* What holds when an accept ends.
LEMMA AcceptArrives ==
  ASSUME NEW g, Core(g), g.m.accepting # NoSession, NEW w, w = g.m.accepting
  PROVE  LET v == g.ses[w]
         IN  /\ g \in Pairs /\ w \in Wrappers /\ WrapperSound(v)
             /\ v.state = "ready" /\ v.attached /\ v.pending_operations = 0
             /\ v.api.extern_state = "ready" /\ ~Open(v)
             /\ w \notin ToSet(g.m.recycled_sessions)
             /\ w \notin ToSet(g.m.active_sessions)
             /\ g.m.pending_operations \in Nat /\ g.m.pending_operations > 0
  <1> DEFINE v == g.ses[w]
             n == g.m.pending_operations
             a == Cardinality(Pending(g.ses))
             f == Flag(g.m.scheduled)
  <1>1. /\ g \in Pairs /\ w \in Wrappers /\ WrapperSound(v) /\ n \in Nat
        /\ g.ses \in [Wrappers -> WrapperStates]
    BY PairOf DEF Core, ManagerStates
  <1>2. v.state = "ready" /\ v.attached
    BY <1>1 DEF Core, Links
  <1>3. /\ v.pending_operations = 0 /\ v.api = Api!Fresh
        /\ \A c \in Api!Calls : ~Has(v, c)
    BY <1>1, <1>2, ReadyWrapper
  <1>4. v.api.extern_state = "ready" /\ ~Open(v)
    BY <1>3, FreshFields DEF Open, Api!Calls
  <1>5. /\ w \notin ToSet(g.m.recycled_sessions) /\ w \notin ToSet(g.m.active_sessions)
    BY <1>1, <1>2 DEF Core, Links, Busy
  <1>6. a \in Nat
    BY <1>1, PendingFinite
  <1>7. f \in Nat /\ n = 1 + f + a
    BY DEF Core, Counted, Flag
  <1> HIDE DEF n, a, f
  <1>8. n > 0
    BY <1>6, <1>7
  <1> QED
    BY <1>1, <1>2, <1>3, <1>4, <1>5, <1>8 DEF n

\* A connection that is not kept: its session is given back unused.
LEMMA DropCore ==
  ASSUME NEW g, Core(g), g.m.accepting # NoSession, g.m.intern_state # "stopped",
         NEW z \in Pairs,
         z.ses = g.ses, z.m.accepting = NoSession,
         z.m.accept_state \in {"ready", "stopped"},
         z.m.pending_operations = g.m.pending_operations - 1,
         z.m.scheduled = g.m.scheduled,
         z.m.recycled_sessions = g.m.recycled_sessions,
         SameUser(z.m, g.m), SameActive(z.m, g.m),
         \/ z.m.total_accepted = g.m.total_accepted /\ z.m.stopped = g.m.stopped
         \/ /\ z.m.total_accepted = g.m.total_accepted + 1
            /\ z.m.stopped = g.m.stopped + 1,
         g.m.intern_state = "work" /\ z.m.accept_state = "stopped" =>
           z.m.accept_error = "error"
  PROVE  LET y == recycle(z, g.m.accepting)
         IN  /\ Core(y) /\ SameUser(y.m, g.m) /\ Quiet(g, y)
             /\ y.m.accept_state = z.m.accept_state
  <1> DEFINE w == g.m.accepting
             v == g.ses[w]
             y == recycle(z, w)
  <1>1. /\ g \in Pairs /\ w \in Wrappers /\ WrapperSound(v)
        /\ v.state = "ready" /\ v.attached /\ v.pending_operations = 0
        /\ v.api.extern_state = "ready" /\ ~Open(v)
        /\ w \notin ToSet(g.m.recycled_sessions)
        /\ w \notin ToSet(g.m.active_sessions) /\ w = g.m.accepting
    BY AcceptArrives
  <1> HIDE DEF w
  <1>2. /\ y \in Pairs /\ SameUser(y.m, z.m) /\ SameAccept(y.m, z.m)
        /\ SameActive(y.m, z.m) /\ SameCounts(y.m, z.m)
        /\ y.ses = [g.ses EXCEPT ![w] = Detached]
        /\ y.m.recycled_sessions \in
             {g.m.recycled_sessions, <<w>> \o g.m.recycled_sessions}
    <2>1. w \in Wrappers /\ z.ses[w].pending_operations = 0
      BY <1>1
    <2>2. /\ y \in Pairs /\ SameUser(y.m, z.m) /\ SameAccept(y.m, z.m)
          /\ SameActive(y.m, z.m) /\ SameCounts(y.m, z.m)
          /\ \/ /\ z.ses[w].pending_operations # 0 /\ y.ses = z.ses
                /\ y.m.recycled_sessions = z.m.recycled_sessions
             \/ /\ z.ses[w].pending_operations = 0
                /\ y.ses = [z.ses EXCEPT ![w] = Detached]
                /\ y.m.recycled_sessions \in
                     {z.m.recycled_sessions, <<w>> \o z.m.recycled_sessions}
      BY <2>1, RecycleFrame
    <2> HIDE DEF y
    <2> QED
      BY <2>1, <2>2, Zenon
  <1> HIDE DEF y
  <1>3. /\ g.ses \in [Wrappers -> WrapperStates] /\ g.m.recycled_sessions \in Seq(Wrappers)
        /\ NoSession \notin Wrappers /\ Links(g)
    BY <1>1, PairOf, ManagerAssumption DEF ManagerStates, Core
  <1>4. /\ WrapperSound(Detached) /\ Detached.pending_operations = 0
        /\ Detached.state = "ready" /\ Detached.attached = FALSE /\ ~Open(Detached)
    BY FreshSound DEF Detached, Open, Api!Calls
  <1>5. /\ y.m.accepting = NoSession /\ y.m.accept_state = z.m.accept_state
        /\ y.m.accept_error = z.m.accept_error
        /\ y.m.pending_operations = g.m.pending_operations - 1
        /\ y.m.scheduled = g.m.scheduled /\ y.m.intern_state = g.m.intern_state
        /\ y.m.active_sessions = g.m.active_sessions
        /\ y.m.stopping_sessions_end = g.m.stopping_sessions_end
        /\ y.m.max_active = g.m.max_active /\ SameUser(y.m, g.m)
        /\ \/ y.m.total_accepted = g.m.total_accepted /\ y.m.stopped = g.m.stopped
           \/ /\ y.m.total_accepted = g.m.total_accepted + 1
              /\ y.m.stopped = g.m.stopped + 1
    BY <1>2 DEF SameAccept, SameActive, SameCounts, SameUser
  <1>6. Links(y)
    <2>1. /\ Distinct(y.m.recycled_sessions)
          /\ \A x \in Wrappers : x # w =>
               (x \in ToSet(y.m.recycled_sessions) => x \in ToSet(g.m.recycled_sessions))
      <3> DEFINE list == g.m.recycled_sessions
                 r == y.m.recycled_sessions
      <3>1. /\ r \in {list, <<w>> \o list} /\ Distinct(list) /\ list \in Seq(Wrappers)
            /\ w \notin ToSet(list) /\ w \in Wrappers
        BY <1>1, <1>2, <1>3 DEF Links
      <3> HIDE DEF list, r, v
      <3>2. /\ Distinct(r)
            /\ \A x \in Wrappers : x # w => (x \in ToSet(r) => x \in ToSet(list))
        <4>1. CASE r = list
          BY <3>1, <4>1
        <4>2. CASE r = <<w>> \o list
          <5>1. w \in Wrappers /\ list \in Seq(Wrappers)
            BY <3>1
          <5>2. /\ ToSet(r) = ToSet(list) \cup {w}
                /\ Distinct(list) /\ w \notin ToSet(list) => Distinct(r)
            BY <4>2, <5>1, PushedAt, Zenon
          <5> QED
            BY <3>1, <5>2
        <4> QED
          BY <3>1, <4>1, <4>2
      <3> QED
        BY <3>2 DEF list, r
    <2>2. \A x \in Wrappers : x # w =>
            /\ x \in ToSet(y.m.active_sessions) <=> x \in ToSet(g.m.active_sessions)
            /\ x \in ToSet(y.m.recycled_sessions) => x \in ToSet(g.m.recycled_sessions)
      BY <1>5, <2>1
    <2>3. Distinct(y.m.active_sessions)
      BY <1>3, <1>5 DEF Links
    <2>4. w \in ToSet(y.m.active_sessions) <=> Detached.state \in Busy
      BY <1>1, <1>4, <1>5 DEF Busy
    <2>5. Detached.attached <=> y.m.accepting = w \/ Detached.pending_operations > 0
      BY <1>1, <1>3, <1>4, <1>5
    <2> QED
      BY SMTT(30), <1>1, <1>2, <1>3, <1>4, <1>5, <2>1, <2>2, <2>3, <2>4, <2>5, LinksMove
  <1>7. Counted(y)
    BY <1>1, <1>2, <1>4, <1>5, CountedMove DEF Core
  <1>8. Accepts(y)
    BY <1>5 DEF Core, Accepts
  <1>9. Walk(y)
    BY ZenonT(40), <1>1, <1>2, <1>5, WalkStays DEF Core
  <1>10. Stats(y)
    <2>1. Open(Detached) <=> Open(v)
      BY <1>1, <1>4
    <2>2. /\ Stats(g) /\ Len(y.m.active_sessions) <= y.m.max_active
          /\ y.m.max_active <= MaxSessionCount /\ g.m.max_active <= g.m.total_accepted
      BY <1>5 DEF Core, Stats
    <2>3. y.m.max_active <= y.m.total_accepted
      BY <1>1, <1>5, <2>2, PairOf DEF ManagerStates
    <2> QED
      BY <1>1, <1>2, <1>5, <2>1, <2>2, <2>3, StatsMove
  <1>11. Core(y)
    BY <1>1, <1>2, <1>4, <1>6, <1>7, <1>8, <1>9, <1>10, CoreMove
  <1>12. Quiet(g, y)
    <2>1. \A x \in Wrappers : x # w => y.ses[x] = g.ses[x]
      BY <1>1, <1>2, <1>3
    <2> QED
      BY <1>1, <2>1 DEF Quiet
  <1> QED
    BY <1>5, <1>11, <1>12 DEF y, w

\* A connection is accepted while the manager works: there is room for it, and its
\* session is started.
LEMMA ConnectCore ==
  ASSUME NEW g, Core(g), g.m.accepting # NoSession, g.m.intern_state = "work"
  PROVE  LET n == session_accepted(AcceptDone(g, "ready"))
             y == start_session_start(add_to_active(n, g.m.accepting), g.m.accepting)
         IN  ~Full(n) /\ Core(y) /\ SameUser(y.m, g.m) /\ Quiet(g, y)
  <1> DEFINE w == g.m.accepting
             v == g.ses[w]
             u == Called(v, "start", "start")
             d == AcceptDone(g, "ready")
             n == session_accepted(d)
             b == add_to_active(n, w)
             y == Invoke(b, {w}, "start", "start")
             list == g.m.active_sessions
             len == Len(list) + 1
             r == <<w>> \o list
  <1>1. /\ g \in Pairs /\ w \in Wrappers /\ WrapperSound(v)
        /\ v.state = "ready" /\ v.attached /\ v.pending_operations = 0 /\ ~Open(v)
        /\ w \notin ToSet(g.m.recycled_sessions) /\ w \notin ToSet(list)
        /\ w = g.m.accepting
        /\ g.m.pending_operations \in Nat /\ g.m.pending_operations > 0
    BY AcceptArrives
  <1>2. start_session_start(add_to_active(n, w), w) = y
    BY Zenon DEF start_session_start
  <1> HIDE DEF w
  <1>3. /\ d \in Pairs /\ d.ses = g.ses /\ d.m.accept_state = "ready"
        /\ d.m.accepting = NoSession
        /\ d.m.pending_operations = g.m.pending_operations - 1
        /\ d.m.scheduled = g.m.scheduled
        /\ d.m.recycled_sessions = g.m.recycled_sessions
        /\ d.m.total_accepted = g.m.total_accepted /\ d.m.stopped = g.m.stopped
        /\ SameUser(d.m, g.m) /\ SameActive(d.m, g.m)
    BY <1>1, DoneFrame
  <1> HIDE DEF d
  <1>4. /\ n \in Pairs /\ n.ses = d.ses /\ SameUser(n.m, d.m)
        /\ SameAccept(n.m, d.m) /\ SameActive(n.m, d.m)
        /\ n.m.recycled_sessions = d.m.recycled_sessions
        /\ n.m.pending_operations = d.m.pending_operations
        /\ n.m.scheduled = d.m.scheduled
        /\ n.m.total_accepted = d.m.total_accepted + 1
        /\ n.m.stopped = d.m.stopped
    BY <1>3, AcceptedFrame
  <1> HIDE DEF n
  <1>5. n.m.active_sessions = list /\ n.m.max_active = g.m.max_active
    BY <1>3, <1>4 DEF SameActive
  <1>6. /\ b \in Pairs /\ b.ses = n.ses /\ SameUser(b.m, n.m)
        /\ SameAccept(b.m, n.m) /\ SameCounts(b.m, n.m)
        /\ b.m.active_sessions = r
        /\ b.m.max_active = IF g.m.max_active < len THEN len ELSE g.m.max_active
        /\ b.m.recycled_sessions = n.m.recycled_sessions
    <2>1. n \in Pairs /\ w \in Wrappers
      BY <1>1, <1>4
    <2>2. /\ b \in Pairs /\ b.ses = n.ses /\ SameUser(b.m, n.m)
          /\ SameAccept(b.m, n.m) /\ SameCounts(b.m, n.m)
          /\ b.m.active_sessions = <<w>> \o n.m.active_sessions
          /\ b.m.max_active = IF n.m.max_active < Len(n.m.active_sessions) + 1
                              THEN Len(n.m.active_sessions) + 1 ELSE n.m.max_active
          /\ b.m.recycled_sessions = n.m.recycled_sessions
      BY <2>1, AddFrame
    <2> QED
      BY <1>5, <2>2, Zenon
  <1> HIDE DEF b
  <1>7. /\ y \in Pairs /\ y.ses[w] = Called(b.ses[w], "start", "start")
        /\ \A x \in Wrappers : x # w => y.ses[x] = b.ses[x]
        /\ y.m.pending_operations = b.m.pending_operations + 1
        /\ SameUser(y.m, b.m) /\ SameAccept(y.m, b.m) /\ SameActive(y.m, b.m)
        /\ y.m.recycled_sessions = b.m.recycled_sessions
        /\ y.m.scheduled = b.m.scheduled
        /\ y.m.total_accepted = b.m.total_accepted /\ y.m.stopped = b.m.stopped
    <2>1. "start" \in Api!Calls /\ "start" \in Busy /\ w \in Wrappers
      BY <1>1 DEF Api!Calls, Busy
    <2> QED
      BY <1>6, <2>1, InvokeOne
  <1> HIDE DEF y
  <1>8. /\ WrapperSound(u) /\ u.state = "start" /\ u.attached
        /\ u.pending_operations = 1 /\ Has(u, "start")
    BY <1>1, StartSound
  <1> HIDE DEF u
  <1>9. /\ g.ses \in [Wrappers -> WrapperStates] /\ y.ses \in [Wrappers -> WrapperStates]
        /\ list \in Seq(Wrappers) /\ MaxSessionCount \in Nat
        /\ g.m.max_active \in Nat /\ g.m.total_accepted \in Nat
        /\ NoSession \notin Wrappers /\ Links(g)
    BY <1>1, <1>7, PairOf, ManagerAssumption DEF ManagerStates, Core
  <1>10. y.ses = [g.ses EXCEPT ![w] = u]
    <2>1. b.ses = g.ses
      BY <1>3, <1>4, <1>6
    <2>2. y.ses[w] = u /\ \A x \in Wrappers : x # w => y.ses[x] = g.ses[x]
      BY <1>7, <2>1 DEF u
    <2> QED
      BY <1>1, <1>9, <2>2
  <1>11. /\ y.m.accepting = NoSession /\ y.m.accept_state = "ready"
         /\ y.m.scheduled = g.m.scheduled
         /\ y.m.recycled_sessions = g.m.recycled_sessions
         /\ y.m.total_accepted = g.m.total_accepted + 1
         /\ y.m.stopped = g.m.stopped /\ SameUser(y.m, g.m)
         /\ y.m.active_sessions = r /\ y.m.max_active = b.m.max_active
    BY <1>3, <1>4, <1>6, <1>7 DEF SameUser, SameAccept, SameActive, SameCounts
  <1>12. y.m.pending_operations = g.m.pending_operations
    BY <1>1, <1>3, <1>4, <1>6, <1>7 DEF SameCounts
  <1>13. /\ r \in Seq(Wrappers) /\ Len(r) = len /\ ToSet(r) = ToSet(list) \cup {w}
         /\ Distinct(r)
    <2>1. w \in Wrappers /\ list \in Seq(Wrappers)
      BY <1>1, <1>9
    <2>2. /\ r \in Seq(Wrappers) /\ Len(r) = len /\ ToSet(r) = ToSet(list) \cup {w}
          /\ Distinct(list) /\ w \notin ToSet(list) => Distinct(r)
      BY <2>1, PushedAt, Zenon
    <2> QED
      BY <1>1, <1>9, <2>2 DEF Links
  <1>14. len \in Nat /\ len <= MaxSessionCount /\ ~Full(n)
    <2>1. Len(list) < MaxSessionCount /\ Len(list) \in Nat
      BY <1>1, <1>9 DEF Core, Accepts
    <2> QED
      BY <1>5, <1>9, <2>1 DEF Full
  <1> HIDE DEF r, len, v, list
  <1>15. Links(y)
    <2>1. \A x \in Wrappers : x # w =>
            /\ x \in ToSet(y.m.active_sessions) <=> x \in ToSet(g.m.active_sessions)
            /\ x \in ToSet(y.m.recycled_sessions) => x \in ToSet(g.m.recycled_sessions)
      BY <1>11, <1>13 DEF list
    <2>2. Distinct(y.m.active_sessions) /\ Distinct(y.m.recycled_sessions)
      BY <1>9, <1>11, <1>13 DEF Links
    <2>3. w \in ToSet(y.m.active_sessions) <=> u.state \in Busy
      BY <1>8, <1>11, <1>13 DEF Busy
    <2>4. w \in ToSet(y.m.recycled_sessions) => ~u.attached
      BY <1>1, <1>11
    <2>5. u.attached <=> y.m.accepting = w \/ u.pending_operations > 0
      BY <1>8
    <2>6. y.m.accepting # w
      BY <1>1, <1>9, <1>11
    <2> QED
      BY <1>1, <1>7, <1>9, <1>10, <1>11, <2>1, <2>2, <2>3, <2>4, <2>5, <2>6, LinksMove
  <1>16. Counted(y)
    BY <1>1, <1>7, <1>8, <1>10, <1>11, <1>12, CountedMove DEF Core, v
  <1>17. Accepts(y)
    BY <1>9, <1>11, <1>13, <1>14 DEF Accepts
  <1>18. Walk(y)
    BY <1>11, WalkAtWork DEF Core, SameUser
  <1>19. Stats(y)
    <2> DEFINE x == y.m.max_active
               t == g.m.total_accepted
    <2>1. ~Open(v) /\ Open(u)
      BY <1>1, <1>8 DEF Open
    <2>2. /\ Stats(g) /\ y.m.intern_state = g.m.intern_state
          /\ g.m.max_active <= MaxSessionCount /\ g.m.max_active <= t
          /\ Len(list) <= g.m.max_active /\ Len(list) \in Nat /\ t \in Nat
          /\ y.m.total_accepted = t + 1 /\ Len(y.m.active_sessions) = len
      BY <1>9, <1>11, <1>13 DEF Core, Stats, SameUser, list
    <2>3. x = IF g.m.max_active < len THEN len ELSE g.m.max_active
      BY <1>6, <1>11
    <2> HIDE DEF x, t
    <2>4. len = Len(list) + 1
      BY DEF len
    <2>5. len <= x /\ x <= MaxSessionCount /\ x <= t + 1
      BY <1>9, <1>14, <2>2, <2>3, <2>4
    <2>6. /\ Len(y.m.active_sessions) <= y.m.max_active
          /\ y.m.max_active <= MaxSessionCount
          /\ y.m.max_active <= y.m.total_accepted
      BY <2>2, <2>5 DEF x
    <2> QED
      BY <1>1, <1>7, <1>10, <1>11, <2>1, <2>2, <2>6, StatsMove DEF v
  <1>20. Core(y)
    BY <1>1, <1>7, <1>8, <1>10, <1>15, <1>16, <1>17, <1>18, <1>19, CoreMove
  <1>21. Quiet(g, y)
    <2>1. y.ses[w].attached /\ \A x \in Wrappers : x # w => y.ses[x] = g.ses[x]
      BY <1>1, <1>8, <1>9, <1>10
    <2> QED
      BY <2>1 DEF Quiet
  <1> QED
    BY <1>2, <1>11, <1>14, <1>20, <1>21 DEF y, b, n, d, w

-----------------------------------------------------------------------------
(***************************************************************************)
(* The handlers: the event is registered, and the work or the stop goes on. *)
(***************************************************************************)
\* What a handler does to the pair g.
Moves(g, z) ==
  /\ Core(z) /\ Quiet(g, z)
  /\ IF g.m.intern_state = "work" THEN Awake(z) /\ Works(g.m, z.m)
     ELSE z.m.intern_state # "work" /\ Ends(g.m, z.m)

\* The event was registered in y; the work goes on.
LEMMA WorkGoesOn ==
  ASSUME NEW g, g.m.intern_state = "work", g.m.extern_state = "work", NEW f,
         NEW y, Core(y), SameUser(y.m, g.m), Quiet(g, y)
  PROVE  Moves(g, continue_work(y, f))
  <1> DEFINE z == continue_work(y, f)
  <1>1. y.m.intern_state = "work" /\ y.m.extern_state = "work" /\ View(y.m) = View(g.m)
    BY DEF SameUser, View, Run
  <1>2. Core(z) /\ Grows(y, z) /\ Awake(z) /\ Works(y.m, z.m)
    BY <1>1, ContinueWork
  <1> HIDE DEF z
  <1>3. Quiet(g, z)
    BY <1>2 DEF Quiet, Grows
  <1>4. Works(g.m, z.m)
    BY <1>1, <1>2 DEF SameUser, Works, Stopping
  <1> QED
    BY <1>2, <1>3, <1>4 DEF Moves, z

\* The event was registered in y; the stop goes on.
LEMMA EndGoesOn ==
  ASSUME NEW g, g.m.intern_state = "stop",
         NEW y, Core(y), SameUser(y.m, g.m), Quiet(g, y)
  PROVE  Moves(g, continue_stop(y))
  <1> DEFINE z == continue_stop(y)
  <1>1. y.m.intern_state = "stop" /\ View(y.m) = View(g.m)
    BY DEF SameUser, View, Run
  <1>2. Core(z) /\ z.ses = y.ses /\ Ends(y.m, z.m)
    BY <1>1, StopGoesOn
  <1> HIDE DEF z
  <1>3. Quiet(g, z)
    BY <1>2 DEF Quiet
  <1>4. Ends(g.m, z.m)
    <2>1. CASE SameUser(z.m, y.m)
      BY <2>1 DEF Ends, SameUser
    <2>2. CASE ~SameUser(z.m, y.m)
      BY <1>1, <1>2, <2>2 DEF Ends, SameUser
    <2> QED
      BY <2>1, <2>2
  <1>5. z.m.intern_state # "work"
    BY <1>1, <1>2 DEF Ends, SameUser
  <1> QED
    BY <1>2, <1>3, <1>4, <1>5 DEF Moves, z

\* What Continue does with the pair that a handler has left.
LEMMA GoesOn ==
  ASSUME NEW g, g.m.intern_state \in {"work", "stop"},
         g.m.intern_state = "work" => g.m.extern_state = "work", NEW f,
         NEW y, Core(y), SameUser(y.m, g.m), Quiet(g, y)
  PROVE  Moves(g, Continue(y, f))
  <1>1. y.m.intern_state = g.m.intern_state
    BY DEF SameUser
  <1>2. CASE g.m.intern_state = "work"
    <2>1. Continue(y, f) = continue_work(y, f)
      BY <1>1, <1>2, Zenon DEF Continue
    <2> QED
      BY <1>2, <2>1, WorkGoesOn
  <1>3. CASE g.m.intern_state = "stop"
    <2>1. Continue(y, f) = continue_stop(y)
      BY <1>1, <1>3 DEF Continue
    <2> QED
      BY <1>3, <2>1, EndGoesOn
  <1> QED
    BY <1>2, <1>3

\* The pair after the error of an accept was registered.
LEMMA ErrorFrame ==
  ASSUME NEW d \in Pairs, NEW error \in Errors
  PROVE  LET z == [d EXCEPT !.m.accept_error =
                     IF is_accept_recoverable(error) THEN @ ELSE error]
         IN  Listens(z, d) /\ (~is_accept_recoverable(error) => z.m.accept_error = error)
  <1> DEFINE e == IF is_accept_recoverable(error) THEN d.m.accept_error ELSE error
             k == [d.m EXCEPT !.accept_error = e]
             z == [d EXCEPT !.m.accept_error =
                     IF is_accept_recoverable(error) THEN @ ELSE error]
  <1>1. d.m \in ManagerStates
    BY PairOf
  <1>2. e \in Errors /\ (~is_accept_recoverable(error) => e = error)
    BY <1>1 DEF ManagerStates
  <1>3. z = [d EXCEPT !.m = k]
    BY Zenon
  <1> HIDE DEF z, e
  <1>4. /\ k \in ManagerStates /\ k.accept_error = e
        /\ k.accept_state = d.m.accept_state /\ k.accepting = d.m.accepting
        /\ k.recycled_sessions = d.m.recycled_sessions
        /\ SameUser(k, d.m) /\ SameActive(k, d.m) /\ SameCounts(k, d.m)
    BY <1>1, <1>2 DEF ManagerStates, SameUser, SameActive, SameCounts
  <1> HIDE DEF k
  <1>5. z \in Pairs /\ z.m = k /\ z.ses = d.ses
    BY <1>3, <1>4 DEF Pairs
  <1> QED
    BY <1>2, <1>4, <1>5 DEF Listens, z

\* An accept ends while the manager works.
LEMMA AcceptAtWork ==
  ASSUME NEW g, Core(g), g.m.accepting # NoSession,
         g.m.intern_state = "work", g.m.extern_state = "work", NEW f,
         NEW error \in {"ok", "no_descriptors", "error", "aborted"},
         error = "aborted" => ~g.m.open
  PROVE  Moves(g, handle_accept_at_work(g, g.m.accepting, error, f))
  <1> DEFINE w == g.m.accepting
             state == IF error = "ok" \/ is_accept_recoverable(error)
                      THEN "ready" ELSE "stopped"
             d == AcceptDone(g, state)
             n == session_accepted(d)
             e == [d EXCEPT !.m.accept_error =
                     IF is_accept_recoverable(error) THEN @ ELSE error]
             h == handle_accept_at_work(g, w, error, f)
             y == start_session_start(add_to_active(n, w), w)
  <1>1. h = IF error # "ok" THEN continue_work(recycle(e, w), f)
            ELSE IF Full(n) THEN continue_work(recycle(session_stopped(n), w), f)
            ELSE continue_work(y, f)
    BY Zenon DEF handle_accept_at_work
  <1>2. /\ g \in Pairs /\ g.m.pending_operations > 0 /\ g.m.open
        /\ error \in {"ok", "no_descriptors", "error"} /\ error \in Errors
    BY AcceptArrives DEF Core, Accepts, Errors, Api!Errors
  <1>3. state \in {"ready", "stopped"} /\ (state = "stopped" => error = "error")
    BY <1>2 DEF is_accept_recoverable
  <1> HIDE DEF state
  <1>4. /\ d \in Pairs /\ d.ses = g.ses /\ d.m.accept_state = state
        /\ d.m.accepting = NoSession /\ d.m.open = g.m.open
        /\ d.m.accept_error = g.m.accept_error
        /\ d.m.pending_operations = g.m.pending_operations - 1
        /\ d.m.scheduled = g.m.scheduled
        /\ d.m.recycled_sessions = g.m.recycled_sessions
        /\ d.m.total_accepted = g.m.total_accepted /\ d.m.stopped = g.m.stopped
        /\ SameUser(d.m, g.m) /\ SameActive(d.m, g.m)
    BY <1>2, <1>3, DoneFrame
  <1> HIDE DEF h
  <1>5. CASE error # "ok"
    <2> HIDE DEF d
    <2>1. Listens(e, d) /\ (~is_accept_recoverable(error) => e.m.accept_error = error)
      BY <1>2, <1>4, ErrorFrame
    <2> HIDE DEF e
    <2>2. /\ e \in Pairs /\ e.ses = g.ses /\ e.m.accepting = NoSession
          /\ e.m.accept_state = state
          /\ e.m.pending_operations = g.m.pending_operations - 1
          /\ e.m.scheduled = g.m.scheduled
          /\ e.m.recycled_sessions = g.m.recycled_sessions
          /\ e.m.total_accepted = g.m.total_accepted /\ e.m.stopped = g.m.stopped
          /\ SameUser(e.m, g.m) /\ SameActive(e.m, g.m)
      BY <1>4, <2>1 DEF Listens, SameUser, SameActive, SameCounts
    <2>3. state = "stopped" => e.m.accept_error = "error"
      BY <1>3, <2>1 DEF is_accept_recoverable
    <2> DEFINE x == recycle(e, w)
    <2>4. Core(x) /\ SameUser(x.m, g.m) /\ Quiet(g, x)
      BY <1>3, <2>2, <2>3, DropCore
    <2> HIDE DEF x
    <2>5. Moves(g, continue_work(x, f))
      BY <2>4, WorkGoesOn
    <2>6. h = continue_work(x, f)
      BY <1>1, <1>5 DEF x
    <2> QED
      BY <2>5, <2>6 DEF h
  <1>6. CASE error = "ok"
    <2>1. state = "ready"
      BY <1>6 DEF state
    <2>2. ~Full(n) /\ Core(y) /\ SameUser(y.m, g.m) /\ Quiet(g, y)
      BY <2>1, ConnectCore
    <2> HIDE DEF y, n
    <2>3. Moves(g, continue_work(y, f))
      BY <2>2, WorkGoesOn
    <2>4. h = continue_work(y, f)
      BY <1>1, <1>6, <2>2
    <2> QED
      BY <2>3, <2>4 DEF h
  <1> QED
    BY <1>5, <1>6

\* An accept ends while the manager stops: a connection that still came is counted
\* and dropped.
LEMMA AcceptAtStop ==
  ASSUME NEW g, Core(g), g.m.accepting # NoSession, g.m.intern_state = "stop",
         NEW error
  PROVE  Moves(g, handle_accept_at_stop(g, g.m.accepting, error))
  <1> DEFINE w == g.m.accepting
             d == AcceptDone(g, "stopped")
             n == session_accepted(d)
             s == session_stopped(n)
             e == IF error = "ok" THEN s ELSE d
             y == recycle(e, w)
  <1>1. handle_accept_at_stop(g, w, error) = continue_stop(y)
    BY Zenon DEF handle_accept_at_stop
  <1>2. g \in Pairs /\ g.m.pending_operations > 0
    BY AcceptArrives
  <1>3. /\ d \in Pairs /\ d.ses = g.ses /\ d.m.accept_state = "stopped"
        /\ d.m.accepting = NoSession
        /\ d.m.pending_operations = g.m.pending_operations - 1
        /\ d.m.scheduled = g.m.scheduled
        /\ d.m.recycled_sessions = g.m.recycled_sessions
        /\ d.m.total_accepted = g.m.total_accepted /\ d.m.stopped = g.m.stopped
        /\ SameUser(d.m, g.m) /\ SameActive(d.m, g.m)
    BY <1>2, DoneFrame
  <1> HIDE DEF d
  <1>4. /\ n \in Pairs /\ n.ses = d.ses /\ SameUser(n.m, d.m)
        /\ SameAccept(n.m, d.m) /\ SameActive(n.m, d.m)
        /\ n.m.recycled_sessions = d.m.recycled_sessions
        /\ n.m.pending_operations = d.m.pending_operations
        /\ n.m.scheduled = d.m.scheduled
        /\ n.m.total_accepted = d.m.total_accepted + 1
        /\ n.m.stopped = d.m.stopped
    BY <1>3, AcceptedFrame
  <1> HIDE DEF n
  <1>5. /\ s \in Pairs /\ s.ses = n.ses /\ SameUser(s.m, n.m)
        /\ SameAccept(s.m, n.m) /\ SameActive(s.m, n.m)
        /\ s.m.recycled_sessions = n.m.recycled_sessions
        /\ s.m.pending_operations = n.m.pending_operations
        /\ s.m.scheduled = n.m.scheduled
        /\ s.m.total_accepted = n.m.total_accepted
        /\ s.m.stopped = n.m.stopped + 1
    BY <1>4, StoppedFrame
  <1> HIDE DEF s
  <1>6. /\ s \in Pairs /\ s.ses = g.ses /\ s.m.accepting = NoSession
        /\ s.m.accept_state = "stopped"
        /\ s.m.pending_operations = g.m.pending_operations - 1
        /\ s.m.scheduled = g.m.scheduled
        /\ s.m.recycled_sessions = g.m.recycled_sessions
        /\ s.m.total_accepted = g.m.total_accepted + 1
        /\ s.m.stopped = g.m.stopped + 1
        /\ SameUser(s.m, g.m) /\ SameActive(s.m, g.m)
    BY <1>3, <1>4, <1>5 DEF SameUser, SameAccept, SameActive
  <1>7. /\ e \in Pairs /\ e.ses = g.ses /\ e.m.accepting = NoSession
        /\ e.m.accept_state = "stopped"
        /\ e.m.pending_operations = g.m.pending_operations - 1
        /\ e.m.scheduled = g.m.scheduled
        /\ e.m.recycled_sessions = g.m.recycled_sessions
        /\ SameUser(e.m, g.m) /\ SameActive(e.m, g.m)
        /\ \/ e.m.total_accepted = g.m.total_accepted /\ e.m.stopped = g.m.stopped
           \/ /\ e.m.total_accepted = g.m.total_accepted + 1
              /\ e.m.stopped = g.m.stopped + 1
    BY <1>3, <1>6
  <1> HIDE DEF e
  <1>8. Core(y) /\ SameUser(y.m, g.m) /\ Quiet(g, y)
    BY <1>7, DropCore
  <1> HIDE DEF y
  <1> QED
    BY <1>1, <1>8, EndGoesOn

\* What an answer leaves as it is.
LEMMA AnswerLeaves ==
  ASSUME NEW g, Core(g), NEW w \in Wrappers, NEW c \in Api!Calls,
         g.ses[w].api.posted[c] # <<>>
  PROVE  LET d == operation_completed(g, w, c)
         IN  /\ d \in Pairs /\ d.ses[w].state = g.ses[w].state
             /\ d.m.intern_state = g.m.intern_state
             /\ g.m.pending_operations > 0
  <1> DEFINE v == g.ses[w]
             d == operation_completed(g, w, c)
  <1>1. /\ g \in Pairs /\ WrapperSound(v) /\ Taken(v, Completion(v, c), c) /\ Has(v, c)
        /\ v.attached /\ v.pending_operations > 0
        /\ w \notin ToSet(g.m.recycled_sessions) /\ g.m.accepting # w
        /\ g.m.pending_operations \in Nat /\ g.m.pending_operations > 0
        /\ d \in Pairs /\ d.ses = [g.ses EXCEPT ![w] = Completion(v, c)]
        /\ d.m.pending_operations = g.m.pending_operations - 1
        /\ d.m.scheduled = g.m.scheduled
        /\ d.m.recycled_sessions = g.m.recycled_sessions
        /\ d.m.total_accepted = g.m.total_accepted /\ d.m.stopped = g.m.stopped
        /\ SameUser(d.m, g.m) /\ SameAccept(d.m, g.m) /\ SameActive(d.m, g.m)
        /\ d.ses[w] = Completion(v, c)
    BY AnswerArrives
  <1> HIDE DEF d
  <1>2. d.ses[w].state = v.state /\ d.m.intern_state = g.m.intern_state
    BY <1>1 DEF Taken, SameUser
  <1> QED
    BY <1>1, <1>2 DEF d

\* The answer to the start of a session arrives.
LEMMA SessionStarts ==
  ASSUME NEW g, Core(g), g.m.intern_state \in {"work", "stop"},
         g.m.intern_state = "work" => g.m.extern_state = "work",
         NEW w \in Wrappers, g.ses[w].api.posted["start"] # <<>>,
         NEW error, error = Head(g.ses[w].api.posted["start"]), NEW f
  PROVE  Moves(g, handle_session_start(g, w, error, f))
  <1> DEFINE v == g.ses[w]
             d == operation_completed(g, w, "start")
             s == session_stopped(d)
             h == handle_session_start(g, w, error, f)
             late == recycle(s, w)
             gone == Dismiss(s, w)
             wait == start_session_wait(mark(d, w, "work"), w)
             stop == start_session_stop(d, w)
  <1>1. h = IF d.ses[w].state # "start" THEN Continue(late, f)
            ELSE IF error # "ok" THEN Continue(gone, f)
            ELSE IF d.m.intern_state = "work" THEN Continue(wait, f)
            ELSE Continue(stop, f)
    BY Zenon DEF handle_session_start
  <1>2. "start" \in Api!Calls
    BY DEF Api!Calls
  <1>3. d \in Pairs
    BY <1>2, AnswerLeaves, Zenon
  <1>4. d.ses[w].state = v.state /\ d.m.intern_state = g.m.intern_state
    BY <1>2, AnswerLeaves, Zenon
  <1> HIDE DEF h
  <1>5. CASE v.state # "start"
    <2>1. Core(late) /\ SameUser(late.m, g.m) /\ Quiet(g, late)
      BY <1>5, LateCore
    <2>2. h = Continue(late, f)
      BY <1>1, <1>4, <1>5
    <2> HIDE DEF late
    <2> QED
      BY <2>1, <2>2, GoesOn DEF h
  <1>6. CASE v.state = "start" /\ error # "ok"
    <2>1. Core(gone) /\ SameUser(gone.m, g.m) /\ Quiet(g, gone)
      BY <1>6, DismissCore
    <2>2. h = Continue(gone, f)
      BY <1>1, <1>4, <1>6
    <2> HIDE DEF gone
    <2> QED
      BY <2>1, <2>2, GoesOn DEF h
  <1>7. CASE v.state = "start" /\ error = "ok" /\ g.m.intern_state = "work"
    <2>1. Core(wait) /\ SameUser(wait.m, g.m) /\ Quiet(g, wait)
      <3> DEFINE c == "start"
                 call == "wait"
                 state == IF call = "wait" THEN "work" ELSE "stop"
                 k == mark(d, w, "work")
                 e == IF c = "wait" THEN session_stopped(operation_completed(g, w, c))
                      ELSE IF call = "wait" THEN mark(operation_completed(g, w, c), w, state)
                      ELSE operation_completed(g, w, c)
                 y == Invoke(e, {w}, call, state)
      <3>1. e = k /\ state = "work"
        OBVIOUS
      <3>2. k.ses[w].state = "work"
        <4> HIDE DEF d
        <4> QED
          BY <1>3, MarkFrame DEF Busy
      <3>3. wait = y
        BY <3>1, <3>2, Zenon DEF start_session_wait
      <3>4. Core(y) /\ SameUser(y.m, g.m) /\ Quiet(g, y)
        BY <1>7, AskCore
      <3> HIDE DEF y, wait
      <3> QED
        BY <3>3, <3>4
    <2>2. h = Continue(wait, f)
      BY <1>1, <1>4, <1>7
    <2> HIDE DEF wait
    <2> QED
      BY <2>1, <2>2, GoesOn DEF h
  <1>8. CASE v.state = "start" /\ error = "ok" /\ g.m.intern_state # "work"
    <2>1. Core(stop) /\ SameUser(stop.m, g.m) /\ Quiet(g, stop)
      <3> DEFINE c == "start"
                 call == "stop"
                 state == IF call = "wait" THEN "work" ELSE "stop"
                 e == IF c = "wait" THEN session_stopped(operation_completed(g, w, c))
                      ELSE IF call = "wait" THEN mark(operation_completed(g, w, c), w, state)
                      ELSE operation_completed(g, w, c)
                 y == Invoke(e, {w}, call, state)
      <3>1. e = d /\ state = "stop"
        OBVIOUS
      <3>2. stop = y
        BY <3>1, Zenon DEF start_session_stop
      <3>3. Core(y) /\ SameUser(y.m, g.m) /\ Quiet(g, y)
        BY <1>8, AskCore
      <3> HIDE DEF y, stop
      <3> QED
        BY <3>2, <3>3
    <2>2. h = Continue(stop, f)
      BY <1>1, <1>4, <1>8
    <2> HIDE DEF stop
    <2> QED
      BY <2>1, <2>2, GoesOn DEF h
  <1> QED
    BY <1>5, <1>6, <1>7, <1>8

\* The end of a session is known, or is known no more: it has asked to be stopped.
LEMMA SessionWaited ==
  ASSUME NEW g, Core(g), g.m.intern_state \in {"work", "stop"},
         g.m.intern_state = "work" => g.m.extern_state = "work",
         NEW w \in Wrappers, g.ses[w].api.posted["wait"] # <<>>, NEW error, NEW f
  PROVE  Moves(g, handle_session_wait(g, w, error, f))
  <1> DEFINE v == g.ses[w]
             b == operation_completed(g, w, "wait")
             d == session_stopped(b)
             h == handle_session_wait(g, w, error, f)
             late == recycle(d, w)
             stop == start_session_stop(d, w)
  <1>1. h = IF d.ses[w].state # "work" THEN Continue(late, f) ELSE Continue(stop, f)
    BY Zenon DEF handle_session_wait
  <1>2. "wait" \in Api!Calls
    BY DEF Api!Calls
  <1>3. b \in Pairs /\ b.ses[w].state = v.state
    BY <1>2, AnswerLeaves, Zenon
  <1>4. d.ses[w].state = v.state
    <2> HIDE DEF b
    <2>1. d.ses = b.ses
      BY <1>3, StoppedFrame
    <2> QED
      BY <1>3, <2>1
  <1> HIDE DEF h
  <1>5. CASE v.state # "work"
    <2>1. Core(late) /\ SameUser(late.m, g.m) /\ Quiet(g, late)
      BY <1>5, LateCore
    <2>2. h = Continue(late, f)
      BY <1>1, <1>4, <1>5
    <2> HIDE DEF late
    <2> QED
      BY <2>1, <2>2, GoesOn DEF h
  <1>6. CASE v.state = "work"
    <2>1. Core(stop) /\ SameUser(stop.m, g.m) /\ Quiet(g, stop)
      <3> DEFINE c == "wait"
                 call == "stop"
                 state == IF call = "wait" THEN "work" ELSE "stop"
                 e == IF c = "wait" THEN session_stopped(operation_completed(g, w, c))
                      ELSE IF call = "wait" THEN mark(operation_completed(g, w, c), w, state)
                      ELSE operation_completed(g, w, c)
                 y == Invoke(e, {w}, call, state)
      <3>1. e = d /\ state = "stop"
        OBVIOUS
      <3>2. stop = y
        BY <3>1, Zenon DEF start_session_stop
      <3>3. Core(y) /\ SameUser(y.m, g.m) /\ Quiet(g, y)
        BY <1>6, AskCore
      <3> HIDE DEF y, stop
      <3> QED
        BY <3>2, <3>3
    <2>2. h = Continue(stop, f)
      BY <1>1, <1>4, <1>6
    <2> HIDE DEF stop
    <2> QED
      BY <2>1, <2>2, GoesOn DEF h
  <1> QED
    BY <1>5, <1>6

\* The answer to the stop of a session: it is never late.
LEMMA SessionStops ==
  ASSUME NEW g, Core(g), g.m.intern_state \in {"work", "stop"},
         g.m.intern_state = "work" => g.m.extern_state = "work",
         NEW w \in Wrappers, g.ses[w].api.posted["stop"] # <<>>, NEW error, NEW f
  PROVE  Moves(g, handle_session_stop(g, w, error, f))
  <1> DEFINE v == g.ses[w]
             d == operation_completed(g, w, "stop")
             h == handle_session_stop(g, w, error, f)
             gone == Dismiss(d, w)
  <1>1. h = IF d.ses[w].state # "stop" THEN Continue(recycle(d, w), f)
            ELSE Continue(gone, f)
    BY Zenon DEF handle_session_stop
  <1>2. "stop" \in Api!Calls
    BY DEF Api!Calls
  <1>3. d.ses[w].state = v.state
    BY <1>2, AnswerLeaves, Zenon
  <1>4. v.state = "stop"
    <2>1. WrapperSound(v) /\ Has(v, "stop")
      BY DEF Core, Has
    <2> QED
      BY <1>2, <2>1 DEF WrapperSound, WrapperStates, Asked
  <1> HIDE DEF h
  <1>5. Core(gone) /\ SameUser(gone.m, g.m) /\ Quiet(g, gone)
    BY <1>4, DismissCore
  <1>6. h = Continue(gone, f)
    BY <1>1, <1>3, <1>4
  <1> HIDE DEF gone
  <1> QED
    BY <1>5, <1>6, GoesOn DEF h

-----------------------------------------------------------------------------
(***************************************************************************)
(* The user.                                                                *)
(***************************************************************************)
\* How the two states of the manager and the parked calls hang together.
User(k) ==
  /\ k.extern_state = "ready" =>
       /\ k.intern_state = "work" /\ k.pending_operations = 0
       /\ k.accept_state = "ready" /\ k.extern_wait_error = "ok" /\ ~k.wait_handler
  /\ k.extern_state \in {"stop", "stopped"} => k.intern_state # "work" /\ ~k.wait_handler
  /\ k.extern_state = "stopped" => k.intern_state = "stopped"
  /\ k.extern_state = "stop" => k.intern_state = "stop"
  /\ k.stop_handler = (k.extern_state = "stop")

Inv(g) == Core(g) /\ User(g.m) /\ (g.m.extern_state = "work" => Awake(g))

\* The pair after a change of the state its user sees.
LEMMA ExternFrame ==
  ASSUME NEW g \in Pairs, NEW state \in {"work", "stop", "stopped"}
  PROVE  LET y == [g EXCEPT !.m.extern_state = state]
         IN  /\ y \in Pairs /\ y.ses = g.ses /\ SameRest(y.m, g.m)
             /\ y.m.extern_state = state /\ y.m.intern_state = g.m.intern_state
             /\ y.m.extern_wait_error = g.m.extern_wait_error
             /\ y.m.wait_handler = g.m.wait_handler
             /\ y.m.stop_handler = g.m.stop_handler /\ y.m.posted = g.m.posted
             /\ View(y.m) = [View(g.m) EXCEPT !.extern_state = state]
  <1> DEFINE k == [g.m EXCEPT !.extern_state = state]
             y == [g EXCEPT !.m.extern_state = state]
             x == View(g.m)
             b == [x EXCEPT !.extern_state = state]
  <1>1. g.m \in ManagerStates
    BY PairOf
  <1>2. y = [g EXCEPT !.m = k]
    BY Zenon
  <1> HIDE DEF y
  <1>3. /\ k \in ManagerStates /\ SameRest(k, g.m)
        /\ k.extern_state = state /\ k.intern_state = g.m.intern_state
        /\ k.extern_wait_error = g.m.extern_wait_error
        /\ k.wait_handler = g.m.wait_handler
        /\ k.stop_handler = g.m.stop_handler /\ k.posted = g.m.posted
    BY <1>1 DEF ManagerStates, SameRest, SameAccept, SameActive, SameCounts
  <1> HIDE DEF k
  <1>4. y \in Pairs /\ y.ses = g.ses /\ y.m = k
    BY <1>2, <1>3 DEF Pairs
  <1>5. /\ x \in Views /\ x.extern_state = g.m.extern_state /\ x.run = Run(g.m)
        /\ x.extern_wait_error = g.m.extern_wait_error
        /\ x.wait_handler = g.m.wait_handler /\ x.stop_handler = g.m.stop_handler
        /\ x.posted = g.m.posted
    BY <1>1, ViewOf
  <1> HIDE DEF x
  <1>6. /\ b \in Views /\ b.extern_state = state /\ b.run = x.run
        /\ b.extern_wait_error = x.extern_wait_error
        /\ b.wait_handler = x.wait_handler /\ b.stop_handler = x.stop_handler
        /\ b.posted = x.posted
    BY <1>5 DEF Views
  <1>7. Run(k) = Run(g.m)
    BY <1>3 DEF Run
  <1> HIDE DEF b
  <1>8. View(k) = b
    BY <1>3, <1>5, <1>6, <1>7, ViewIs
  <1> QED
    BY <1>3, <1>4, <1>8 DEF y, b, x

\* The pair after a call of the user was parked.
LEMMA ParkFrame ==
  ASSUME NEW g \in Pairs
  PROVE  /\ LET y == [g EXCEPT !.m.wait_handler = TRUE]
            IN  /\ y \in Pairs /\ y.ses = g.ses /\ SameRest(y.m, g.m)
                /\ y.m.extern_state = g.m.extern_state
                /\ y.m.intern_state = g.m.intern_state
                /\ y.m.stop_handler = g.m.stop_handler
                /\ View(y.m) = [View(g.m) EXCEPT !.wait_handler = TRUE]
         /\ LET y == [g EXCEPT !.m.stop_handler = TRUE]
            IN  /\ y \in Pairs /\ y.ses = g.ses /\ SameRest(y.m, g.m)
                /\ y.m.extern_state = g.m.extern_state
                /\ y.m.intern_state = g.m.intern_state
                /\ y.m.wait_handler = g.m.wait_handler /\ y.m.stop_handler = TRUE
                /\ View(y.m) = [View(g.m) EXCEPT !.stop_handler = TRUE]
  <1> DEFINE x == View(g.m)
  <1>1. g.m \in ManagerStates
    BY PairOf
  <1>2. /\ x \in Views /\ x.extern_state = g.m.extern_state /\ x.run = Run(g.m)
        /\ x.extern_wait_error = g.m.extern_wait_error
        /\ x.wait_handler = g.m.wait_handler /\ x.stop_handler = g.m.stop_handler
        /\ x.posted = g.m.posted
    BY <1>1, ViewOf
  <1> HIDE DEF x
  <1>3. LET y == [g EXCEPT !.m.wait_handler = TRUE]
        IN  /\ y \in Pairs /\ y.ses = g.ses /\ SameRest(y.m, g.m)
            /\ y.m.extern_state = g.m.extern_state
            /\ y.m.intern_state = g.m.intern_state
            /\ y.m.stop_handler = g.m.stop_handler
            /\ View(y.m) = [x EXCEPT !.wait_handler = TRUE]
    <2> DEFINE k == [g.m EXCEPT !.wait_handler = TRUE]
               y == [g EXCEPT !.m.wait_handler = TRUE]
               b == [x EXCEPT !.wait_handler = TRUE]
    <2>1. y = [g EXCEPT !.m = k]
      BY Zenon
    <2> HIDE DEF y
    <2>2. /\ k \in ManagerStates /\ SameRest(k, g.m)
          /\ k.extern_state = g.m.extern_state /\ k.intern_state = g.m.intern_state
          /\ k.extern_wait_error = g.m.extern_wait_error /\ k.wait_handler = TRUE
          /\ k.stop_handler = g.m.stop_handler /\ k.posted = g.m.posted
      BY <1>1 DEF ManagerStates, SameRest, SameAccept, SameActive, SameCounts
    <2> HIDE DEF k
    <2>3. y \in Pairs /\ y.ses = g.ses /\ y.m = k
      BY <2>1, <2>2 DEF Pairs
    <2>4. /\ b \in Views /\ b.extern_state = x.extern_state /\ b.run = x.run
          /\ b.extern_wait_error = x.extern_wait_error
          /\ b.wait_handler = TRUE /\ b.stop_handler = x.stop_handler
          /\ b.posted = x.posted
      BY <1>2 DEF Views
    <2>5. Run(k) = Run(g.m)
      BY <2>2 DEF Run
    <2> HIDE DEF b
    <2>6. View(k) = b
      BY <1>2, <2>2, <2>4, <2>5, ViewIs
    <2> QED
      BY <2>2, <2>3, <2>6 DEF y, b
  <1>4. LET y == [g EXCEPT !.m.stop_handler = TRUE]
        IN  /\ y \in Pairs /\ y.ses = g.ses /\ SameRest(y.m, g.m)
            /\ y.m.extern_state = g.m.extern_state
            /\ y.m.intern_state = g.m.intern_state
            /\ y.m.wait_handler = g.m.wait_handler /\ y.m.stop_handler = TRUE
            /\ View(y.m) = [x EXCEPT !.stop_handler = TRUE]
    <2> DEFINE k == [g.m EXCEPT !.stop_handler = TRUE]
               y == [g EXCEPT !.m.stop_handler = TRUE]
               b == [x EXCEPT !.stop_handler = TRUE]
    <2>1. y = [g EXCEPT !.m = k]
      BY Zenon
    <2> HIDE DEF y
    <2>2. /\ k \in ManagerStates /\ SameRest(k, g.m)
          /\ k.extern_state = g.m.extern_state /\ k.intern_state = g.m.intern_state
          /\ k.extern_wait_error = g.m.extern_wait_error
          /\ k.wait_handler = g.m.wait_handler
          /\ k.stop_handler = TRUE /\ k.posted = g.m.posted
      BY <1>1 DEF ManagerStates, SameRest, SameAccept, SameActive, SameCounts
    <2> HIDE DEF k
    <2>3. y \in Pairs /\ y.ses = g.ses /\ y.m = k
      BY <2>1, <2>2 DEF Pairs
    <2>4. /\ b \in Views /\ b.extern_state = x.extern_state /\ b.run = x.run
          /\ b.extern_wait_error = x.extern_wait_error
          /\ b.wait_handler = x.wait_handler /\ b.stop_handler = TRUE
          /\ b.posted = x.posted
      BY <1>2 DEF Views
    <2>5. Run(k) = Run(g.m)
      BY <2>2 DEF Run
    <2> HIDE DEF b
    <2>6. View(k) = b
      BY <1>2, <2>2, <2>4, <2>5, ViewIs
    <2> QED
      BY <2>2, <2>3, <2>6 DEF y, b
  <1> QED
    BY <1>3, <1>4 DEF x

\* A change the rest of the manager does not see.
LEMMA RestAwake ==
  ASSUME NEW g, Awake(g), NEW y, SameRest(y.m, g.m),
         y.m.intern_state = g.m.intern_state
  PROVE  Awake(y)
  BY DEF Awake, SameRest, SameAccept, SameActive

\* An answer to the user changes nothing else.
LEMMA PostInv ==
  ASSUME NEW g, Inv(g), NEW call \in Api!Calls, NEW error \in Errors
  PROVE  LET y == Post(g, call, error)
         IN  Inv(y) /\ y.ses = g.ses /\ View(y.m) = Own!Answer(View(g.m), call, error)
  <1> DEFINE y == Post(g, call, error)
  <1>1. g \in Pairs /\ Core(g) /\ User(g.m)
    BY DEF Inv, Core
  <1>2. /\ y \in Pairs /\ y.ses = g.ses /\ SameRest(y.m, g.m)
        /\ SameStates(y.m, g.m)
        /\ View(y.m) = Own!Answer(View(g.m), call, error)
    BY <1>1, PostFrame
  <1> HIDE DEF y
  <1>3. Core(y)
    BY <1>1, <1>2, RestCore DEF SameStates
  <1>4. User(y.m)
    BY <1>1, <1>2 DEF User, SameStates, SameRest, SameAccept, SameCounts
  <1>5. y.m.extern_state = "work" => Awake(y)
    BY <1>2, RestAwake DEF Inv, SameStates
  <1> QED
    BY <1>2, <1>3, <1>4, <1>5 DEF Inv, y

\* A start that came to nothing leaves a waiting user nothing to know of but the
\* reason.
LEMMA EndingsUntold ==
  ASSUME NEW x \in Views, x.extern_state = "work", ~x.wait_handler,
         x.extern_wait_error = "ok", NEW y \in Own!Endings(x, "error")
  PROVE  /\ y.posted = x.posted /\ y.wait_handler = x.wait_handler
         /\ y.stop_handler = x.stop_handler /\ y.extern_wait_error = "error"
  <1> DEFINE t == [x EXCEPT !.extern_wait_error = "error", !.wait_handler = FALSE]
             q == [t EXCEPT !.run = "ending"]
             e == [q EXCEPT !.run = "stopped"]
  <1>1. x.wait_handler = FALSE
    BY DEF Views
  <1>2. Own!Tell(x, "error") = t
    BY Zenon DEF Own!Tell
  <1>3. "error" \in Errors
    BY DEF Errors, Api!Errors
  <1>4. /\ t \in Views /\ t.posted = x.posted /\ t.wait_handler = FALSE
        /\ t.stop_handler = x.stop_handler /\ t.extern_wait_error = "error"
        /\ t.extern_state = "work"
    BY <1>3 DEF Views
  <1>5. Own!Endings(x, "error") = {q, Own!Finish(q)}
    BY <1>2, Zenon DEF Own!Endings
  <1> HIDE DEF t
  <1>6. /\ q \in Views /\ q.posted = x.posted /\ q.wait_handler = FALSE
        /\ q.stop_handler = x.stop_handler /\ q.extern_wait_error = "error"
        /\ q.extern_state = "work"
    BY <1>4 DEF Views
  <1> HIDE DEF q
  <1>7. Own!Finish(q) = e
    <2>1. q.extern_state # "stop"
      BY <1>6
    <2> QED
      BY <2>1, Zenon DEF Own!Finish
  <1>8. /\ e.posted = x.posted /\ e.wait_handler = FALSE
        /\ e.stop_handler = x.stop_handler /\ e.extern_wait_error = "error"
    BY <1>6 DEF Views
  <1> HIDE DEF e
  <1>9. y = q \/ y = e
    BY <1>5, <1>7
  <1>10. CASE y = q
    BY <1>1, <1>6, <1>10
  <1>11. CASE y = e
    BY <1>1, <1>8, <1>11
  <1> QED
    BY <1>9, <1>10, <1>11

\* Where no session is given back, none is given back in use.
LEMMA GrowsQuiet ==
  ASSUME NEW g, NEW y, Grows(g, y)
  PROVE  Quiet(g, y)
  BY DEF Grows, Quiet

\* The user starts the manager.
LEMMA UserStarts ==
  ASSUME NEW g, Inv(g), NEW f
  PROVE  LET z == start_extern_start(g, f)
         IN  Inv(z) /\ Quiet(g, z) /\ View(z.m) \in Own!Started(View(g.m))
  <1> DEFINE z == start_extern_start(g, f)
             p == [g EXCEPT !.m.extern_state = "work"]
             q == continue_work(p, f)
             s == [q EXCEPT !.m.extern_state = "stopped"]
             x == View(g.m)
             b == [x EXCEPT !.extern_state = "work"]
             failed == Post(s, "start", q.m.extern_wait_error)
             done == Post(q, "start", "ok")
             refused == Post(g, "start", "invalid_state")
  <1>1. z = IF g.m.extern_state # "ready" THEN refused
            ELSE IF q.m.intern_state = "stopped" THEN failed ELSE done
    BY Zenon DEF start_extern_start
  <1>2. g \in Pairs /\ g.m \in ManagerStates /\ Core(g) /\ User(g.m)
    BY PairOf DEF Inv, Core
  <1>3. "start" \in Api!Calls /\ "ok" \in Errors /\ "invalid_state" \in Errors
    BY DEF Api!Calls, Errors, Api!Errors
  <1>4. /\ x \in Views /\ x.extern_state = g.m.extern_state /\ x.run = Run(g.m)
        /\ x.extern_wait_error = g.m.extern_wait_error
        /\ x.wait_handler = g.m.wait_handler /\ x.stop_handler = g.m.stop_handler
        /\ x.posted = g.m.posted
    BY <1>2, ViewOf
  <1> HIDE DEF z
  <1>5. CASE g.m.extern_state # "ready"
    <2>1. /\ Inv(refused) /\ refused.ses = g.ses
          /\ View(refused.m) = Own!Answer(View(g.m), "start", "invalid_state")
      BY <1>3, PostInv
    <2>2. z = refused
      BY <1>1, <1>5
    <2> HIDE DEF refused
    <2>3. Grows(g, refused)
      BY <2>1 DEF Grows
    <2>4. Own!Started(x) = {Own!Answer(x, "start", "invalid_state")}
      <3> HIDE DEF x
      <3> QED
        BY <1>4, <1>5, Zenon DEF Own!Started
    <2> QED
      BY <2>1, <2>2, <2>3, <2>4, GrowsQuiet DEF z
  <1>6. CASE g.m.extern_state = "ready"
    <2>1. /\ p \in Pairs /\ p.ses = g.ses /\ SameRest(p.m, g.m)
          /\ p.m.extern_state = "work" /\ p.m.intern_state = g.m.intern_state
          /\ p.m.extern_wait_error = g.m.extern_wait_error
          /\ p.m.wait_handler = g.m.wait_handler
          /\ p.m.stop_handler = g.m.stop_handler /\ p.m.posted = g.m.posted
          /\ View(p.m) = b
      BY <1>2, ExternFrame
    <2> HIDE DEF p
    <2>2. Core(p)
      BY <1>2, <2>1, RestCore
    <2>3. /\ p.m.intern_state = "work" /\ p.m.extern_wait_error = "ok"
          /\ p.m.wait_handler = FALSE /\ p.m.stop_handler = FALSE
      BY <1>2, <1>6, <2>1 DEF User, ManagerStates
    <2>4. Core(q) /\ Grows(p, q) /\ Awake(q) /\ Works(p.m, q.m)
      BY <2>1, <2>2, <2>3, ContinueWork
    <2> HIDE DEF q, x
    <2>5. q \in Pairs /\ q.m \in ManagerStates
      BY <2>4, PairOf DEF Core
    <2>6. Grows(g, q)
      BY <2>1, <2>4 DEF Grows
    <2>7. /\ q.m.extern_state = "work" /\ q.m.stop_handler = FALSE
          /\ q.m.wait_handler = FALSE
          /\ \/ View(q.m) = View(p.m) /\ q.m.intern_state = "work"
             \/ View(q.m) \in Own!Endings(b, "error")
      <3>1. CASE SameUser(q.m, p.m)
        BY <2>1, <2>3, <3>1 DEF SameUser, View, Run
      <3>2. CASE Stopping(p.m, q.m, "error") /\ View(q.m) \in Own!Endings(View(p.m), "error")
        BY <2>1, <2>3, <3>2 DEF Stopping
      <3> QED
        BY <2>4, <3>1, <3>2 DEF Works
    <2>8. Own!Started(x) =
            {Own!Answer(y, "start", "ok") : y \in {b} \cup Own!Endings(b, "error")}
            \cup {Own!Answer([x EXCEPT !.extern_state = "stopped", !.run = "stopped",
                                       !.extern_wait_error = why], "start", "error") :
                    why \in {x.extern_wait_error, "error"}}
      BY <1>4, <1>6, Zenon DEF Own!Started
    <2>9. /\ b \in Views /\ b.extern_state = "work" /\ b.wait_handler = x.wait_handler
          /\ b.wait_handler = FALSE /\ b.extern_wait_error = "ok" /\ b.posted = x.posted
          /\ b.stop_handler = x.stop_handler
      BY <1>2, <1>4, <1>6 DEF Views, User, ManagerStates
    <2> HIDE DEF b
    <2>10. CASE q.m.intern_state # "stopped"
      <3>1. z = done
        BY <1>1, <1>6, <2>10
      <3>2. User(q.m)
        BY <2>7 DEF User
      <3>3. Inv(q)
        BY <2>4, <3>2 DEF Inv
      <3>4. /\ Inv(done) /\ done.ses = q.ses
            /\ View(done.m) = Own!Answer(View(q.m), "start", "ok")
        BY <1>3, <3>3, PostInv
      <3> HIDE DEF done
      <3>5. View(q.m) \in {b} \cup Own!Endings(b, "error")
        BY <2>1, <2>7
      <3>6. View(done.m) \in Own!Started(x)
        BY <2>8, <3>4, <3>5, Zenon
      <3>7. Grows(g, done)
        BY <2>6, <3>4 DEF Grows
      <3> QED
        BY <3>1, <3>4, <3>6, <3>7, GrowsQuiet DEF z, x
    <2>11. CASE q.m.intern_state = "stopped"
      <3>1. z = failed
        BY <1>1, <1>6, <2>11
      <3>2. View(q.m) \in Own!Endings(b, "error")
        BY <2>7, <2>11
      <3> DEFINE y == View(q.m)
      <3>3. /\ y.posted = q.m.posted /\ y.wait_handler = q.m.wait_handler
            /\ y.stop_handler = q.m.stop_handler
            /\ y.extern_wait_error = q.m.extern_wait_error
        BY <2>5, ViewOf
      <3> HIDE DEF y
      <3>4. /\ y.posted = b.posted /\ y.wait_handler = b.wait_handler
            /\ y.stop_handler = b.stop_handler /\ y.extern_wait_error = "error"
        BY <2>9, <3>2, EndingsUntold DEF y
      <3>5. /\ q.m.posted = x.posted /\ q.m.wait_handler = x.wait_handler
            /\ q.m.stop_handler = x.stop_handler /\ q.m.extern_wait_error = "error"
        BY <2>9, <3>3, <3>4, Zenon
      <3>6. /\ s \in Pairs /\ s.ses = q.ses /\ SameRest(s.m, q.m)
            /\ s.m.extern_state = "stopped" /\ s.m.intern_state = q.m.intern_state
            /\ s.m.extern_wait_error = q.m.extern_wait_error
            /\ s.m.wait_handler = q.m.wait_handler
            /\ s.m.stop_handler = q.m.stop_handler /\ s.m.posted = q.m.posted
        BY <2>5, ExternFrame
      <3> HIDE DEF s
      <3>7. Core(s)
        BY <2>4, <3>6, RestCore
      <3>8. User(s.m)
        BY <2>7, <2>11, <3>6 DEF User
      <3>9. Inv(s)
        BY <3>6, <3>7, <3>8 DEF Inv
      <3>10. failed = Post(s, "start", "error") /\ "error" \in Errors
        BY <3>5 DEF Errors, Api!Errors
      <3> HIDE DEF failed
      <3>11. /\ Inv(failed) /\ failed.ses = s.ses
             /\ View(failed.m) = Own!Answer(View(s.m), "start", "error")
        BY <1>3, <3>9, <3>10, PostInv
      <3> DEFINE o == [x EXCEPT !.extern_state = "stopped", !.run = "stopped",
                                !.extern_wait_error = "error"]
      <3>12. /\ o \in Views /\ o.extern_state = "stopped" /\ o.run = "stopped"
             /\ o.extern_wait_error = "error" /\ o.wait_handler = x.wait_handler
             /\ o.stop_handler = x.stop_handler /\ o.posted = x.posted
        BY <1>4, <3>10 DEF Views
      <3>13. Own!Answer(o, "start", "error") \in Own!Started(x)
        BY <2>8, Zenon
      <3> HIDE DEF o
      <3>14. View(s.m) = o
        <4>1. s.m \in ManagerStates /\ Run(s.m) = "stopped"
          BY <2>11, <3>6, PairOf DEF Run
        <4> QED
          BY <3>5, <3>6, <3>12, <4>1, ViewIs
      <3>15. Grows(g, failed)
        BY <2>6, <3>6, <3>11 DEF Grows
      <3> QED
        BY <3>1, <3>11, <3>13, <3>14, <3>15, GrowsQuiet DEF z, x
    <2> QED
      BY <2>10, <2>11
  <1> QED
    BY <1>5, <1>6

\* The state the user sees does not matter to what a wait is told.
LEMMA ToldState ==
  ASSUME NEW x \in Views, NEW error \in Errors, NEW state \in {"work", "stop", "stopped"}
  PROVE  Own!Tell([x EXCEPT !.extern_state = state], error) =
           [Own!Tell(x, error) EXCEPT !.extern_state = state]
  <1> DEFINE why == IF x.extern_wait_error = "ok" THEN error ELSE x.extern_wait_error
             longer == [x.posted EXCEPT !["wait"] = Append(@, why)]
             b == [x EXCEPT !.extern_state = state]
             q == [x EXCEPT !.extern_wait_error = why, !.wait_handler = FALSE]
             r == [b EXCEPT !.extern_wait_error = why, !.wait_handler = FALSE]
  <1>1. why \in Errors /\ "wait" \in Api!Calls
    BY DEF Views, Api!Calls
  <1>2. longer \in [Api!Calls -> Seq(Errors)]
    BY <1>1 DEF Views
  <1>3. /\ b \in Views /\ b.run = x.run
        /\ b.extern_wait_error = x.extern_wait_error
        /\ b.wait_handler = x.wait_handler /\ b.stop_handler = x.stop_handler
        /\ b.posted = x.posted
    BY DEF Views
  <1>4. Own!Tell(x, error) = IF x.wait_handler THEN Own!Answer(q, "wait", why) ELSE q
    BY Zenon DEF Own!Tell
  <1> HIDE DEF b
  <1>5. Own!Tell(b, error) = IF x.wait_handler THEN Own!Answer(r, "wait", why) ELSE r
    BY <1>3, Zenon DEF Own!Tell
  <1> HIDE DEF why
  <1>6. q \in Views /\ q.posted = x.posted
    BY <1>1 DEF Views
  <1>7. r = [q EXCEPT !.extern_state = state] /\ r \in Views /\ r.posted = x.posted
    BY <1>1, <1>3 DEF Views, b
  <1> HIDE DEF q, r
  <1>8. /\ Own!Answer(q, "wait", why) = [q EXCEPT !.posted = longer]
        /\ Own!Answer(r, "wait", why) = [r EXCEPT !.posted = longer]
    BY <1>6, <1>7, Zenon DEF Own!Answer
  <1> HIDE DEF longer
  <1>9. [r EXCEPT !.posted = longer] =
          [[q EXCEPT !.posted = longer] EXCEPT !.extern_state = state]
    BY <1>2, <1>6, <1>7 DEF Views
  <1>10. CASE x.wait_handler
    BY <1>4, <1>5, <1>8, <1>9, <1>10 DEF b
  <1>11. CASE ~x.wait_handler
    BY <1>4, <1>5, <1>6, <1>7, <1>11 DEF b
  <1> QED
    BY <1>10, <1>11

\* The user stops the manager.
LEMMA UserStops ==
  ASSUME NEW g, Inv(g)
  PROVE  LET z == start_extern_stop(g)
         IN  Inv(z) /\ Quiet(g, z) /\ View(z.m) \in Own!Stopped(View(g.m))
  <1> DEFINE z == start_extern_stop(g)
             p == [g EXCEPT !.m.extern_state = "stop"]
             t == complete_extern_wait(p, "operation_aborted")
             q == IF t.m.intern_state = "work" THEN start_stop(t, "operation_aborted")
                  ELSE t
             s == [q EXCEPT !.m.extern_state = "stopped"]
             x == View(g.m)
             b == [Own!Tell(x, "operation_aborted") EXCEPT !.extern_state = "stop"]
             refused == Post(g, "stop", "invalid_state")
             done == Post(s, "stop", "ok")
             parked == [q EXCEPT !.m.stop_handler = TRUE]
  <1>1. z = IF g.m.extern_state \in {"stop", "stopped"} THEN refused
            ELSE IF q.m.intern_state = "stopped" THEN done ELSE parked
    BY Zenon DEF start_extern_stop
  <1>2. g \in Pairs /\ g.m \in ManagerStates /\ Core(g) /\ User(g.m)
    BY PairOf DEF Inv, Core
  <1>3. /\ "stop" \in Api!Calls /\ "ok" \in Errors /\ "invalid_state" \in Errors
        /\ "operation_aborted" \in Errors
    BY DEF Api!Calls, Errors, Api!Errors
  <1>4. x \in Views /\ x.extern_state = g.m.extern_state
    BY <1>2, ViewOf
  <1> HIDE DEF z
  <1>5. CASE g.m.extern_state \in {"stop", "stopped"}
    <2>1. /\ Inv(refused) /\ refused.ses = g.ses
          /\ View(refused.m) = Own!Answer(View(g.m), "stop", "invalid_state")
      BY <1>3, PostInv
    <2>2. z = refused
      BY <1>1, <1>5
    <2> HIDE DEF refused
    <2>3. Grows(g, refused)
      BY <2>1 DEF Grows
    <2>4. Own!Stopped(x) = {Own!Answer(x, "stop", "invalid_state")}
      <3> HIDE DEF x
      <3> QED
        BY <1>4, <1>5, Zenon DEF Own!Stopped
    <2> QED
      BY <2>1, <2>2, <2>3, <2>4, GrowsQuiet DEF z
  <1>6. CASE g.m.extern_state \notin {"stop", "stopped"}
    <2>1. /\ p \in Pairs /\ p.ses = g.ses /\ SameRest(p.m, g.m)
          /\ p.m.extern_state = "stop" /\ p.m.intern_state = g.m.intern_state
          /\ p.m.stop_handler = g.m.stop_handler
          /\ View(p.m) = [x EXCEPT !.extern_state = "stop"]
      BY <1>2, ExternFrame
    <2> HIDE DEF p
    <2>2. Core(p)
      BY <1>2, <2>1, RestCore
    <2>3. /\ t \in Pairs /\ t.ses = p.ses /\ SameRest(t.m, p.m)
          /\ t.m.extern_state = p.m.extern_state
          /\ t.m.intern_state = p.m.intern_state
          /\ t.m.stop_handler = p.m.stop_handler /\ t.m.wait_handler = FALSE
          /\ View(t.m) = Own!Tell(View(p.m), "operation_aborted")
      BY <1>3, <2>1, WaitFrame
    <2> HIDE DEF t
    <2>4. Core(t)
      BY <2>2, <2>3, RestCore
    <2>5. View(t.m) = b
      <3> HIDE DEF x
      <3>1. "stop" \in {"work", "stop", "stopped"}
        OBVIOUS
      <3>2. Own!Tell([x EXCEPT !.extern_state = "stop"], "operation_aborted") = b
        BY <1>3, <1>4, <3>1, ToldState, Zenon
      <3> QED
        BY <2>1, <2>3, <3>2, Zenon
    <2>6. /\ t.m.extern_state = "stop" /\ t.m.stop_handler = FALSE
          /\ t.m.intern_state \in {"work", "stop", "stopped"}
          /\ t.m \in ManagerStates /\ t.ses = g.ses
      BY <1>2, <1>6, <2>1, <2>3, PairOf DEF User, ManagerStates
    <2>7. b.run = Run(t.m)
      BY <2>5, <2>6, ViewOf
    <2> DEFINE ends == IF b.run = "work" THEN Own!Endings(b, "ok") ELSE {b}
    <2>8. /\ Core(q) /\ Keeps(g, q) /\ View(q.m) \in ends
          /\ q.m.wait_handler = FALSE /\ q.m.stop_handler = FALSE
          /\ q.m.intern_state \in {"stop", "stopped"}
          /\ q.m.intern_state = "stop" => q.m.extern_state = "stop"
      <3> HIDE DEF x, b
      <3>1. CASE t.m.intern_state = "work"
        <4> DEFINE y == start_stop(t, "operation_aborted")
                   reason == "ok"
        <4>1. t.m.extern_state \in {"work", "stop"}
              /\ (t.m.extern_state = "work" => reason = "operation_aborted")
          BY <2>6
        <4> HIDE DEF reason
        <4>2. /\ Core(y) /\ Keeps(t, y) /\ Stopping(t.m, y.m, "operation_aborted")
              /\ View(y.m) \in Own!Endings(View(t.m), reason)
          BY <1>3, <2>4, <3>1, <4>1, StartStop
        <4>3. q = y
          BY <3>1
        <4> HIDE DEF q, y
        <4>4. ends = Own!Endings(View(t.m), reason)
          BY <2>5, <2>7, <3>1 DEF Run, reason
        <4>5. Keeps(g, y)
          BY <2>6, <4>2 DEF Keeps
        <4>6. /\ y.m.wait_handler = FALSE /\ y.m.stop_handler = FALSE
              /\ y.m.intern_state \in {"stop", "stopped"}
              /\ y.m.intern_state = "stop" => y.m.extern_state = "stop"
          BY <2>3, <2>6, <4>2 DEF Stopping
        <4> QED
          BY <4>2, <4>3, <4>4, <4>5, <4>6
      <3>2. CASE t.m.intern_state # "work"
        <4>1. q = t
          BY <3>2
        <4> HIDE DEF q
        <4>2. ends = {b}
          BY <2>6, <2>7, <3>2 DEF Run
        <4>3. Keeps(g, t)
          BY <2>6 DEF Keeps
        <4> QED
          BY <2>3, <2>4, <2>5, <2>6, <3>2, <4>1, <4>2, <4>3
      <3> QED
        BY <3>1, <3>2
    <2> HIDE DEF q
    <2>9. q \in Pairs /\ q.m \in ManagerStates
      BY <2>8, PairOf DEF Core
    <2>10. Grows(g, q)
      BY <2>8 DEF Keeps, Grows
    <2>11. Own!Stopped(x) =
             {IF y.run = "stopped"
              THEN Own!Answer([y EXCEPT !.extern_state = "stopped"], "stop", "ok")
              ELSE [y EXCEPT !.stop_handler = TRUE] : y \in ends}
      <3>1. x.extern_state \notin {"stop", "stopped"}
        BY <1>4, <1>6
      <3> HIDE DEF x
      <3> QED
        BY <3>1, Zenon DEF Own!Stopped
    <2> HIDE DEF ends
    <2> DEFINE y == View(q.m)
    <2>12. y.run = Run(q.m)
      BY <2>9, ViewOf
    <2>13. CASE q.m.intern_state = "stopped"
      <3>1. z = done
        BY <1>1, <1>6, <2>13
      <3>2. /\ s \in Pairs /\ s.ses = q.ses /\ SameRest(s.m, q.m)
            /\ s.m.extern_state = "stopped" /\ s.m.intern_state = q.m.intern_state
            /\ s.m.wait_handler = q.m.wait_handler
            /\ s.m.stop_handler = q.m.stop_handler
            /\ View(s.m) = [y EXCEPT !.extern_state = "stopped"]
        BY <2>9, ExternFrame
      <3> HIDE DEF s, y
      <3>3. Core(s)
        BY <2>8, <3>2, RestCore
      <3>4. User(s.m)
        BY <2>8, <2>13, <3>2 DEF User
      <3>5. Inv(s)
        BY <3>2, <3>3, <3>4 DEF Inv
      <3>6. /\ Inv(done) /\ done.ses = s.ses
            /\ View(done.m) = Own!Answer(View(s.m), "stop", "ok")
        BY <1>3, <3>5, PostInv
      <3> HIDE DEF done, x
      <3>7. y.run = "stopped" /\ y \in ends
        BY <2>8, <2>12, <2>13 DEF Run, y
      <3>8. View(done.m) \in Own!Stopped(x)
        BY <2>11, <3>2, <3>6, <3>7, Zenon
      <3>9. Grows(g, done)
        BY <2>10, <3>2, <3>6 DEF Grows
      <3> QED
        BY <3>1, <3>6, <3>8, <3>9, GrowsQuiet DEF z, x
    <2>14. CASE q.m.intern_state # "stopped"
      <3>1. z = parked
        BY <1>1, <1>6, <2>14
      <3>2. /\ parked \in Pairs /\ parked.ses = q.ses /\ SameRest(parked.m, q.m)
            /\ parked.m.extern_state = q.m.extern_state
            /\ parked.m.intern_state = q.m.intern_state
            /\ parked.m.wait_handler = q.m.wait_handler
            /\ parked.m.stop_handler = TRUE
            /\ View(parked.m) = [y EXCEPT !.stop_handler = TRUE]
        BY <2>9, ParkFrame
      <3> HIDE DEF parked, y, x
      <3>3. Core(parked)
        BY <2>8, <3>2, RestCore
      <3>4. User(parked.m) /\ parked.m.extern_state = "stop"
        BY <2>8, <2>14, <3>2 DEF User
      <3>5. Inv(parked)
        BY <3>3, <3>4 DEF Inv
      <3>6. y.run # "stopped" /\ y \in ends
        BY <2>8, <2>12, <2>14 DEF Run, y
      <3>7. View(parked.m) \in Own!Stopped(x)
        BY <2>11, <3>2, <3>6, Zenon
      <3>8. Grows(g, parked)
        BY <2>10, <3>2 DEF Grows
      <3> QED
        BY <3>1, <3>5, <3>7, <3>8, GrowsQuiet DEF z, x
    <2> QED
      BY <2>13, <2>14
  <1> QED
    BY <1>5, <1>6

\* The user waits for the manager.
LEMMA UserWaits ==
  ASSUME NEW g, Inv(g)
  PROVE  LET z == start_extern_wait(g)
         IN  Inv(z) /\ Quiet(g, z) /\ View(z.m) \in Own!Waited(View(g.m))
  <1> DEFINE z == start_extern_wait(g)
             x == View(g.m)
             e == g.m.extern_wait_error
             refused == Post(g, "wait", "invalid_state")
             told == Post(g, "wait", e)
             parked == [g EXCEPT !.m.wait_handler = TRUE]
  <1>1. z = IF g.m.extern_state # "work" \/ g.m.wait_handler THEN refused
            ELSE IF g.m.intern_state # "work" THEN told ELSE parked
    BY Zenon DEF start_extern_wait
  <1>2. g \in Pairs /\ g.m \in ManagerStates /\ Core(g) /\ User(g.m)
    BY PairOf DEF Inv, Core
  <1>3. "wait" \in Api!Calls /\ e \in Errors /\ "invalid_state" \in Errors
    BY <1>2 DEF Api!Calls, Errors, Api!Errors, ManagerStates
  <1>4. /\ x.extern_state = g.m.extern_state /\ x.run = Run(g.m)
        /\ x.extern_wait_error = e /\ x.wait_handler = g.m.wait_handler
    BY <1>2, ViewOf
  <1>5. /\ Inv(refused) /\ refused.ses = g.ses
        /\ View(refused.m) = Own!Answer(x, "wait", "invalid_state")
    BY <1>3, PostInv
  <1> HIDE DEF e
  <1>6. /\ Inv(told) /\ told.ses = g.ses
        /\ View(told.m) = Own!Answer(x, "wait", e)
    BY <1>3, PostInv
  <1>7. /\ parked \in Pairs /\ parked.ses = g.ses /\ SameRest(parked.m, g.m)
        /\ parked.m.extern_state = g.m.extern_state
        /\ parked.m.intern_state = g.m.intern_state
        /\ parked.m.stop_handler = g.m.stop_handler
        /\ View(parked.m) = [x EXCEPT !.wait_handler = TRUE]
    BY <1>2, ParkFrame
  <1> HIDE DEF z, refused, told, parked, x
  <1>8. Own!Waited(x) =
          IF x.extern_state # "work" \/ x.wait_handler
          THEN {Own!Answer(x, "wait", "invalid_state")}
          ELSE IF x.run # "work" THEN {Own!Answer(x, "wait", e)}
          ELSE {[x EXCEPT !.wait_handler = TRUE]}
    BY <1>4, Zenon DEF Own!Waited
  <1>9. z.ses = g.ses
    BY <1>1, <1>5, <1>6, <1>7
  <1>10. Quiet(g, z)
    BY <1>9, GrowsQuiet DEF Grows
  <1>11. CASE g.m.extern_state # "work" \/ g.m.wait_handler
    BY <1>1, <1>4, <1>5, <1>8, <1>10, <1>11, Zenon DEF z, x
  <1>12. CASE ~(g.m.extern_state # "work" \/ g.m.wait_handler) /\ g.m.intern_state # "work"
    <2>1. z = told
      BY <1>1, <1>12, Zenon
    <2>2. x.run # "work"
      BY <1>4, <1>12 DEF Run
    <2>3. View(told.m) \in Own!Waited(x)
      BY <1>4, <1>6, <1>8, <1>12, <2>2, Zenon
    <2> QED
      BY <1>6, <1>10, <2>1, <2>3 DEF z, x
  <1>13. CASE ~(g.m.extern_state # "work" \/ g.m.wait_handler) /\ g.m.intern_state = "work"
    <2>1. z = parked
      BY <1>1, <1>13, Zenon
    <2>2. x.run = "work"
      BY <1>4, <1>13 DEF Run
    <2>3. View(parked.m) \in Own!Waited(x)
      BY <1>4, <1>7, <1>8, <1>13, <2>2, Zenon
    <2>4. Core(parked)
      BY <1>2, <1>7, RestCore
    <2>5. User(parked.m)
      BY <1>2, <1>7, <1>13 DEF User
    <2>6. Awake(parked)
      BY <1>7, <1>13, RestAwake DEF Inv
    <2> QED
      BY <1>10, <2>1, <2>3, <2>4, <2>5, <2>6 DEF z, x, Inv
  <1> QED
    BY <1>11, <1>12, <1>13

-----------------------------------------------------------------------------
(***************************************************************************)
(* The steps.                                                               *)
(***************************************************************************)
\* What the user may see of a step that is not his.
Unasked(a, b) == View(b) = View(a) \/ View(b) \in Own!Ended(View(a))

\* A handler keeps the invariant, and the user sees at most that the work ends.
LEMMA MovesInv ==
  ASSUME NEW g, Inv(g), NEW z, Moves(g, z), g.m.intern_state \in {"work", "stop"},
         g.m.intern_state = "work" => g.m.extern_state = "work"
  PROVE  Inv(z) /\ Quiet(g, z) /\ Unasked(g.m, z.m)
  <1> DEFINE x == View(g.m)
  <1>1. /\ Core(g) /\ User(g.m) /\ Core(z) /\ Quiet(g, z)
        /\ g.m \in ManagerStates /\ z.m \in ManagerStates
    BY PairOf DEF Inv, Moves, Core
  <1>2. x.run = Run(g.m)
    BY <1>1, ViewOf
  <1>3. CASE SameUser(z.m, g.m)
    <2>1. View(z.m) = x
      BY <1>3 DEF SameUser, View, Run
    <2>2. User(z.m)
      BY <1>1, <1>3 DEF User, SameUser
    <2>3. Awake(z)
      BY <1>3 DEF Moves, Awake, SameUser
    <2> QED
      BY <1>1, <2>1, <2>2, <2>3 DEF Inv, Unasked
  <1>4. CASE g.m.intern_state = "work" /\ ~SameUser(z.m, g.m)
    <2>1. /\ Stopping(g.m, z.m, "error") /\ View(z.m) \in Own!Endings(x, "error")
          /\ Awake(z)
      BY <1>4 DEF Moves, Works
    <2> HIDE DEF x
    <2>2. x.run = "work"
      BY <1>2, <1>4 DEF Run
    <2>3. Own!Ended(x) = UNION {Own!Endings(x, reason) : reason \in {"error"}}
      BY <2>2, Zenon DEF Own!Ended
    <2>4. View(z.m) \in Own!Ended(x)
      BY <2>1, <2>3, Zenon
    <2>5. User(z.m)
      BY <1>1, <1>4, <2>1 DEF User, Stopping
    <2> QED
      BY <1>1, <2>1, <2>4, <2>5 DEF Inv, Unasked, x
  <1>5. CASE g.m.intern_state = "stop" /\ ~SameUser(z.m, g.m)
    <2>1. /\ z.m.intern_state = "stopped"
          /\ z.m.extern_wait_error = g.m.extern_wait_error
          /\ z.m.wait_handler = g.m.wait_handler
          /\ z.m.extern_state = IF g.m.extern_state = "stop" THEN "stopped"
                                ELSE g.m.extern_state
          /\ z.m.stop_handler = IF g.m.extern_state = "stop" THEN FALSE
                                ELSE g.m.stop_handler
          /\ View(z.m) = Own!Finish(x)
      BY <1>5 DEF Moves, Ends
    <2> HIDE DEF x
    <2>2. x.run = "ending"
      BY <1>2, <1>5 DEF Run
    <2>3. Own!Ended(x) = {Own!Finish(x)}
      BY <2>2 DEF Own!Ended
    <2>4. View(z.m) \in Own!Ended(x)
      BY <2>1, <2>3, Zenon
    <2>5. User(z.m)
      BY <1>1, <1>5, <2>1 DEF User
    <2>6. Awake(z)
      BY <2>1 DEF Awake
    <2> QED
      BY <1>1, <2>4, <2>5, <2>6 DEF Inv, Unasked, x
  <1> QED
    BY <1>3, <1>4, <1>5

\* A manager that hears of a session or an accept was started by its user.
LEMMA InUse ==
  ASSUME NEW g, Inv(g), g.m.pending_operations > 0
  PROVE  g.m.intern_state = "work" => g.m.extern_state = "work"
  <1>1. User(g.m) /\ g.m \in ManagerStates /\ g.m.pending_operations \in Nat
    BY PairOf DEF Inv, Core, ManagerStates
  <1>2. g.m.extern_state # "ready"
    BY <1>1 DEF User
  <1> QED
    BY <1>1, <1>2 DEF User, ManagerStates

\* A step of the session of w: its calls only move on.
LEMMA SessionMoves ==
  ASSUME NEW g, Inv(g), NEW w \in Wrappers, NEW u, WrapperSound(u), Kept(g.ses[w], u),
         NEW y \in Pairs, y.m = g.m, y.ses = [g.ses EXCEPT ![w] = u]
  PROVE  Inv(y) /\ Quiet(g, y)
  <1> DEFINE v == g.ses[w]
  <1>1. /\ Core(g) /\ User(g.m) /\ g \in Pairs /\ Links(g)
        /\ g.ses \in [Wrappers -> WrapperStates]
    BY PairOf DEF Inv, Core
  <1>2. /\ u.state = v.state /\ u.attached = v.attached
        /\ u.pending_operations = v.pending_operations
        /\ \A c \in Api!Calls : Has(u, c) <=> Has(v, c)
    BY DEF Kept
  <1>3. Open(u) <=> Open(v)
    BY <1>2 DEF Open, Api!Calls
  <1>4. y.ses[w] = u /\ \A x \in Wrappers : x # w => y.ses[x] = g.ses[x]
    BY <1>1
  <1> HIDE DEF v
  <1>5. Links(y)
    <2>1. \A x \in Wrappers :
            /\ y.ses[x].state = g.ses[x].state
            /\ y.ses[x].attached = g.ses[x].attached
            /\ y.ses[x].pending_operations = g.ses[x].pending_operations
      BY <1>2, <1>4 DEF v
    <2>2. /\ g.m.accepting \in Wrappers \cup {NoSession}
          /\ g.m.recycled_sessions \in Seq(Wrappers)
      BY <1>1, PairOf DEF ManagerStates
    <2>3. \A x \in ToSet(g.m.recycled_sessions) : x \in Wrappers
      BY <2>2 DEF ToSet
    <2> QED
      BY <1>1, <2>1, <2>2, <2>3 DEF Links
  <1>6. Counted(y)
    BY <1>1, <1>2, CountedMove DEF Core, v
  <1>7. Accepts(y)
    BY <1>1 DEF Core, Accepts
  <1>8. Walk(y)
    <2>1. CASE g.m.intern_state = "stopped"
      BY <1>1, <2>1 DEF Core, Walk
    <2>2. CASE g.m.intern_state # "stopped"
      BY <1>1, <1>2, <2>2, WalkStays DEF Core, v
    <2> QED
      BY <2>1, <2>2
  <1>9. Stats(y)
    <2>1. /\ Stats(g) /\ Len(y.m.active_sessions) <= y.m.max_active
          /\ y.m.max_active <= MaxSessionCount /\ y.m.max_active <= y.m.total_accepted
      BY <1>1 DEF Core, Stats
    <2> QED
      BY <1>1, <1>3, <2>1, StatsMove DEF v
  <1>10. Core(y)
    BY <1>1, <1>5, <1>6, <1>7, <1>8, <1>9, CoreMove
  <1>11. Quiet(g, y)
    BY <1>2, <1>4 DEF Quiet, v
  <1>12. g.m.extern_state = "work" => Awake(y)
    BY DEF Inv, Awake
  <1> QED
    BY <1>1, <1>10, <1>11, <1>12 DEF Inv

\* The manager before its user has touched it.
LEMMA ManagerFields ==
  /\ session_manager \in ManagerStates
  /\ session_manager.extern_state = "ready" /\ session_manager.intern_state = "work"
  /\ session_manager.accept_state = "ready" /\ session_manager.pending_operations = 0
  /\ session_manager.active_sessions = <<>> /\ session_manager.recycled_sessions = <<>>
  /\ session_manager.accepting = NoSession /\ session_manager.scheduled = FALSE
  /\ session_manager.extern_wait_error = "ok"
  /\ session_manager.wait_handler = FALSE /\ session_manager.stop_handler = FALSE
  /\ session_manager.posted = [c \in Api!Calls |-> <<>>]
  /\ session_manager.max_active = 0 /\ session_manager.total_accepted = 0
  /\ session_manager.stopped = 0
  <1> DEFINE none == <<>>
             p == [c \in Api!Calls |-> none]
  <1>1. none \in Seq(Errors) /\ none \in Seq(Wrappers) /\ none = <<>> /\ "ok" \in Errors
    BY DEF Errors, Api!Errors
  <1>2. session_manager =
          [extern_state |-> "ready", intern_state |-> "work", accept_state |-> "ready",
           pending_operations |-> 0, open |-> FALSE, active_sessions |-> none,
           recycled_sessions |-> none, stopping_sessions_end |-> NoSession,
           accept_error |-> "ok", extern_wait_error |-> "ok",
           wait_handler |-> FALSE, stop_handler |-> FALSE,
           posted |-> p, accepting |-> NoSession,
           scheduled |-> FALSE, max_active |-> 0, total_accepted |-> 0, stopped |-> 0]
    BY Zenon DEF session_manager
  <1>3. p = [c \in Api!Calls |-> <<>>]
    OBVIOUS
  <1> HIDE DEF none
  <1>4. p \in [Api!Calls -> Seq(Errors)]
    BY <1>1
  <1> HIDE DEF p
  <1> QED
    BY <1>1, <1>2, <1>3, <1>4 DEF ManagerStates

\* A manager that was created or reset.
LEMMA IdleInv ==
  ASSUME NEW g \in Pairs, \A w \in Wrappers : g.ses[w] = Detached,
         Distinct(g.m.recycled_sessions),
         g.m.extern_state = "ready", g.m.intern_state = "work",
         g.m.accept_state = "ready", g.m.pending_operations = 0,
         g.m.active_sessions = <<>>, g.m.accepting = NoSession,
         g.m.scheduled = FALSE, g.m.extern_wait_error = "ok",
         g.m.wait_handler = FALSE, g.m.stop_handler = FALSE,
         g.m.max_active = 0, g.m.total_accepted = 0, g.m.stopped = 0
  PROVE  Inv(g)
  <1>1. /\ g.ses \in [Wrappers -> WrapperStates] /\ g.m.recycled_sessions \in Seq(Wrappers)
        /\ NoSession \notin Wrappers /\ MaxSessionCount \in Nat
    BY PairOf, ManagerAssumption DEF ManagerStates
  <1>2. /\ WrapperSound(Detached) /\ Detached.pending_operations = 0
        /\ Detached.state = "ready" /\ Detached.attached = FALSE
        /\ ~Has(Detached, "start") /\ ~Has(Detached, "wait")
    BY FreshSound DEF Detached, Api!Calls
  <1>3. Links(g)
    <2>1. ToSet(<<>>) = {} /\ Distinct(<<>>)
      BY DEF ToSet, Distinct
    <2>2. \A w \in ToSet(g.m.recycled_sessions) : w \in Wrappers
      BY <1>1 DEF ToSet
    <2> QED
      BY <1>1, <1>2, <2>1, <2>2 DEF Links, Busy
  <1>4. Counted(g)
    <2>1. \A x : x \notin Pending(g.ses)
      <3>1. \A w \in Wrappers : g.ses[w].pending_operations = 0
        BY <1>2
      <3>2. \A k : k \notin 1 .. 0
        OBVIOUS
      <3> QED
        BY <1>1, <3>1, <3>2, PendingOf
    <2>2. Pending(g.ses) = {}
      BY <2>1
    <2> QED
      BY <2>2, FS_EmptySet DEF Counted, Flag
  <1>5. Accepts(g) /\ Walk(g)
    BY <1>1 DEF Accepts, Walk
  <1>6. Stats(g)
    <2>1. Uncounted(g.ses) = {}
      BY <1>2 DEF Uncounted
    <2> QED
      BY <1>1, <2>1, FS_EmptySet DEF Stats
  <1>7. User(g.m)
    BY DEF User
  <1> QED
    BY <1>2, <1>3, <1>4, <1>5, <1>6, <1>7 DEF Inv, Core

\* When no operation is pending, no session is in use.
LEMMA NothingInUse ==
  ASSUME NEW g, Core(g), g.m.pending_operations = 0
  PROVE  g.m.accepting = NoSession /\ \A w \in Wrappers : g.ses[w] = Detached
  <1> DEFINE a == Cardinality(Pending(g.ses))
             c == Flag(g.m.accepting # NoSession)
             f == Flag(g.m.scheduled)
  <1>1. /\ g.ses \in [Wrappers -> WrapperStates] /\ NoSession \notin Wrappers
        /\ g.m \in ManagerStates
    BY PairOf, ManagerAssumption DEF Core
  <1>2. a \in Nat /\ c \in {0, 1} /\ f \in {0, 1} /\ 0 = c + f + a
    BY <1>1, PendingFinite DEF Core, Counted, Flag
  <1>3. g.m.accepting # NoSession => c = 1
    BY DEF Flag
  <1>4. \A w \in Wrappers : g.ses[w].pending_operations > 0 => a > 0
    BY <1>1, PendingNone
  <1> HIDE DEF a, c, f
  <1>5. a = 0 /\ c = 0
    BY <1>2
  <1>6. g.m.accepting = NoSession /\ \A w \in Wrappers : ~(g.ses[w].pending_operations > 0)
    BY <1>3, <1>4, <1>5
  <1>7. \A w \in Wrappers : ~g.ses[w].attached
    BY <1>1, <1>6 DEF Core, Links
  <1> QED
    BY <1>6, <1>7 DEF Core, WrapperSound

\* The next state of the program is the pair y.
LEMMA Becomes ==
  ASSUME NEW y \in Pairs, Become(y)
  PROVE  Current' = y
  BY DEF Become, Current, Pairs

\* The parts of the current pair.
LEMMA CurrentFields ==
  /\ Current.m = m /\ Current.ses = ses /\ Current'.m = m' /\ Current'.ses = ses'
  BY DEF Current

\* What a step does to what the user sees.
Seen(a, b) ==
  \/ View(b) = View(a)
  \/ View(b) \in Own!Started(View(a))
  \/ View(b) \in Own!Waited(View(a))
  \/ View(b) \in Own!Stopped(View(a))
  \/ a.extern_state # "ready" /\ View(b) \in Own!Ended(View(a))
  \/ a.extern_state \in {"ready", "stopped"} /\ View(b) = Own!Fresh

\* The reset of the manager.
LEMMA ResetInv ==
  ASSUME Inv(Current), NEW free \in BOOLEAN, Reset(free)
  PROVE  Inv(Current') /\ Quiet(Current, Current') /\ Seen(m, m')
  <1> DEFINE g == Current
             r == IF free THEN <<>> ELSE m.recycled_sessions
             e == m.stopping_sessions_end
             n == m.accept_error
             k == [session_manager EXCEPT !.recycled_sessions = r,
                     !.stopping_sessions_end = e, !.accept_error = n]
             y == [m |-> k, ses |-> ses]
             p == [c \in Api!Calls |-> <<>>]
  <1>1. /\ g.m = m /\ g.ses = ses /\ m.pending_operations = 0
        /\ m.extern_state \in {"ready", "stopped"} /\ m' = k /\ ses' = ses
    BY CurrentFields, Zenon DEF Reset
  <1>2. /\ Core(g) /\ m \in ManagerStates /\ ses \in [Wrappers -> WrapperStates]
        /\ Distinct(m.recycled_sessions)
    BY <1>1, PairOf DEF Inv, Core, Links
  <1>3. Current' = y
    BY <1>1, Zenon DEF Current
  <1>4. \A w \in Wrappers : ses[w] = Detached
    BY <1>1, <1>2, NothingInUse
  <1>5. r \in Seq(Wrappers) /\ Distinct(r)
    <2>1. Distinct(<<>>) /\ <<>> \in Seq(Wrappers)
      BY DEF Distinct
    <2> QED
      BY <1>2, <2>1 DEF ManagerStates
  <1>6. e \in Wrappers \cup {NoSession} /\ n \in Errors
    BY <1>2 DEF ManagerStates
  <1> HIDE DEF r, e, n, p
  <1>7. /\ k \in ManagerStates /\ k.recycled_sessions = r
        /\ k.extern_state = "ready" /\ k.intern_state = "work"
        /\ k.accept_state = "ready" /\ k.pending_operations = 0
        /\ k.active_sessions = <<>> /\ k.accepting = NoSession
        /\ k.scheduled = FALSE /\ k.extern_wait_error = "ok"
        /\ k.wait_handler = FALSE /\ k.stop_handler = FALSE
        /\ k.max_active = 0 /\ k.total_accepted = 0 /\ k.stopped = 0
        /\ k.posted = session_manager.posted
    <2>1. session_manager \in ManagerStates
      BY ManagerFields
    <2>2. /\ k \in ManagerStates /\ k.recycled_sessions = r
          /\ k.extern_state = session_manager.extern_state
          /\ k.intern_state = session_manager.intern_state
          /\ k.accept_state = session_manager.accept_state
          /\ k.pending_operations = session_manager.pending_operations
          /\ k.active_sessions = session_manager.active_sessions
          /\ k.accepting = session_manager.accepting
          /\ k.scheduled = session_manager.scheduled
          /\ k.extern_wait_error = session_manager.extern_wait_error
          /\ k.wait_handler = session_manager.wait_handler
          /\ k.stop_handler = session_manager.stop_handler
          /\ k.max_active = session_manager.max_active
          /\ k.total_accepted = session_manager.total_accepted
          /\ k.stopped = session_manager.stopped
          /\ k.posted = session_manager.posted
      BY <1>5, <1>6, <2>1 DEF ManagerStates
    <2> HIDE DEF k
    <2> QED
      BY <2>2, ManagerFields, Zenon
  <1> HIDE DEF k
  <1>8. y \in Pairs /\ y.m = k /\ y.ses = ses
    BY <1>2, <1>7 DEF Pairs
  <1> HIDE DEF y
  <1>9. Inv(y)
    BY <1>4, <1>5, <1>7, <1>8, IdleInv
  <1>10. Quiet(g, y)
    BY <1>1, <1>8, GrowsQuiet DEF Grows
  <1>11. View(k) = Own!Fresh
    <2>1. k.posted = p
      BY <1>7, ManagerFields DEF p
    <2>2. Own!Fresh = [extern_state |-> "ready", run |-> "work",
                       extern_wait_error |-> "ok", wait_handler |-> FALSE,
                       stop_handler |-> FALSE, posted |-> p]
      BY DEF Own!Fresh, Own!Calls, Api!Calls, p
    <2>3. Run(k) = "work"
      BY <1>7 DEF Run
    <2> QED
      BY <1>7, <2>1, <2>2, <2>3, Zenon DEF View
  <1>12. Seen(m, m')
    BY <1>1, <1>11 DEF Seen
  <1> QED
    BY <1>3, <1>9, <1>10, <1>12 DEF y

\* The strand of a session runs a call.
LEMMA RunCallInv ==
  ASSUME Inv(Current), NEW w \in Wrappers, RunCall(w)
  PROVE  Inv(Current') /\ Quiet(Current, Current') /\ Seen(m, m')
  <1> DEFINE v == ses[w]
             q == Tail(v.queue)
  <1>1. /\ Core(Current) /\ ses \in [Wrappers -> WrapperStates] /\ m \in ManagerStates
        /\ WrapperSound(v) /\ Current.ses = ses /\ Current.m = m
    BY CurrentFields, PairOf DEF Inv, Core
  <1>2. v.queue # <<>> /\ m' = m
    BY DEF RunCall
  <1>3. v.queue \in Queues /\ v \in WrapperStates
    BY <1>1 DEF WrapperSound, Places
  <1>4. Head(v.queue) \in {"start", "wait", "stop"}
    BY <1>2, <1>3, QueueHead DEF Api!Calls
  <1>5. PICK x \in (CASE Head(v.queue) = "start" -> Api!Started(v.api)
                      [] Head(v.queue) = "wait"  -> Api!Waited(v.api)
                      [] Head(v.queue) = "stop"  -> Api!Stopped(v.api)) :
               ses' = [ses EXCEPT ![w].api = x, ![w].queue = Tail(@)]
    BY Zenon DEF RunCall
  <1> DEFINE u == [v EXCEPT !.api = x, !.queue = q]
             vs == [ses EXCEPT ![w] = u]
             y == [m |-> m, ses |-> vs]
  <1>6. WrapperSound(u) /\ Kept(v, u)
    <2>1. CASE Head(v.queue) = "start"
      <3>1. x \in Api!Started(v.api)
        BY <1>5, <2>1
      <3> QED
        BY <1>1, <1>2, <2>1, <3>1, RunStart
    <2>2. CASE Head(v.queue) = "wait"
      <3>1. x \in Api!Waited(v.api)
        BY <1>5, <2>2
      <3> QED
        BY <1>1, <1>2, <2>2, <3>1, RunWait
    <2>3. CASE Head(v.queue) = "stop"
      <3>1. x \in Api!Stopped(v.api)
        BY <1>5, <2>3
      <3> QED
        BY <1>1, <1>2, <2>3, <3>1, RunStop
    <2> QED
      BY <1>4, <2>1, <2>2, <2>3
  <1>7. ses' = vs
    BY <1>1, <1>3, <1>5 DEF WrapperStates
  <1> HIDE DEF u
  <1>8. vs \in [Wrappers -> WrapperStates]
    BY <1>1, <1>6 DEF WrapperSound
  <1>9. Current' = y
    BY <1>2, <1>7, Zenon DEF Current
  <1> HIDE DEF vs
  <1>10. y \in Pairs /\ y.m = m /\ y.ses = vs
    BY <1>1, <1>8 DEF Pairs
  <1> HIDE DEF y, v
  <1>11. Inv(y) /\ Quiet(Current, y)
    <2>1. Kept(Current.ses[w], u) /\ y.m = Current.m
          /\ y.ses = [Current.ses EXCEPT ![w] = u]
      BY <1>1, <1>6, <1>10, Zenon DEF v, vs
    <2> QED
      BY <1>6, <1>10, <2>1, SessionMoves
  <1>12. Seen(m, m')
    BY <1>2 DEF Seen
  <1> QED
    BY <1>9, <1>11, <1>12

\* A session ends by itself.
LEMMA EndSessionInv ==
  ASSUME Inv(Current), NEW w \in Wrappers, EndSession(w)
  PROVE  Inv(Current') /\ Quiet(Current, Current') /\ Seen(m, m')
  <1> DEFINE v == ses[w]
             q == v.queue
  <1>1. /\ Core(Current) /\ ses \in [Wrappers -> WrapperStates] /\ m \in ManagerStates
        /\ WrapperSound(v) /\ Current.ses = ses /\ Current.m = m
    BY CurrentFields, PairOf DEF Inv, Core
  <1>2. v.api.extern_state # "ready" /\ m' = m
    BY DEF EndSession
  <1>3. v \in WrapperStates
    BY <1>1 DEF WrapperSound
  <1>4. PICK x \in Api!Ended(v.api) : ses' = [ses EXCEPT ![w].api = x]
    BY Zenon DEF EndSession
  <1> DEFINE u == [v EXCEPT !.api = x, !.queue = q]
             vs == [ses EXCEPT ![w] = u]
             y == [m |-> m, ses |-> vs]
  <1>5. WrapperSound(u) /\ Kept(v, u)
    BY <1>1, <1>2, <1>4, RunEnd
  <1>6. ses' = vs
    <2>1. u = [v EXCEPT !.api = x]
      BY <1>3 DEF WrapperStates
    <2> QED
      BY <1>4, <2>1, Zenon
  <1> HIDE DEF u
  <1>7. vs \in [Wrappers -> WrapperStates]
    BY <1>1, <1>5 DEF WrapperSound
  <1>8. Current' = y
    BY <1>2, <1>6, Zenon DEF Current
  <1> HIDE DEF vs
  <1>9. y \in Pairs /\ y.m = m /\ y.ses = vs
    BY <1>1, <1>7 DEF Pairs
  <1> HIDE DEF y, v
  <1>10. Inv(y) /\ Quiet(Current, y)
    <2>1. Kept(Current.ses[w], u) /\ y.m = Current.m
          /\ y.ses = [Current.ses EXCEPT ![w] = u]
      BY <1>1, <1>5, <1>9, Zenon DEF v, vs
    <2> QED
      BY <1>5, <1>9, <2>1, SessionMoves
  <1>11. Seen(m, m')
    BY <1>2 DEF Seen
  <1> QED
    BY <1>8, <1>10, <1>11

\* A handler leads to the pair z.
LEMMA HandlerInv ==
  ASSUME Inv(Current), NEW z, Moves(Current, z), Become(z),
         m.intern_state \in {"work", "stop"}, m.pending_operations > 0
  PROVE  Inv(Current') /\ Quiet(Current, Current') /\ Seen(m, m')
  <1> DEFINE g == Current
  <1>1. g.m = m /\ g.ses = ses
    BY CurrentFields
  <1> HIDE DEF g
  <1>2. g.m.intern_state = "work" => g.m.extern_state = "work"
    BY <1>1, InUse DEF g
  <1>3. Inv(z) /\ Quiet(g, z) /\ Unasked(g.m, z.m)
    BY <1>1, <1>2, MovesInv DEF g
  <1>4. Current' = z /\ m' = z.m
    BY <1>3, Becomes DEF Inv, Core, Become
  <1>5. m.extern_state # "ready"
    BY <1>1 DEF Inv, User, g
  <1>6. Seen(m, m')
    BY <1>1, <1>3, <1>4, <1>5 DEF Unasked, Seen
  <1> QED
    BY <1>3, <1>4, <1>6 DEF g

\* Every step keeps the invariant, gives back only sessions that are out of use,
\* and is to the user a step of the interface or nothing.
LEMMA NextInv ==
  ASSUME Inv(Current), Next
  PROVE  Inv(Current') /\ Quiet(Current, Current') /\ Seen(m, m')
  <1> DEFINE g == Current
  <1>1. /\ g.m = m /\ g.ses = ses /\ Core(g) /\ User(m) /\ m \in ManagerStates
        /\ m.intern_state \in {"work", "stop", "stopped"}
    BY CurrentFields, PairOf DEF Inv, Core, ManagerStates
  <1> HIDE DEF g
  <1>2. ASSUME NEW z, Become(z), Inv(z), Quiet(g, z), Seen(m, z.m)
        PROVE  Inv(Current') /\ Quiet(Current, Current') /\ Seen(m, m')
    <2>1. Current' = z /\ m' = z.m
      BY <1>2, Becomes DEF Inv, Core, Become
    <2> QED
      BY <1>2, <2>1 DEF g
  <1>3. CASE AsyncStart
    <2>1. PICK f \in SUBSET Faults : Become(start_extern_start(Current, f))
      BY <1>3, Zenon DEF AsyncStart
    <2> DEFINE z == start_extern_start(g, f)
    <2>2. Inv(z) /\ Quiet(g, z) /\ View(z.m) \in Own!Started(View(g.m))
      BY UserStarts DEF g
    <2>3. Become(z)
      BY <2>1 DEF g
    <2> HIDE DEF z
    <2> QED
      BY <1>1, <1>2, <2>2, <2>3 DEF Seen
  <1>4. CASE AsyncWait
    <2> DEFINE z == start_extern_wait(g)
    <2>1. Inv(z) /\ Quiet(g, z) /\ View(z.m) \in Own!Waited(View(g.m))
      BY UserWaits DEF g
    <2>2. Become(z)
      BY <1>4 DEF AsyncWait, g
    <2> HIDE DEF z
    <2> QED
      BY <1>1, <1>2, <2>1, <2>2 DEF Seen
  <1>5. CASE AsyncStop
    <2> DEFINE z == start_extern_stop(g)
    <2>1. Inv(z) /\ Quiet(g, z) /\ View(z.m) \in Own!Stopped(View(g.m))
      BY UserStops DEF g
    <2>2. Become(z)
      BY <1>5 DEF AsyncStop, g
    <2> HIDE DEF z
    <2> QED
      BY <1>1, <1>2, <2>1, <2>2 DEF Seen
  <1>6. CASE HandleAcceptAtWork
    <2>1. m.accepting # NoSession /\ m.intern_state = "work"
      BY <1>6 DEF HandleAcceptAtWork
    <2>2. PICK error \in AcceptResults, f \in SUBSET Faults :
            Become(handle_accept_at_work(Current, m.accepting, error, f))
      BY <1>6, Zenon DEF HandleAcceptAtWork
    <2>3. /\ error \in {"ok", "no_descriptors", "error", "aborted"}
          /\ error = "aborted" => ~m.open
      BY DEF AcceptResults
    <2>4. m.pending_operations > 0
      BY <1>1, <2>1, AcceptArrives
    <2>5. m.extern_state = "work"
      BY <1>1, <2>1, <2>4, InUse DEF g
    <2> DEFINE z == handle_accept_at_work(g, g.m.accepting, error, f)
    <2>6. Moves(g, z)
      BY <1>1, <2>1, <2>3, <2>5, AcceptAtWork
    <2>7. Become(z)
      BY <1>1, <2>2 DEF g
    <2> HIDE DEF z
    <2> QED
      BY <2>1, <2>4, <2>6, <2>7, HandlerInv DEF g
  <1>7. CASE HandleAcceptAtStop
    <2>1. m.accepting # NoSession /\ m.intern_state = "stop"
      BY <1>7 DEF HandleAcceptAtStop
    <2>2. PICK error \in AcceptResults :
            Become(handle_accept_at_stop(Current, m.accepting, error))
      BY <1>7, Zenon DEF HandleAcceptAtStop
    <2>3. m.pending_operations > 0
      BY <1>1, <2>1, AcceptArrives
    <2> DEFINE z == handle_accept_at_stop(g, g.m.accepting, error)
    <2>4. Moves(g, z)
      BY <1>1, <2>1, AcceptAtStop
    <2>5. Become(z)
      BY <1>1, <2>2 DEF g
    <2> HIDE DEF z
    <2> QED
      BY <2>1, <2>3, <2>4, <2>5, HandlerInv DEF g
  <1>8. CASE HandleScheduled
    <2> DEFINE z == handle_scheduled_active_session_stop(g)
    <2>1. m.scheduled /\ Become(z)
      BY <1>8 DEF HandleScheduled, g
    <2>2. Core(z) /\ Keeps(g, z) /\ Ends(g.m, z.m) /\ z.m.intern_state # "work"
      BY <1>1, <2>1, ScheduledCore
    <2> HIDE DEF z
    <2>3. m.intern_state = "stop"
      BY <1>1, <2>1 DEF Core, Walk
    <2>4. Quiet(g, z)
      BY <2>2, GrowsQuiet DEF Keeps, Grows
    <2>5. Moves(g, z)
      BY <1>1, <2>2, <2>3, <2>4 DEF Moves
    <2>6. Inv(z) /\ Quiet(g, z) /\ Unasked(g.m, z.m)
      BY <1>1, <2>3, <2>5, MovesInv DEF g
    <2>7. m.extern_state # "ready"
      BY <1>1, <2>3 DEF User
    <2> QED
      BY <1>1, <1>2, <2>1, <2>6, <2>7 DEF Unasked, Seen
  <1>9. ASSUME NEW w \in Wrappers, NEW c \in Api!Calls, Completed(w, c)
        PROVE  /\ g.ses[w].api.posted[c] # <<>> /\ m.intern_state \in {"work", "stop"}
               /\ g.m.intern_state \in {"work", "stop"}
               /\ m.pending_operations > 0
               /\ g.m.intern_state = "work" => g.m.extern_state = "work"
    <2>1. g.ses[w].api.posted[c] # <<>> /\ m.intern_state \in {"work", "stop"}
      BY <1>1, <1>9 DEF Completed
    <2>2. g.m.pending_operations > 0
      <3> HIDE <1>9
      <3> QED
        BY <1>1, <2>1, AnswerLeaves, Zenon
    <2>3. g.m.intern_state = "work" => g.m.extern_state = "work"
      BY <2>2, InUse DEF g
    <2> QED
      BY <1>1, <2>1, <2>2, <2>3
  <1>10. "start" \in Api!Calls /\ "wait" \in Api!Calls /\ "stop" \in Api!Calls
    BY DEF Api!Calls
  <1>11. ASSUME NEW w \in Wrappers, HandleSessionStart(w)
         PROVE  Inv(Current') /\ Quiet(Current, Current') /\ Seen(m, m')
    <2> DEFINE error == Head(ses[w].api.posted["start"])
    <2>1. PICK f \in SUBSET Faults :
            Become(handle_session_start(Current, w, error, f))
      BY <1>11, Zenon DEF HandleSessionStart
    <2>2. /\ g.ses[w].api.posted["start"] # <<>> /\ m.intern_state \in {"work", "stop"}
          /\ g.m.intern_state \in {"work", "stop"} /\ m.pending_operations > 0
          /\ g.m.intern_state = "work" => g.m.extern_state = "work"
      BY <1>9, <1>10, <1>11 DEF HandleSessionStart
    <2> DEFINE z == handle_session_start(g, w, error, f)
    <2>3. error = Head(g.ses[w].api.posted["start"])
      BY <1>1
    <2> HIDE DEF error
    <2>4. Moves(g, z)
      BY <1>1, <2>2, <2>3, SessionStarts
    <2>5. Become(z)
      BY <2>1 DEF g
    <2> HIDE DEF z
    <2> QED
      BY <2>2, <2>4, <2>5, HandlerInv DEF g
  <1>12. ASSUME NEW w \in Wrappers, HandleSessionWait(w)
         PROVE  Inv(Current') /\ Quiet(Current, Current') /\ Seen(m, m')
    <2> DEFINE error == Head(ses[w].api.posted["wait"])
    <2>1. PICK f \in SUBSET Faults :
            Become(handle_session_wait(Current, w, error, f))
      BY <1>12, Zenon DEF HandleSessionWait
    <2>2. /\ g.ses[w].api.posted["wait"] # <<>> /\ m.intern_state \in {"work", "stop"}
          /\ g.m.intern_state \in {"work", "stop"} /\ m.pending_operations > 0
          /\ g.m.intern_state = "work" => g.m.extern_state = "work"
      BY <1>9, <1>10, <1>12 DEF HandleSessionWait
    <2> HIDE DEF error
    <2> DEFINE z == handle_session_wait(g, w, error, f)
    <2>3. Moves(g, z)
      BY <1>1, <2>2, SessionWaited
    <2>4. Become(z)
      BY <2>1 DEF g
    <2> HIDE DEF z
    <2> QED
      BY <2>2, <2>3, <2>4, HandlerInv DEF g
  <1>13. ASSUME NEW w \in Wrappers, HandleSessionStop(w)
         PROVE  Inv(Current') /\ Quiet(Current, Current') /\ Seen(m, m')
    <2> DEFINE error == Head(ses[w].api.posted["stop"])
    <2>1. PICK f \in SUBSET Faults :
            Become(handle_session_stop(Current, w, error, f))
      BY <1>13, Zenon DEF HandleSessionStop
    <2>2. /\ g.ses[w].api.posted["stop"] # <<>> /\ m.intern_state \in {"work", "stop"}
          /\ g.m.intern_state \in {"work", "stop"} /\ m.pending_operations > 0
          /\ g.m.intern_state = "work" => g.m.extern_state = "work"
      BY <1>9, <1>10, <1>13 DEF HandleSessionStop
    <2> HIDE DEF error
    <2> DEFINE z == handle_session_stop(g, w, error, f)
    <2>3. Moves(g, z)
      BY <1>1, <2>2, SessionStops
    <2>4. Become(z)
      BY <2>1 DEF g
    <2> HIDE DEF z
    <2> QED
      BY <2>2, <2>3, <2>4, HandlerInv DEF g
  <1>14. ASSUME NEW w \in Wrappers, RunCall(w)
         PROVE  Inv(Current') /\ Quiet(Current, Current') /\ Seen(m, m')
    BY <1>14, RunCallInv
  <1>15. ASSUME NEW w \in Wrappers, EndSession(w)
         PROVE  Inv(Current') /\ Quiet(Current, Current') /\ Seen(m, m')
    BY <1>15, EndSessionInv
  <1>16. ASSUME NEW free \in BOOLEAN, Reset(free)
         PROVE  Inv(Current') /\ Quiet(Current, Current') /\ Seen(m, m')
    BY <1>16, ResetInv
  <1> QED
    BY <1>3, <1>4, <1>5, <1>6, <1>7, <1>8, <1>11, <1>12, <1>13, <1>14, <1>15, <1>16
       DEF Next

\* The number of unanswered operations of a sound wrapper is what it counts.
LEMMA UnansweredIs ==
  ASSUME NEW v, WrapperSound(v)
  PROVE  Unanswered(v) = v.pending_operations
  <1> DEFINE p == v.api.posted
             q == v.queue
             h == v.api.wait_handler
             s == v.api.stop_handler
             In(c) == c \in ToSet(q)
  <1>1. Places(v) /\ v \in WrapperStates /\ v.pending_operations = Answers(v)
    BY DEF WrapperSound
  <1>2. h \in BOOLEAN /\ s \in BOOLEAN
    BY <1>1 DEF WrapperStates, Api!ApiStates
  <1>3. /\ q \in Queues
        /\ p["start"] = <<>> \/ Len(p["start"]) = 1
        /\ p["wait"] = <<>> \/ Len(p["wait"]) = 1
        /\ p["stop"] = <<>> \/ Len(p["stop"]) = 1
        /\ In("start") => p["start"] = <<>>
        /\ In("wait") => p["wait"] = <<>>
        /\ In("stop") => p["stop"] = <<>>
        /\ h => ~In("wait") /\ p["wait"] = <<>>
        /\ s => ~In("stop") /\ p["stop"] = <<>>
    BY <1>1 DEF Places, Api!Calls
  <1>4. Len(q) = Flag(In("start")) + Flag(In("wait")) + Flag(In("stop"))
    <2>1. /\ Len(<<>>) = 0 /\ Len(<<"start">>) = 1 /\ Len(<<"wait">>) = 1
          /\ Len(<<"stop">>) = 1 /\ Len(<<"start", "stop">>) = 2
          /\ Len(<<"wait", "stop">>) = 2
      OBVIOUS
    <2> HIDE DEF q
    <2>2. CASE q = <<>>
      BY <2>1, <2>2, QueueMembers DEF Flag
    <2>3. CASE q = <<"start">>
      BY <2>1, <2>3, QueueMembers DEF Flag
    <2>4. CASE q = <<"wait">>
      BY <2>1, <2>4, QueueMembers DEF Flag
    <2>5. CASE q = <<"stop">>
      BY <2>1, <2>5, QueueMembers DEF Flag
    <2>6. CASE q = <<"start", "stop">>
      BY <2>1, <2>6, QueueMembers DEF Flag
    <2>7. CASE q = <<"wait", "stop">>
      BY <2>1, <2>7, QueueMembers DEF Flag
    <2> QED
      BY <1>3, <2>2, <2>3, <2>4, <2>5, <2>6, <2>7 DEF Queues
  <1>5. /\ Len(p["start"]) = Flag(p["start"] # <<>>)
        /\ Len(p["wait"]) = Flag(p["wait"] # <<>>)
        /\ Len(p["stop"]) = Flag(p["stop"] # <<>>)
    <2>1. ASSUME NEW r, r = <<>> \/ Len(r) = 1
          PROVE  Len(r) = Flag(r # <<>>)
      <3>1. Len(<<>>) = 0 /\ 0 # 1
        OBVIOUS
      <3>2. CASE r = <<>>
        BY <3>1, <3>2 DEF Flag
      <3>3. CASE r # <<>>
        BY <2>1, <3>3 DEF Flag
      <3> QED
        BY <3>2, <3>3
    <2> HIDE DEF p
    <2> QED
      BY <1>3, <2>1, Zenon
  <1>6. /\ Has(v, "start") <=> In("start") \/ p["start"] # <<>>
        /\ Has(v, "wait") <=> In("wait") \/ p["wait"] # <<>> \/ h
        /\ Has(v, "stop") <=> In("stop") \/ p["stop"] # <<>> \/ s
    BY Zenon DEF Has
  <1>7. Unanswered(v) = Len(q) + Flag(h) + Flag(s)
                        + Len(p["start"]) + Len(p["wait"]) + Len(p["stop"])
    BY Zenon DEF Unanswered
  <1> HIDE DEF p, q, h, s, In
  <1>8. /\ Flag(Has(v, "start")) = Flag(In("start")) + Flag(p["start"] # <<>>)
        /\ Flag(Has(v, "wait")) = Flag(In("wait")) + Flag(p["wait"] # <<>>) + Flag(h)
        /\ Flag(Has(v, "stop")) = Flag(In("stop")) + Flag(p["stop"] # <<>>) + Flag(s)
    BY <1>2, <1>3, <1>6 DEF Flag
  <1>9. \A b : Flag(b) \in Int
    BY DEF Flag
  <1> DEFINE a1 == Flag(In("start"))
             a2 == Flag(In("wait"))
             a3 == Flag(In("stop"))
             b1 == Flag(p["start"] # <<>>)
             b2 == Flag(p["wait"] # <<>>)
             b3 == Flag(p["stop"] # <<>>)
             x == Flag(h)
             y == Flag(s)
  <1>10. /\ a1 \in Int /\ a2 \in Int /\ a3 \in Int /\ b1 \in Int
         /\ b2 \in Int /\ b3 \in Int /\ x \in Int /\ y \in Int
    BY <1>9, Zenon
  <1>11. /\ Unanswered(v) = (a1 + a2 + a3) + x + y + b1 + b2 + b3
         /\ v.pending_operations = (a1 + b1) + (a2 + b2 + x) + (a3 + b3 + y)
    BY <1>1, <1>4, <1>5, <1>7, <1>8, Zenon DEF Answers
  <1> HIDE DEF a1, a2, a3, b1, b2, b3, x, y
  <1> QED
    BY <1>10, <1>11

-----------------------------------------------------------------------------
(***************************************************************************)
(* The theorems.                                                            *)
(***************************************************************************)
Invariant == Inv(Current) /\ calls \in [Api!Calls -> Nat]

\* A new manager has no session and nothing to do.
LEMMA InitInv ==
  ASSUME Init
  PROVE  Invariant /\ View(m) = Own!Fresh
  <1> DEFINE g == Current
             p == [c \in Api!Calls |-> <<>>]
             vs == [w \in Wrappers |-> Detached]
  <1>1. /\ m = session_manager /\ ses = vs /\ calls = [c \in Api!Calls |-> 0]
        /\ g.m = m /\ g.ses = ses
    BY CurrentFields DEF Init
  <1>2. Detached \in WrapperStates
    BY FreshSound DEF WrapperSound
  <1>3. vs \in [Wrappers -> WrapperStates] /\ \A w \in Wrappers : vs[w] = Detached
    BY <1>2
  <1> HIDE DEF vs
  <1>4. g \in Pairs
    BY <1>1, <1>3, ManagerFields DEF Pairs, Current
  <1>5. Distinct(m.recycled_sessions)
    <2>1. Distinct(<<>>)
      BY DEF Distinct
    <2> QED
      BY <1>1, <2>1, ManagerFields
  <1> HIDE DEF g
  <1>6. /\ m.extern_state = "ready" /\ m.intern_state = "work"
        /\ m.accept_state = "ready" /\ m.pending_operations = 0
        /\ m.active_sessions = <<>> /\ m.accepting = NoSession
        /\ m.scheduled = FALSE /\ m.extern_wait_error = "ok"
        /\ m.wait_handler = FALSE /\ m.stop_handler = FALSE
        /\ m.max_active = 0 /\ m.total_accepted = 0 /\ m.stopped = 0
    BY <1>1, ManagerFields
  <1>7. Inv(g)
    BY <1>1, <1>3, <1>4, <1>5, <1>6, IdleInv
  <1>8. calls \in [Api!Calls -> Nat]
    BY <1>1
  <1>9. View(m) = Own!Fresh
    <2>1. m.posted = p
      BY <1>1, ManagerFields DEF p
    <2>2. Own!Fresh = [extern_state |-> "ready", run |-> "work",
                       extern_wait_error |-> "ok", wait_handler |-> FALSE,
                       stop_handler |-> FALSE, posted |-> p]
      BY DEF Own!Fresh, Own!Calls, Api!Calls, p
    <2>3. Run(m) = "work"
      BY <1>6 DEF Run
    <2> QED
      BY <1>6, <2>1, <2>2, <2>3, Zenon DEF View
  <1> QED
    BY <1>7, <1>8, <1>9 DEF Invariant, g

\* The calls of the user are counted.
LEMMA CallsCounted ==
  ASSUME calls \in [Api!Calls -> Nat], Next
  PROVE  calls' \in [Api!Calls -> Nat]
  <1>1. ASSUME NEW c \in Api!Calls, Call(c)
        PROVE  calls' \in [Api!Calls -> Nat]
    BY <1>1 DEF Call
  <1>2. "start" \in Api!Calls /\ "wait" \in Api!Calls /\ "stop" \in Api!Calls
    BY DEF Api!Calls
  <1>3. ASSUME AsyncStart \/ AsyncWait \/ AsyncStop
        PROVE  calls' \in [Api!Calls -> Nat]
    BY <1>1, <1>2, <1>3 DEF AsyncStart, AsyncWait, AsyncStop
  <1>4. ASSUME NEW free \in BOOLEAN, Reset(free)
        PROVE  calls' \in [Api!Calls -> Nat]
    BY <1>4 DEF Reset
  <1>5. ASSUME \/ HandleAcceptAtWork \/ HandleAcceptAtStop \/ HandleScheduled
               \/ \E w \in Wrappers :
                    \/ HandleSessionStart(w) \/ HandleSessionWait(w)
                    \/ HandleSessionStop(w) \/ RunCall(w) \/ EndSession(w)
        PROVE  calls' = calls
    BY <1>5, Zenon DEF HandleAcceptAtWork, HandleAcceptAtStop, HandleScheduled,
         HandleSessionStart, HandleSessionWait, HandleSessionStop, Completed,
         RunCall, EndSession
  <1> QED
    BY <1>3, <1>4, <1>5 DEF Next

\* A step of the program, or none: what NextInv says of it.
LEMMA StepInv ==
  ASSUME Invariant, [Next]_vars
  PROVE  /\ Invariant'
         /\ Quiet(Current, Current')
         /\ Seen(m, m')
  <1>1. CASE Next
    <2>1. Inv(Current') /\ Quiet(Current, Current') /\ Seen(m, m')
      BY <1>1, NextInv DEF Invariant
    <2>2. calls' \in [Api!Calls -> Nat]
      BY <1>1, CallsCounted DEF Invariant
    <2>3. Api!Calls' = Api!Calls
      BY DEF Api!Calls
    <2> QED
      BY <2>1, <2>2, <2>3 DEF Invariant
  <1>2. CASE UNCHANGED vars
    <2>1. m' = m /\ ses' = ses /\ calls' = calls
      BY <1>2 DEF vars
    <2>2. Current' = Current
      BY <2>1 DEF Current
    <2>3. Quiet(Current, Current') /\ Seen(m, m')
      BY <2>1, <2>2 DEF Quiet, Seen
    <2> QED
      BY <2>1, <2>2, <2>3 DEF Invariant
  <1> QED
    BY <1>1, <1>2

\* The invariant implies that the variables have their types.
LEMMA InvType ==
  ASSUME Invariant
  PROVE  TypeOK
  <1>1. Current \in Pairs /\ calls \in [Api!Calls -> Nat]
    BY DEF Invariant, Inv, Core
  <1> QED
    BY <1>1, CurrentFields, PairOf DEF TypeOK

\* The invariant implies that both counters of pending operations are exact.
LEMMA InvPending ==
  ASSUME Invariant
  PROVE  PendingMatches
  <1> DEFINE g == Current
  <1>1. g.m = m /\ g.ses = ses /\ Core(g)
    BY CurrentFields DEF Invariant, Inv
  <1> HIDE DEF g
  <1>2. \A w \in Wrappers : ses[w].pending_operations = Unanswered(ses[w])
    BY <1>1, UnansweredIs DEF Core
  <1>3. m.pending_operations =
          Flag(m.accepting # NoSession) + Flag(m.scheduled) + Cardinality(Pending(ses))
    BY <1>1, Zenon DEF Core, Counted
  <1>4. (m.accepting # NoSession) <=> (m.accept_state = "in_progress")
    BY <1>1, Zenon DEF Core, Accepts
  <1> QED
    BY <1>2, <1>3, <1>4, InvType, Zenon DEF PendingMatches

\* The invariant implies that the statistics balance.
LEMMA InvStats ==
  ASSUME Invariant
  PROVE  StatsBalance
  <1> DEFINE g == Current
             owing == {w \in Wrappers :
                        \/ ses[w].api.wait_handler
                        \/ \E c \in {"start", "wait"} :
                             \/ c \in ToSet(ses[w].queue)
                             \/ ses[w].api.posted[c] # <<>>}
             n == Cardinality(owing)
  <1>1. g.m = m /\ g.ses = ses /\ Core(g) /\ m \in ManagerStates
    BY CurrentFields, PairOf DEF Invariant, Inv, Core
  <1> HIDE DEF g
  <1>2. owing = Uncounted(ses)
    <2>1. ASSUME NEW w \in Wrappers
          PROVE  w \in owing <=> Has(ses[w], "start") \/ Has(ses[w], "wait")
      <3> DEFINE q == ToSet(ses[w].queue)
                 p == ses[w].api.posted
      <3>1. Has(ses[w], "start") <=> "start" \in q \/ p["start"] # <<>>
        BY Zenon DEF Has
      <3>2. Has(ses[w], "wait") <=>
              "wait" \in q \/ p["wait"] # <<>> \/ ses[w].api.wait_handler
        BY Zenon DEF Has
      <3> QED
        BY <3>1, <3>2
    <2>2. \A w \in owing : w \in Wrappers
      OBVIOUS
    <2> HIDE DEF owing
    <2> QED
      BY <2>1, <2>2 DEF Uncounted
  <1>3. StatsBalance <=> /\ m.intern_state = "work" => m.total_accepted = m.stopped + n
                         /\ m.total_accepted >= m.stopped + n
                         /\ m.max_active \in Len(m.active_sessions) .. MaxSessionCount
                         /\ m.max_active <= m.total_accepted
    BY Zenon DEF StatsBalance
  <1> HIDE DEF owing
  <1>4. n = Cardinality(Uncounted(ses))
    BY <1>2
  <1> HIDE DEF n
  <1>5. /\ m.intern_state = "work" => m.total_accepted = m.stopped + n
        /\ m.total_accepted >= m.stopped + n
        /\ Len(m.active_sessions) <= m.max_active
        /\ m.max_active <= MaxSessionCount
        /\ m.max_active <= m.total_accepted
    BY <1>1, <1>4 DEF Core, Stats
  <1>6. /\ m.max_active \in Nat /\ MaxSessionCount \in Nat
        /\ Len(m.active_sessions) \in Nat
    BY <1>1, ManagerAssumption DEF ManagerStates
  <1>7. m.max_active \in Len(m.active_sessions) .. MaxSessionCount
    BY <1>5, <1>6
  <1> QED
    BY <1>3, <1>5, <1>7

\* The invariant implies that no session is leaked, shared or stuck.
LEMMA InvNoLeak ==
  ASSUME Invariant
  PROVE  NoSessionLeaked
  <1> DEFINE g == Current
  <1>1. /\ g.m = m /\ g.ses = ses /\ Core(g) /\ Links(g) /\ m \in ManagerStates
        /\ ses \in [Wrappers -> WrapperStates] /\ NoSession \notin Wrappers
    BY CurrentFields, PairOf, ManagerAssumption DEF Invariant, Inv, Core
  <1> HIDE DEF g
  <1>2. /\ m.active_sessions \in Seq(Wrappers) /\ m.recycled_sessions \in Seq(Wrappers)
        /\ m.accepting \in Wrappers \cup {NoSession}
    BY <1>1 DEF ManagerStates
  <1>3. \A w \in Wrappers :
          ses[w].attached <=> m.accepting = w \/ ses[w].pending_operations > 0
    BY <1>1, Zenon DEF Links
  <1>4. ASSUME NEW w \in ToSet(m.active_sessions)
        PROVE  /\ ses[w].pending_operations > 0
               /\ ses[w].state \in {"start", "work", "stop"}
    <2>1. w \in Wrappers
      BY <1>2 DEF ToSet
    <2>2. ses[w].state \in {"start", "work", "stop"}
      BY <1>1, <2>1 DEF Links, Busy
    <2>3. ses[w].attached
      BY <1>1, <2>1, <2>2 DEF Core, WrapperSound, Detached
    <2>4. m.accepting # w
      BY <1>1, <1>2, <2>1, <2>2 DEF Links
    <2> QED
      BY <1>3, <2>1, <2>2, <2>3, <2>4
  <1>5. \A w \in ToSet(m.recycled_sessions) : ~ses[w].attached
    BY <1>1, Zenon DEF Links
  <1>6. /\ Cardinality(ToSet(m.active_sessions)) = Len(m.active_sessions)
        /\ Cardinality(ToSet(m.recycled_sessions)) = Len(m.recycled_sessions)
    BY <1>1, <1>2, DistinctCardinality DEF Links
  <1>7. ASSUME m.intern_state = "stopped"
        PROVE  \A w \in Wrappers : ~ses[w].attached
    <2>1. m.pending_operations = 0
      BY <1>1, <1>7 DEF Core, Walk
    <2>2. \A w \in Wrappers : ses[w] = Detached
      BY <1>1, <2>1, NothingInUse
    <2> QED
      BY <2>2 DEF Detached
  <1> QED
    BY <1>3, <1>4, <1>5, <1>6, <1>7, Zenon DEF NoSessionLeaked

\* The invariant implies that the accept loop neither overruns nor sleeps.
LEMMA InvAcceptLoop ==
  ASSUME Invariant
  PROVE  AcceptLoopSound
  <1> DEFINE g == Current
  <1>1. g.m = m /\ g.ses = ses /\ Inv(g)
    BY CurrentFields DEF Invariant
  <1> HIDE DEF g
  <1>2. AcceptHasRoom
    BY <1>1 DEF Inv, Core, Accepts, AcceptHasRoom
  <1>3. NeverIdle
    BY <1>1 DEF Inv, Awake, NeverIdle
  <1> QED
    BY <1>2, <1>3 DEF AcceptLoopSound

\* The invariant implies that the stop forgets no session.
LEMMA InvNotForgotten ==
  ASSUME Invariant
  PROVE  NoSessionForgotten
  <1> DEFINE g == Current
  <1>1. g.m = m /\ g.ses = ses /\ Core(g) /\ m \in ManagerStates
    BY CurrentFields, PairOf DEF Invariant, Inv, Core
  <1> HIDE DEF g
  <1>2. DOMAIN m.active_sessions = 1 .. Len(m.active_sessions)
    BY <1>1 DEF ManagerStates
  <1> QED
    BY <1>1, <1>2, Zenon DEF Core, Walk, Reached, NoSessionForgotten

(***************************************************************************)
(* The inductive invariant: the wrappers' places and states, the two lists, *)
(* the counters, the accept loop, the walk of the stop and the states the   *)
(* user sees hang together in every reachable state of the manager.         *)
(***************************************************************************)
THEOREM ManagerInvariant == Spec => []Invariant
  <1>1. Init => Invariant
    BY InitInv
  <1>2. Invariant /\ [Next]_vars => Invariant'
    BY StepInv
  <1> QED
    BY <1>1, <1>2, PTL DEF Spec

(***************************************************************************)
(* The manager, its wrappers and its sessions have their types.             *)
(***************************************************************************)
THEOREM ManagerTypeCorrect == Spec => []TypeOK
  <1>1. Invariant => TypeOK
    BY InvType
  <1> QED
    BY <1>1, ManagerInvariant, PTL

(***************************************************************************)
(* The pending operations of session_manager.cpp, counted by the manager    *)
(* and by each session_wrapper, and the sessions of the statistics are      *)
(* exact, whatever completions are late or overtake each other.             *)
(***************************************************************************)
THEOREM ManagerCounts == Spec => []CountsExact
  <1>1. Invariant => CountsExact
    BY InvPending, InvStats DEF CountsExact
  <1> QED
    BY <1>1, ManagerInvariant, PTL

(***************************************************************************)
(* No session of the manager is leaked, in two lists, or stuck without an   *)
(* answer to come; a manager that has stopped holds none.                   *)
(***************************************************************************)
THEOREM ManagerLeaksNothing == Spec => []NoSessionLeaked
  <1>1. Invariant => NoSessionLeaked
    BY InvNoLeak
  <1> QED
    BY <1>1, ManagerInvariant, PTL

(***************************************************************************)
(* The accept loop of continue_work keeps the limit on sessions and never   *)
(* leaves a working manager with nothing to wake it up.                     *)
(***************************************************************************)
THEOREM ManagerAccepts == Spec => []AcceptLoopSound
  <1>1. Invariant => AcceptLoopSound
    BY InvAcceptLoop
  <1> QED
    BY <1>1, ManagerInvariant, PTL

(***************************************************************************)
(* start_active_session_stop, run in chunks of any size while sessions leave *)
(* the list, passes over no session.                                        *)
(***************************************************************************)
THEOREM ManagerForgetsNothing == Spec => []NoSessionForgotten
  <1>1. Invariant => NoSessionForgotten
    BY InvNotForgotten
  <1> QED
    BY <1>1, ManagerInvariant, PTL

(***************************************************************************)
(* recycle() takes back only a session that is out of use: never started or *)
(* stopped, with nothing left in its strand or on its way back.             *)
(***************************************************************************)
THEOREM ManagerResetsQuiet == Spec => ResetOnlyWhenQuiet
  <1> DEFINE Taken1 ==
        \A w \in Wrappers : ses[w].attached /\ ~ses'[w].attached =>
          /\ ses[w].api.extern_state \in {"ready", "stopped"}
          /\ ses[w].api.run = "stopped" \/ ses[w].api.extern_state = "ready"
          /\ Unanswered(ses[w]) = IF m.accepting = w THEN 0 ELSE 1
  <1>1. Invariant /\ [Next]_vars => [Taken1]_vars
    <2> SUFFICES ASSUME Invariant, [Next]_vars
                 PROVE  Taken1
      OBVIOUS
    <2> DEFINE g == Current
    <2>1. g.m = m /\ g.ses = ses /\ g'.ses = ses' /\ Core(g)
      BY CurrentFields DEF Invariant, Inv
    <2>2. Quiet(g, g')
      BY StepInv
    <2> HIDE DEF g
    <2>3. \A w \in Wrappers : ses[w].pending_operations = Unanswered(ses[w])
      BY <2>1, UnansweredIs DEF Core
    <2> QED
      BY <2>1, <2>2, <2>3, Zenon DEF Quiet
  <1> QED
    BY <1>1, ManagerInvariant, PTL DEF Spec, ResetOnlyWhenQuiet

(***************************************************************************)
(* The manager implements SessionApi for its own user: each async_start,    *)
(* async_wait and async_stop is answered as the interface says, whatever    *)
(* the sessions and the acceptor do meanwhile.                              *)
(***************************************************************************)
THEOREM ManagerImplementsApi == Spec => ImplementsApi
  <1>1. Init => Own!Init
    <2> SUFFICES ASSUME Init
                 PROVE  Own!Init
      OBVIOUS
    <2>1. View(m) = Own!Fresh
      BY InitInv
    <2> QED
      BY <2>1, Zenon DEF Own!Init, View, Run
  <1>2. Invariant /\ [Next]_vars => [Own!Next]_(View(m))
    <2> SUFFICES ASSUME Invariant, [Next]_vars
                 PROVE  [Own!Next]_(View(m))
      OBVIOUS
    <2>1. Seen(m, m')
      BY StepInv
    <2> QED
      BY <2>1, Zenon DEF Seen, View, Run, Own!Next, Own!Start, Own!Wait, Own!Stop,
           Own!End, Own!Reset
  <1> QED
    BY <1>1, <1>2, ManagerInvariant, PTL DEF Spec, ImplementsApi, Own!Spec, View, Run

-----------------------------------------------------------------------------
(***************************************************************************)
(* The pooled session factory keeps one owner for each session and exact    *)
(* pool sizes, for any finite set of sessions, number of pools and limit of *)
(* recycled sessions.  OneOwner and SizesExact are inductive together: a    *)
(* size can be counted down because the session returned is in use and      *)
(* belongs to the pool its link names, which is OneOwner.                   *)
(***************************************************************************)
FactoryInv == OneOwner /\ SizesExact

-----------------------------------------------------------------------------
(***************************************************************************)
(* The list of a pool as push_front and erase of the front leave it.        *)
(***************************************************************************)
LEMMA TailFacts ==
  ASSUME NEW S, NEW q \in Seq(S), q # <<>>
  PROVE  /\ Tail(q) \in Seq(S) /\ Len(q) \in Nat \ {0}
         /\ Len(Tail(q)) = Len(q) - 1
         /\ \A k \in 1 .. Len(q) - 1 : Tail(q)[k] = q[k + 1]
         /\ Head(q) = q[1] /\ Head(q) \in S
  OBVIOUS

\* A list with a session pushed to its front.
LEMMA PushFacts ==
  ASSUME NEW S, NEW q \in Seq(S), NEW s \in S
  PROVE  /\ <<s>> \o q \in Seq(S)
         /\ Len(<<s>> \o q) = Len(q) + 1
         /\ (<<s>> \o q)[1] = s
         /\ \A k \in 1 .. Len(q) : (<<s>> \o q)[k + 1] = q[k]
  OBVIOUS

(***************************************************************************)
(* A pool's load is a number, one higher when a session of the pool comes   *)
(* into use and one lower when it leaves.                                   *)
(***************************************************************************)
LEMMA CountAdd ==
  ASSUME NEW A, NEW B, NEW s, IsFiniteSet(A), s \notin A, B = A \cup {s}
  PROVE  Cardinality(B) = Cardinality(A) + 1
  BY FS_AddElement

\* A set with one member less.
LEMMA CountRemove ==
  ASSUME NEW A, NEW B, NEW s, IsFiniteSet(A), s \in A, B = A \ {s}
  PROVE  Cardinality(B) = Cardinality(A) - 1 /\ Cardinality(A) \in Nat \ {0}
  <1>1. Cardinality(B) = Cardinality(A) - 1 /\ IsFiniteSet(B)
    BY FS_RemoveElement
  <1>2. Cardinality(A) \in Nat /\ Cardinality(B) \in Nat
    BY <1>1, FS_CardinalityType
  <1> QED
    BY <1>1, <1>2

\* The sessions in use are finitely many.
LEMMA UsedFinite ==
  ASSUME FactoryTypeOK, NEW i
  PROVE  IsFiniteSet({s \in used : back_link[s] = i})
  BY FactoryAssumption, FS_Subset DEF FactoryTypeOK

-----------------------------------------------------------------------------
\* No session exists at first.
LEMMA FactoryInitInv == FactoryInit => FactoryInv
  <1> SUFFICES ASSUME FactoryInit PROVE FactoryInv
    OBVIOUS
  <1>1. FactoryTypeOK
    BY FactoryAssumption DEF FactoryInit, create_pool, FactoryTypeOK, Items, PoolItems, pool_item
  <1>2. OneOwner
    BY FactoryAssumption DEF FactoryInit, create_pool, OneOwner, AtRest, Items, pool_item
  <1>3. ASSUME NEW i \in Items
        PROVE  pool[i].size = Load(i) /\ Len(pool[i].recycled) <= MaxRecycled
    <2>1. {s \in used : back_link[s] = i} = {}
      BY DEF FactoryInit, create_pool
    <2> QED
      BY <2>1, FS_EmptySet, FactoryAssumption DEF FactoryInit, create_pool, Load, pool_item, Items
  <1> QED
    BY <1>1, <1>2, <1>3 DEF FactoryInv, SizesExact

\* A session at rest is taken into use.
LEMMA CreateRecycledInv ==
  ASSUME FactoryInv, NEW i \in Items, create_recycled(i)
  PROVE  FactoryInv'
  <1> DEFINE q == pool[i].recycled
             s == Head(q)
  <1>1. FactoryTypeOK /\ OneOwner /\ SizesExact
    BY DEF FactoryInv, SizesExact
  <1>2. q \in Seq(Sessions) /\ q # <<>> /\ pool[i].size \in Nat
    BY <1>1 DEF FactoryTypeOK, PoolItems, create_recycled
  <1>3. /\ Tail(q) \in Seq(Sessions) /\ Len(q) \in Nat \ {0}
        /\ Len(Tail(q)) = Len(q) - 1
        /\ \A k \in 1 .. Len(q) - 1 : Tail(q)[k] = q[k + 1]
        /\ s = q[1] /\ s \in Sessions
    BY <1>2, TailFacts
  <1>4. s \in AtRest(i)
    BY <1>3 DEF AtRest
  <1>5. s \notin used /\ back_link[s] = i
    BY <1>1, <1>4 DEF OneOwner
  <1>6. /\ pool' \in [Items -> PoolItems]
        /\ pool'[i].recycled = Tail(q) /\ pool'[i].size = pool[i].size + 1
        /\ \A j \in Items \ {i} : pool'[j] = pool[j]
        /\ used' = used \cup {s} /\ back_link' = back_link
    <2>1. pool' = [pool EXCEPT ![i] = [size |-> pool[i].size + 1, recycled |-> Tail(q)]]
      BY DEF create_recycled
    <2>2. pool[i].size + 1 \in Nat
      BY <1>2
    <2>3. pool \in [Items -> PoolItems]
      BY <1>1 DEF FactoryTypeOK
    <2>4. used' = used \cup {s} /\ back_link' = back_link
      BY DEF create_recycled
    <2>5. [size |-> pool[i].size + 1, recycled |-> Tail(q)] \in PoolItems
      BY <1>3, <2>2 DEF PoolItems
    <2> HIDE DEF q
    <2> QED
      BY <2>1, <2>3, <2>4, <2>5
  <1>7. FactoryTypeOK'
    BY <1>1, <1>3, <1>6 DEF FactoryTypeOK
  <1>8. AtRest(i)' = AtRest(i) \ {s}
    <2>1. \A k, l \in 1 .. Len(q) : q[k] = q[l] => k = l
      BY <1>1 DEF OneOwner
    <2>2. ASSUME NEW k \in 1 .. Len(q) - 1
          PROVE  Tail(q)[k] \in AtRest(i) \ {s}
      <3>1. k + 1 \in 1 .. Len(q) /\ 1 \in 1 .. Len(q) /\ k + 1 # 1
        BY <1>3
      <3> QED
        BY <1>3, <2>1, <3>1 DEF AtRest
    <2>3. ASSUME NEW t \in AtRest(i) \ {s}
          PROVE  \E k \in 1 .. Len(q) - 1 : t = Tail(q)[k]
      <3>1. PICK k \in 1 .. Len(q) : t = q[k]
        BY DEF AtRest
      <3>2. k # 1
        BY <1>3, <3>1
      <3>3. k - 1 \in 1 .. Len(q) - 1 /\ k = (k - 1) + 1
        BY <1>3, <3>2
      <3> QED
        BY <1>3, <3>1, <3>3
    <2>4. AtRest(i)' = {Tail(q)[k] : k \in 1 .. Len(q) - 1}
      BY <1>3, <1>6 DEF AtRest
    <2> QED
      BY <2>2, <2>3, <2>4
  <1>9. \A j \in Items \ {i} : AtRest(j)' = AtRest(j) /\ s \notin AtRest(j)
    <2>1. \A j \in Items \ {i} : AtRest(j)' = AtRest(j)
      BY <1>6 DEF AtRest
    <2>2. \A j \in Items \ {i} : s \notin AtRest(j)
      <3> HIDE DEF s
      <3> QED
        BY <1>1, <1>5 DEF OneOwner
    <2> QED
      BY <2>1, <2>2
  <1>10. OneOwner'
    <2>1. ASSUME NEW j \in Items, NEW k \in 1 .. Len(pool'[j].recycled),
                 NEW l \in 1 .. Len(pool'[j].recycled),
                 pool'[j].recycled[k] = pool'[j].recycled[l]
          PROVE  k = l
      <3>1. CASE j = i
        <4>1. k \in 1 .. Len(q) - 1 /\ l \in 1 .. Len(q) - 1 /\ Tail(q)[k] = Tail(q)[l]
          BY <1>3, <1>6, <2>1, <3>1
        <4>2. k + 1 \in 1 .. Len(q) /\ l + 1 \in 1 .. Len(q) /\ q[k + 1] = q[l + 1]
          BY <1>3, <4>1
        <4>3. k + 1 = l + 1
          BY <1>1, <4>2 DEF OneOwner
        <4> QED
          BY <4>1, <4>3
      <3>2. CASE j # i
        BY <1>1, <1>6, <2>1, <3>2 DEF OneOwner
      <3> QED
        BY <3>1, <3>2
    <2>2. \A j \in Items : \A t \in AtRest(j)' : t \notin used' /\ back_link'[t] = j
      BY <1>1, <1>6, <1>8, <1>9 DEF OneOwner
    <2>3. \A t \in Sessions :
            back_link'[t] # 0 <=> t \in used' \/ \E j \in Items : t \in AtRest(j)'
      BY <1>1, <1>5, <1>6, <1>8, <1>9, FactoryAssumption DEF OneOwner, Items
    <2> QED
      BY <2>1, <2>2, <2>3 DEF OneOwner
  <1>11. ASSUME NEW j \in Items
         PROVE  pool'[j].size = Load(j)' /\ Len(pool'[j].recycled) <= MaxRecycled
    <2> DEFINE A == {t \in used : back_link[t] = j}
               B == {t \in used' : back_link'[t] = j}
    <2>1. IsFiniteSet(A)
      BY <1>1, UsedFinite
    <2>2. pool[j].size = Cardinality(A) /\ Len(pool[j].recycled) <= MaxRecycled
      BY <1>1 DEF SizesExact, Load
    <2>3. CASE j = i
      <3>1. B = A \cup {s} /\ s \notin A
        BY <1>5, <1>6, <2>3
      <3>2. Cardinality(B) = Cardinality(A) + 1
        BY <2>1, <3>1, CountAdd
      <3>3. Load(j)' = Cardinality(B)
        BY DEF Load
      <3>4. Len(Tail(q)) <= MaxRecycled
        BY <1>3, <2>2, <2>3, FactoryAssumption
      <3> QED
        BY <1>6, <2>2, <2>3, <3>2, <3>3, <3>4
    <2>4. CASE j # i
      <3>1. B = A
        BY <1>5, <1>6, <2>4
      <3> QED
        BY <1>6, <2>2, <2>4, <3>1 DEF Load
    <2> QED
      BY <2>3, <2>4
  <1> QED
    BY <1>7, <1>10, <1>11 DEF FactoryInv, SizesExact

\* A session is made.
LEMMA CreateNewInv ==
  ASSUME FactoryInv, NEW i \in Items, create_new(i)
  PROVE  FactoryInv'
  <1>1. FactoryTypeOK /\ OneOwner /\ SizesExact
    BY DEF FactoryInv, SizesExact
  <1>2. PICK s \in Sessions : /\ back_link[s] = 0
                              /\ back_link' = [back_link EXCEPT ![s] = i]
                              /\ used' = used \cup {s}
    BY DEF create_new
  <1>3. s \notin used /\ \A j \in Items : s \notin AtRest(j)
    BY <1>1, <1>2 DEF OneOwner
  <1>4. /\ pool' \in [Items -> PoolItems]
        /\ pool'[i].recycled = pool[i].recycled /\ pool'[i].size = pool[i].size + 1
        /\ \A j \in Items \ {i} : pool'[j] = pool[j]
    <2>1. /\ pool' = [pool EXCEPT ![i] = [size |-> pool[i].size + 1, recycled |-> <<>>]]
          /\ pool[i].recycled = <<>>
      BY DEF create_new
    <2>2. pool \in [Items -> PoolItems] /\ pool[i].size + 1 \in Nat
      BY <1>1 DEF FactoryTypeOK, PoolItems
    <2>3. [size |-> pool[i].size + 1, recycled |-> <<>>] \in PoolItems
      BY <2>2 DEF PoolItems
    <2> QED
      BY <2>1, <2>2, <2>3
  <1>5. /\ back_link' \in [Sessions -> 0 .. Pools] /\ back_link'[s] = i /\ i # 0
        /\ \A t \in Sessions \ {s} : back_link'[t] = back_link[t]
    BY <1>1, <1>2, FactoryAssumption DEF FactoryTypeOK, Items
  <1>6. FactoryTypeOK'
    BY <1>1, <1>2, <1>4, <1>5 DEF FactoryTypeOK
  <1>7. \A j \in Items : pool'[j].recycled = pool[j].recycled /\ AtRest(j)' = AtRest(j)
    BY <1>4 DEF AtRest
  <1>8. \A j \in Items : AtRest(j) \subseteq Sessions
    BY <1>1 DEF FactoryTypeOK, PoolItems, AtRest
  <1>9. OneOwner'
    <2>1. \A j \in Items : \A k, l \in 1 .. Len(pool'[j].recycled) :
            pool'[j].recycled[k] = pool'[j].recycled[l] => k = l
      BY <1>1, <1>7 DEF OneOwner
    <2>2. \A j \in Items : \A t \in AtRest(j)' : t \notin used' /\ back_link'[t] = j
      BY <1>1, <1>2, <1>3, <1>5, <1>7, <1>8 DEF OneOwner
    <2>3. \A t \in Sessions :
            back_link'[t] # 0 <=> t \in used' \/ \E j \in Items : t \in AtRest(j)'
      BY <1>1, <1>2, <1>5, <1>7 DEF OneOwner
    <2> QED
      BY <2>1, <2>2, <2>3 DEF OneOwner
  <1>10. ASSUME NEW j \in Items
         PROVE  pool'[j].size = Load(j)' /\ Len(pool'[j].recycled) <= MaxRecycled
    <2> DEFINE A == {t \in used : back_link[t] = j}
               B == {t \in used' : back_link'[t] = j}
    <2>1. IsFiniteSet(A)
      BY <1>1, UsedFinite
    <2>2. pool[j].size = Cardinality(A) /\ Len(pool[j].recycled) <= MaxRecycled
      BY <1>1 DEF SizesExact, Load
    <2>3. Load(j)' = Cardinality(B) /\ used \subseteq Sessions
      BY <1>1 DEF Load, FactoryTypeOK
    <2>4. CASE j = i
      <3>1. B = A \cup {s} /\ s \notin A
        BY <1>2, <1>3, <1>5, <2>3, <2>4
      <3>2. Cardinality(B) = Cardinality(A) + 1
        BY <2>1, <3>1, CountAdd
      <3> QED
        BY <1>4, <2>2, <2>3, <2>4, <3>2
    <2>5. CASE j # i
      <3>1. B = A
        BY <1>2, <1>3, <1>5, <2>3, <2>5
      <3> QED
        BY <1>4, <2>2, <2>3, <2>5, <3>1
    <2> QED
      BY <2>4, <2>5
  <1> QED
    BY <1>6, <1>9, <1>10 DEF FactoryInv, SizesExact

\* A session is returned: its pool keeps it at rest, or it is destroyed.
LEMMA ReleaseKeeps ==
  ASSUME FactoryInv, NEW s \in Sessions, release(s)
  PROVE  FactoryInv'
  <1>1. FactoryTypeOK /\ OneOwner /\ SizesExact
    BY DEF FactoryInv, SizesExact
  <1>2. PICK i \in Items : i = back_link[s]
    BY <1>1, FactoryAssumption DEF release, OneOwner, FactoryTypeOK, Items
  <1> DEFINE q == pool[i].recycled
             r == IF keeps(i) THEN <<s>> \o q ELSE q
  <1>3. /\ s \in used /\ used' = used \ {s}
        /\ pool' = [pool EXCEPT ![i] = [size |-> pool[i].size - 1, recycled |-> r]]
        /\ back_link' = IF keeps(i) THEN back_link ELSE [back_link EXCEPT ![s] = 0]
    BY <1>2 DEF release
  <1>4. pool \in [Items -> PoolItems] /\ used \subseteq Sessions
    BY <1>1 DEF FactoryTypeOK
  <1>5. q \in Seq(Sessions) /\ Len(q) \in Nat
    BY <1>4 DEF PoolItems
  <1>6. \A j \in Items : s \notin AtRest(j)
    BY <1>1, <1>3 DEF OneOwner
  <1>7. pool[i].size \in Nat \ {0}
    <2>1. IsFiniteSet({t \in used : back_link[t] = i}) /\ s \in {t \in used : back_link[t] = i}
      BY <1>1, <1>2, <1>3, UsedFinite
    <2>2. Cardinality({t \in used : back_link[t] = i}) \in Nat \ {0}
      BY <2>1, CountRemove
    <2> QED
      BY <1>1, <1>4, <2>2 DEF SizesExact, Load
  <1>8. /\ <<s>> \o q \in Seq(Sessions) /\ Len(<<s>> \o q) = Len(q) + 1
        /\ (<<s>> \o q)[1] = s /\ \A k \in 1 .. Len(q) : (<<s>> \o q)[k + 1] = q[k]
    BY <1>5, PushFacts
  <1>9. /\ pool' \in [Items -> PoolItems]
        /\ pool'[i].recycled = r /\ pool'[i].size = pool[i].size - 1
        /\ \A j \in Items \ {i} : pool'[j] = pool[j]
    <2>1. [size |-> pool[i].size - 1, recycled |-> r] \in PoolItems
      BY <1>5, <1>7, <1>8 DEF PoolItems
    <2> HIDE DEF r
    <2> QED
      BY <1>3, <1>4, <2>1
  <1>10. /\ back_link' \in [Sessions -> 0 .. Pools]
         /\ \A t \in Sessions \ {s} : back_link'[t] = back_link[t]
         /\ keeps(i) => back_link'[s] = i
         /\ ~keeps(i) => back_link'[s] = 0
         /\ s \notin used'
    BY <1>1, <1>2, <1>3, FactoryAssumption DEF FactoryTypeOK
  <1>11. FactoryTypeOK'
    BY <1>3, <1>4, <1>9, <1>10 DEF FactoryTypeOK
  <1>12. AtRest(i)' = IF keeps(i) THEN AtRest(i) \cup {s} ELSE AtRest(i)
    <2>1. CASE ~keeps(i)
      BY <1>9, <2>1 DEF AtRest
    <2>2. CASE keeps(i)
      <3>1. AtRest(i)' = {(<<s>> \o q)[k] : k \in 1 .. Len(q) + 1}
        BY <1>8, <1>9, <2>2 DEF AtRest
      <3>2. ASSUME NEW k \in 1 .. Len(q) + 1
            PROVE  (<<s>> \o q)[k] \in AtRest(i) \cup {s}
        <4>1. k = 1 \/ (k - 1 \in 1 .. Len(q) /\ k = (k - 1) + 1)
          BY <1>5
        <4> QED
          BY <1>8, <4>1 DEF AtRest
      <3>3. ASSUME NEW t \in AtRest(i) \cup {s}
            PROVE  \E k \in 1 .. Len(q) + 1 : t = (<<s>> \o q)[k]
        <4>1. CASE t = s
          BY <1>5, <1>8, <4>1
        <4>2. CASE t \in AtRest(i)
          <5>1. PICK k \in 1 .. Len(q) : t = q[k]
            BY <4>2 DEF AtRest
          <5>2. k + 1 \in 1 .. Len(q) + 1
            BY <1>5
          <5> QED
            BY <1>8, <5>1, <5>2
        <4> QED
          BY <4>1, <4>2
      <3> QED
        BY <2>2, <3>1, <3>2, <3>3
    <2> QED
      BY <2>1, <2>2
  <1>13. \A j \in Items \ {i} : AtRest(j)' = AtRest(j)
    BY <1>9 DEF AtRest
  <1>14. \A j \in Items : AtRest(j) \subseteq Sessions
    BY <1>1 DEF FactoryTypeOK, PoolItems, AtRest
  <1>15. OneOwner'
    <2>1. ASSUME NEW j \in Items, NEW k \in 1 .. Len(pool'[j].recycled),
                 NEW l \in 1 .. Len(pool'[j].recycled),
                 pool'[j].recycled[k] = pool'[j].recycled[l]
          PROVE  k = l
      <3>1. CASE j = i /\ keeps(i)
        <4>1. /\ k \in 1 .. Len(q) + 1 /\ l \in 1 .. Len(q) + 1
              /\ (<<s>> \o q)[k] = (<<s>> \o q)[l]
          BY <1>8, <1>9, <2>1, <3>1
        <4>2. /\ k = 1 \/ (k - 1 \in 1 .. Len(q) /\ (<<s>> \o q)[k] = q[k - 1])
              /\ l = 1 \/ (l - 1 \in 1 .. Len(q) /\ (<<s>> \o q)[l] = q[l - 1])
          <5>1. /\ k = 1 \/ (k - 1 \in 1 .. Len(q) /\ k = (k - 1) + 1)
                /\ l = 1 \/ (l - 1 \in 1 .. Len(q) /\ l = (l - 1) + 1)
            BY <1>5, <4>1
          <5> QED
            BY <1>8, <5>1
        <4>3. \A o \in 1 .. Len(q) : q[o] # s
          BY <1>4, <1>6 DEF AtRest
        <4>4. \A o, p \in 1 .. Len(q) : q[o] = q[p] => o = p
          BY <1>1, <1>4 DEF OneOwner
        <4> HIDE DEF q
        <4>5. k = 1 <=> l = 1
          BY <1>8, <4>1, <4>2, <4>3
        <4>6. k # 1 => k - 1 = l - 1
          BY <4>1, <4>2, <4>4, <4>5
        <4> QED
          BY <1>5, <4>1, <4>5, <4>6
      <3>2. CASE ~(j = i /\ keeps(i))
        <4>1. pool'[j].recycled = pool[j].recycled
          BY <1>9, <3>2
        <4> QED
          BY <1>1, <2>1, <4>1 DEF OneOwner
      <3> QED
        BY <3>1, <3>2
    <2>2. ASSUME NEW j \in Items, NEW t \in AtRest(j)'
          PROVE  t \notin used' /\ back_link'[t] = j
      <3>1. CASE t = s
        <4>1. j = i /\ keeps(i)
          BY <1>6, <1>12, <1>13, <3>1
        <4>2. s \notin used' /\ back_link'[s] = i
          BY <1>10, <4>1
        <4> QED
          BY <3>1, <4>1, <4>2
      <3>2. CASE t # s
        <4>1. t \in AtRest(j)
          BY <1>12, <1>13, <3>2
        <4> QED
          BY <1>1, <1>3, <1>10, <1>14, <3>2, <4>1 DEF OneOwner
      <3> QED
        BY <3>1, <3>2
    <2>3. ASSUME NEW t \in Sessions
          PROVE  back_link'[t] # 0 <=> t \in used' \/ \E j \in Items : t \in AtRest(j)'
      <3>1. CASE t = s
        <4>1. i # 0 /\ (keeps(i) <=> \E j \in Items : s \in AtRest(j)')
          BY <1>4, <1>6, <1>12, <1>13, FactoryAssumption DEF Items
        <4>2. s \notin used' /\ (keeps(i) <=> back_link'[s] # 0)
          BY <1>10, <4>1
        <4> QED
          BY <3>1, <4>1, <4>2
      <3>2. CASE t # s
        <4>1. /\ back_link'[t] = back_link[t] /\ (t \in used' <=> t \in used)
              /\ \A j \in Items : t \in AtRest(j)' <=> t \in AtRest(j)
          BY <1>3, <1>10, <1>12, <1>13, <3>2
        <4> QED
          BY <1>1, <4>1 DEF OneOwner
      <3> QED
        BY <3>1, <3>2
    <2> QED
      BY <2>1, <2>2, <2>3 DEF OneOwner
  <1>16. ASSUME NEW j \in Items
         PROVE  pool'[j].size = Load(j)' /\ Len(pool'[j].recycled) <= MaxRecycled
    <2> DEFINE A == {t \in used : back_link[t] = j}
               B == {t \in used' : back_link'[t] = j}
    <2>1. IsFiniteSet(A)
      BY <1>1, UsedFinite
    <2>2. pool[j].size = Cardinality(A) /\ Len(pool[j].recycled) <= MaxRecycled
      BY <1>1 DEF SizesExact, Load
    <2>3. Load(j)' = Cardinality(B)
      BY DEF Load
    <2>4. CASE j = i
      <3>1. B = A \ {s} /\ s \in A
        BY <1>2, <1>3, <1>4, <1>10, <2>4
      <3>2. Cardinality(B) = Cardinality(A) - 1
        BY <2>1, <3>1, CountRemove
      <3>3. Len(r) <= MaxRecycled
        BY <1>5, <1>8, <2>2, <2>4, FactoryAssumption DEF keeps
      <3> QED
        BY <1>9, <2>2, <2>3, <2>4, <3>2, <3>3
    <2>5. CASE j # i
      <3>1. B = A
        BY <1>2, <1>3, <1>4, <1>10, <2>5, FactoryAssumption DEF Items
      <3> QED
        BY <1>9, <2>2, <2>3, <2>5, <3>1
    <2> QED
      BY <2>4, <2>5
  <1> QED
    BY <1>11, <1>15, <1>16 DEF FactoryInv, SizesExact

\* Every step keeps the invariant.
LEMMA FactoryNextInv == FactoryInv /\ [FactoryNext]_factory_vars => FactoryInv'
  <1> SUFFICES ASSUME FactoryInv, [FactoryNext]_factory_vars PROVE FactoryInv'
    OBVIOUS
  <1>1. CASE create
    BY <1>1, CreateRecycledInv, CreateNewInv DEF create
  <1>2. CASE \E s \in Sessions : release(s)
    BY <1>2, ReleaseKeeps
  <1>3. CASE UNCHANGED factory_vars
    BY <1>3 DEF factory_vars, FactoryInv, OneOwner, SizesExact, FactoryTypeOK, Load, AtRest
  <1> QED
    BY <1>1, <1>2, <1>3 DEF FactoryNext

(***************************************************************************)
(* The sessions of a pooled factory are each in one place, and a pool's     *)
(* size_ is always the number of its sessions in use, whatever the number   *)
(* of sessions, of io_services and of sessions to keep.                     *)
(***************************************************************************)
THEOREM FactoryCorrect == FactorySpec => []FactorySound
  <1>1. FactorySpec => []FactoryInv
    BY FactoryInitInv, FactoryNextInv, PTL DEF FactorySpec
  <1> QED
    BY <1>1, PTL DEF FactoryInv, FactorySound

(***************************************************************************)
(* The choice of a pool: sizes are what min_element compares, and they are  *)
(* the loads, so a session that comes into use, recycled or new, is one of  *)
(* a pool with the least load.                                              *)
(***************************************************************************)
LEMMA CreateLeast ==
  ASSUME FactoryInv, create, NEW s \in used' \ used, NEW j \in Items
  PROVE  Load(back_link'[s]) <= Load(j)
  <1>1. PICK i \in Items : min_element(i) /\ (create_recycled(i) \/ create_new(i))
    BY DEF create
  <1>2. pool[i].size = Load(i) /\ pool[j].size = Load(j)
    BY DEF FactoryInv, SizesExact
  <1>3. pool[i].size \in Nat /\ pool[j].size \in Nat
    BY DEF FactoryInv, SizesExact, FactoryTypeOK, PoolItems
  <1>4. Load(i) <= Load(j)
    BY <1>1, <1>2, <1>3 DEF min_element, less_loaded_pool
  <1>5. back_link'[s] = i
    <2>1. CASE create_recycled(i)
      <3>1. pool[i].recycled \in Seq(Sessions) /\ pool[i].recycled # <<>>
        BY <2>1 DEF create_recycled, FactoryInv, SizesExact, FactoryTypeOK, PoolItems
      <3>2. s = Head(pool[i].recycled) /\ back_link' = back_link
        BY <2>1 DEF create_recycled
      <3>3. s = pool[i].recycled[1] /\ 1 \in 1 .. Len(pool[i].recycled)
        BY <3>1, <3>2, TailFacts
      <3>4. s \in AtRest(i)
        BY <3>3 DEF AtRest
      <3> QED
        BY <3>2, <3>4 DEF FactoryInv, OneOwner
    <2>2. CASE create_new(i)
      <3>1. PICK t \in Sessions :
              back_link' = [back_link EXCEPT ![t] = i] /\ used' = used \cup {t}
        BY <2>2 DEF create_new
      <3> QED
        BY <3>1 DEF FactoryInv, SizesExact, FactoryTypeOK
    <2> QED
      BY <1>1, <2>1, <2>2
  <1> QED
    BY <1>4, <1>5

\* create() and release(): a step that brings a session into use is a create, and
\* gives it to an io_service that no other has fewer sessions in use than.
THEOREM CreatesForLeastLoaded == FactorySpec => LeastLoaded
  <1>1. FactoryInv /\ [FactoryNext]_factory_vars =>
          [ \A s \in used' \ used : \A i \in Items :
              Load(back_link'[s]) <= Load(i) ]_factory_vars
    <2> SUFFICES ASSUME FactoryInv, FactoryNext, NEW s \in used' \ used, NEW i \in Items
                 PROVE  Load(back_link'[s]) <= Load(i)
      OBVIOUS
    <2>1. create
      BY DEF FactoryNext, release
    <2> QED
      BY <2>1, CreateLeast
  <1>2. FactorySpec => []FactoryInv
    BY FactoryInitInv, FactoryNextInv, PTL DEF FactorySpec
  <1> QED
    BY <1>1, <1>2, PTL DEF FactorySpec, LeastLoaded

=============================================================================
