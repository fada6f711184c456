-------------------------- MODULE EchoServerProofs --------------------------
(***************************************************************************)
(* Proofs about module EchoServer, for every number of signals and of dying *)
(* threads: the program keeps the server's protocol and stops gracefully.   *)
(***************************************************************************)
EXTENDS EchoServer, FiniteSetTheorems, TLAPS

(***************************************************************************)
(* What the operations of the interface do, member by member.               *)
(***************************************************************************)
\* An answer is one more result of its call, and nothing else.
AnsweredAs(x, y, call, error) ==
  /\ y \in Api!ApiStates
  /\ y.extern_state = x.extern_state /\ y.run = x.run
  /\ y.extern_wait_error = x.extern_wait_error
  /\ y.wait_handler = x.wait_handler /\ y.stop_handler = x.stop_handler
  /\ y.posted["start"] = IF call = "start" THEN Append(x.posted["start"], error)
                                           ELSE x.posted["start"]
  /\ y.posted["wait"] = IF call = "wait" THEN Append(x.posted["wait"], error)
                                         ELSE x.posted["wait"]
  /\ y.posted["stop"] = IF call = "stop" THEN Append(x.posted["stop"], error)
                                         ELSE x.posted["stop"]

\* Answer appends the error to the results of its call.
LEMMA Answered ==
  ASSUME NEW x \in Api!ApiStates, NEW call \in Api!Calls, NEW error \in Api!Errors
  PROVE  AnsweredAs(x, Api!Answer(x, call, error), call, error)
  <1> DEFINE y == Api!Answer(x, call, error)
             longer == [x.posted EXCEPT ![call] = Append(@, error)]
  <1>1. x.posted \in [Api!Calls -> Seq(Api!Errors)]
    BY DEF Api!ApiStates
  <1>2. /\ longer \in [Api!Calls -> Seq(Api!Errors)]
        /\ longer[call] = Append(x.posted[call], error)
        /\ \A c \in Api!Calls : c # call => longer[c] = x.posted[c]
    BY <1>1
  <1>3. y = [x EXCEPT !.posted = longer]
    BY Zenon DEF Api!Answer
  <1> HIDE DEF longer
  <1>4. /\ y \in Api!ApiStates /\ y.posted = longer
        /\ y.extern_state = x.extern_state /\ y.run = x.run
        /\ y.extern_wait_error = x.extern_wait_error
        /\ y.wait_handler = x.wait_handler /\ y.stop_handler = x.stop_handler
    BY <1>2, <1>3 DEF Api!ApiStates
  <1> HIDE DEF y
  <1>5. AnsweredAs(x, y, call, error)
    BY <1>2, <1>4 DEF AnsweredAs, Api!Calls
  <1> QED
    BY <1>5 DEF y

\* The end is told to a parked wait, and to nobody else.
LEMMA Told ==
  ASSUME NEW x \in Api!ApiStates, NEW reason \in Api!Errors
  PROVE  LET y == Api!Tell(x, reason)
         IN  /\ y \in Api!ApiStates
             /\ y.extern_state = x.extern_state /\ y.run = x.run
             /\ y.extern_wait_error \in {x.extern_wait_error, reason}
             /\ y.wait_handler = FALSE /\ y.stop_handler = x.stop_handler
             /\ y.posted["start"] = x.posted["start"]
             /\ y.posted["stop"] = x.posted["stop"]
             /\ y.posted["wait"] =
                  IF x.wait_handler
                  THEN Append(x.posted["wait"], y.extern_wait_error)
                  ELSE x.posted["wait"]
  <1> DEFINE why == IF x.extern_wait_error = "ok" THEN reason
                    ELSE x.extern_wait_error
             p == [x EXCEPT !.extern_wait_error = why, !.wait_handler = FALSE]
             y == Api!Tell(x, reason)
             n == Api!Answer(p, "wait", why)
  <1>1. y = IF x.wait_handler THEN n ELSE p
    BY Zenon DEF Api!Tell
  <1>2. why \in Api!Errors /\ why \in {x.extern_wait_error, reason}
    BY DEF Api!ApiStates
  <1> HIDE DEF why
  <1>3. /\ p \in Api!ApiStates
        /\ p.extern_state = x.extern_state /\ p.run = x.run
        /\ p.extern_wait_error = why /\ p.posted = x.posted
        /\ p.wait_handler = FALSE /\ p.stop_handler = x.stop_handler
    BY <1>2 DEF Api!ApiStates
  <1> HIDE DEF p
  <1>4. "wait" \in Api!Calls
    BY DEF Api!Calls
  <1>5. AnsweredAs(p, n, "wait", why)
    BY <1>2, <1>3, <1>4, Answered
  <1> HIDE DEF n, y
  <1>6. CASE x.wait_handler
    BY <1>1, <1>2, <1>3, <1>5, <1>6 DEF y, AnsweredAs
  <1>7. CASE ~x.wait_handler
    BY <1>1, <1>2, <1>3, <1>7 DEF y
  <1> QED
    BY <1>6, <1>7

\* The end answers a parked stop, and no other call.
LEMMA Finished ==
  ASSUME NEW x \in Api!ApiStates
  PROVE  LET y == Api!Finish(x)
         IN  /\ y \in Api!ApiStates /\ y.run = "stopped"
             /\ y.extern_wait_error = x.extern_wait_error
             /\ y.wait_handler = x.wait_handler
             /\ y.posted["start"] = x.posted["start"]
             /\ y.posted["wait"] = x.posted["wait"]
             /\ \/ /\ x.extern_state # "stop" /\ y.extern_state = x.extern_state
                   /\ y.stop_handler = x.stop_handler
                   /\ y.posted["stop"] = x.posted["stop"]
                \/ /\ x.extern_state = "stop" /\ y.extern_state = "stopped"
                   /\ y.stop_handler = FALSE
                   /\ y.posted["stop"] = IF x.stop_handler
                                         THEN Append(x.posted["stop"], "ok")
                                         ELSE x.posted["stop"]
  <1> DEFINE q == [x EXCEPT !.run = "stopped"]
             u == [q EXCEPT !.extern_state = "stopped"]
             v == [q EXCEPT !.extern_state = "stopped", !.stop_handler = FALSE]
             n == Api!Answer(v, "stop", "ok")
             y == Api!Finish(x)
  <1>1. \/ y = q /\ x.extern_state # "stop"
        \/ y = n /\ x.extern_state = "stop" /\ x.stop_handler
        \/ y = u /\ x.extern_state = "stop" /\ ~x.stop_handler
    BY Zenon DEF Api!Finish
  <1>2. /\ q \in Api!ApiStates /\ q.run = "stopped"
        /\ q.extern_state = x.extern_state
        /\ q.extern_wait_error = x.extern_wait_error /\ q.posted = x.posted
        /\ q.wait_handler = x.wait_handler /\ q.stop_handler = x.stop_handler
    BY DEF Api!ApiStates
  <1> HIDE DEF q
  <1>3. /\ u \in Api!ApiStates /\ u.run = q.run /\ u.extern_state = "stopped"
        /\ u.extern_wait_error = q.extern_wait_error /\ u.posted = q.posted
        /\ u.wait_handler = q.wait_handler /\ u.stop_handler = q.stop_handler
    BY <1>2 DEF Api!ApiStates
  <1>4. /\ v \in Api!ApiStates /\ v.run = q.run /\ v.extern_state = "stopped"
        /\ v.extern_wait_error = q.extern_wait_error /\ v.posted = q.posted
        /\ v.wait_handler = q.wait_handler /\ v.stop_handler = FALSE
    BY <1>2 DEF Api!ApiStates
  <1> HIDE DEF u, v
  <1>5. "stop" \in Api!Calls /\ "ok" \in Api!Errors
    BY DEF Api!Calls, Api!Errors
  <1>6. AnsweredAs(v, n, "stop", "ok")
    BY <1>4, <1>5, Answered
  <1> HIDE DEF n, y
  <1>7. x.stop_handler \in BOOLEAN
    BY DEF Api!ApiStates
  <1>8. CASE y = q /\ x.extern_state # "stop"
    BY <1>2, <1>8 DEF y
  <1>9. CASE y = n /\ x.extern_state = "stop" /\ x.stop_handler
    BY <1>2, <1>4, <1>6, <1>9 DEF y, AnsweredAs
  <1>10. CASE y = u /\ x.extern_state = "stop" /\ ~x.stop_handler
    BY <1>2, <1>3, <1>7, <1>10 DEF y
  <1> QED
    BY <1>1, <1>8, <1>9, <1>10

\* What the wait and the stop of the user see of an end.
WaitKept(x, y) ==
  y.wait_handler = x.wait_handler /\ y.posted["wait"] = x.posted["wait"]

WaitAnswered(x, y) ==
  /\ y.wait_handler = FALSE
  /\ y.posted["wait"] = IF x.wait_handler
                        THEN Append(x.posted["wait"], y.extern_wait_error)
                        ELSE x.posted["wait"]

StopKept(x, y) ==
  /\ y.extern_state = x.extern_state /\ y.stop_handler = x.stop_handler
  /\ y.posted["stop"] = x.posted["stop"]

StopAnswered(x, y) ==
  /\ x.extern_state = "stop" /\ y.extern_state = "stopped" /\ y.run = "stopped"
  /\ y.stop_handler = FALSE
  /\ y.posted["stop"] = IF x.stop_handler THEN Append(x.posted["stop"], "ok")
                                          ELSE x.posted["stop"]

\* A session that begins to end tells a parked wait, unless it was told to stop,
\* and answers a parked stop when it has ended at once.
LEMMA EndingsSeen ==
  ASSUME NEW x \in Api!ApiStates, NEW reason \in Api!Errors,
         NEW y \in Api!Endings(x, reason)
  PROVE  /\ y \in Api!ApiStates /\ y.run # "work"
         /\ y.posted["start"] = x.posted["start"]
         /\ IF x.extern_state = "work"
            THEN /\ WaitAnswered(x, y)
                 /\ y.extern_wait_error \in {x.extern_wait_error, reason}
            ELSE WaitKept(x, y) /\ y.extern_wait_error = x.extern_wait_error
         /\ StopKept(x, y) \/ StopAnswered(x, y)
  <1> DEFINE t == Api!Tell(x, reason)
             m == IF x.extern_state = "work" THEN t ELSE x
             q == [m EXCEPT !.run = "ending"]
             e == Api!Finish(q)
  <1>1. y \in {q, e}
    BY Zenon DEF Api!Endings
  <1>2. /\ t \in Api!ApiStates
        /\ t.extern_state = x.extern_state
        /\ t.extern_wait_error \in {x.extern_wait_error, reason}
        /\ t.stop_handler = x.stop_handler
        /\ t.posted["start"] = x.posted["start"]
        /\ t.posted["stop"] = x.posted["stop"]
        /\ WaitAnswered(x, t)
    BY Told DEF WaitAnswered
  <1> HIDE DEF t
  <1>3. /\ m \in Api!ApiStates
        /\ m.posted["start"] = x.posted["start"] /\ StopKept(x, m)
        /\ IF x.extern_state = "work"
           THEN /\ WaitAnswered(x, m)
                /\ m.extern_wait_error \in {x.extern_wait_error, reason}
           ELSE WaitKept(x, m) /\ m.extern_wait_error = x.extern_wait_error
    BY <1>2 DEF StopKept, WaitKept
  <1> HIDE DEF m
  <1>4. /\ q \in Api!ApiStates /\ q.run = "ending"
        /\ q.extern_state = m.extern_state
        /\ q.extern_wait_error = m.extern_wait_error /\ q.posted = m.posted
        /\ q.wait_handler = m.wait_handler /\ q.stop_handler = m.stop_handler
    BY <1>3 DEF Api!ApiStates
  <1> HIDE DEF q
  <1>5. /\ e \in Api!ApiStates /\ e.run = "stopped"
        /\ e.extern_wait_error = q.extern_wait_error
        /\ e.posted["start"] = q.posted["start"] /\ WaitKept(q, e)
        /\ StopKept(q, e) \/ StopAnswered(q, e)
    BY <1>4, Finished DEF WaitKept, StopKept, StopAnswered
  <1> HIDE DEF e
  <1>6. CASE y = q
    BY <1>3, <1>4, <1>6 DEF WaitKept, WaitAnswered, StopKept
  <1>7. CASE y = e
    BY <1>3, <1>4, <1>5, <1>7 DEF WaitKept, WaitAnswered, StopKept, StopAnswered
  <1> QED
    BY <1>1, <1>6, <1>7

\* What a server does by itself.
LEMMA EndedSeen ==
  ASSUME NEW x \in Api!ApiStates, NEW y \in Api!Ended(x)
  PROVE  /\ y \in Api!ApiStates /\ x.run # "stopped"
         /\ y.posted["start"] = x.posted["start"]
         /\ WaitKept(x, y) \/ WaitAnswered(x, y)
         /\ y.extern_wait_error \in {x.extern_wait_error, "error"}
         /\ StopKept(x, y) \/ StopAnswered(x, y)
  <1>1. \/ x.run = "work" /\ y \in Api!Endings(x, "error")
        \/ x.run = "ending" /\ y = Api!Finish(x)
    BY Zenon DEF Api!Ended
  <1>2. "error" \in Api!Errors
    BY DEF Api!Errors
  <1>3. CASE x.run = "work" /\ y \in Api!Endings(x, "error")
    BY <1>2, <1>3, EndingsSeen
  <1>4. CASE x.run = "ending" /\ y = Api!Finish(x)
    BY <1>4, Finished DEF WaitKept, StopKept, StopAnswered
  <1> QED
    BY <1>1, <1>3, <1>4

\* The start of a fresh server.
LEMMA StartedSeen ==
  ASSUME NEW x \in Api!ApiStates, x.extern_state = "ready",
         x.wait_handler = FALSE, x.stop_handler = FALSE, NEW y \in Api!Started(x)
  PROVE  /\ y \in Api!ApiStates /\ WaitKept(x, y)
         /\ y.extern_wait_error \in {x.extern_wait_error, "error"}
         /\ y.stop_handler = FALSE /\ y.posted["stop"] = x.posted["stop"]
         /\ \/ /\ y.extern_state = "work"
               /\ y.posted["start"] = Append(x.posted["start"], "ok")
            \/ /\ y.extern_state = "stopped" /\ y.run = "stopped"
               /\ y.posted["start"] = Append(x.posted["start"], "error")
  <1> DEFINE q == [x EXCEPT !.extern_state = "work"]
             u(why) == [x EXCEPT !.extern_state = "stopped", !.run = "stopped",
                                 !.extern_wait_error = why]
  <1>1. \/ \E z \in {q} \cup Api!Endings(q, "error") :
             y = Api!Answer(z, "start", "ok")
        \/ \E why \in {x.extern_wait_error, "error"} :
             y = Api!Answer(u(why), "start", "error")
    BY Zenon DEF Api!Started
  <1>2. /\ "error" \in Api!Errors /\ "ok" \in Api!Errors
        /\ x.extern_wait_error \in Api!Errors
    BY DEF Api!Errors, Api!ApiStates
  <1>3. "start" \in Api!Calls
    BY DEF Api!Calls
  <1>4. /\ q \in Api!ApiStates /\ q.extern_state = "work"
        /\ q.extern_wait_error = x.extern_wait_error /\ q.posted = x.posted
        /\ q.wait_handler = x.wait_handler /\ q.stop_handler = x.stop_handler
    BY DEF Api!ApiStates
  <1> HIDE DEF q
  <1>5. ASSUME NEW z \in {q} \cup Api!Endings(q, "error"),
               y = Api!Answer(z, "start", "ok")
        PROVE  /\ y \in Api!ApiStates /\ WaitKept(x, y)
               /\ y.extern_wait_error \in {x.extern_wait_error, "error"}
               /\ y.stop_handler = FALSE /\ y.posted["stop"] = x.posted["stop"]
               /\ y.extern_state = "work"
               /\ y.posted["start"] = Append(x.posted["start"], "ok")
    <2>1. /\ z \in Api!ApiStates /\ z.posted["start"] = q.posted["start"]
          /\ WaitKept(q, z) \/ WaitAnswered(q, z)
          /\ z.extern_wait_error \in {q.extern_wait_error, "error"}
          /\ StopKept(q, z)
      <3>1. CASE z = q
        BY <1>4, <3>1 DEF WaitKept, StopKept
      <3>2. CASE z \in Api!Endings(q, "error")
        <4>1. /\ z \in Api!ApiStates /\ z.posted["start"] = q.posted["start"]
              /\ IF q.extern_state = "work"
                 THEN /\ WaitAnswered(q, z)
                      /\ z.extern_wait_error \in {q.extern_wait_error, "error"}
                 ELSE WaitKept(q, z) /\ z.extern_wait_error = q.extern_wait_error
              /\ StopKept(q, z) \/ StopAnswered(q, z)
          BY <1>2, <1>4, <3>2, EndingsSeen, Zenon
        <4> QED
          BY <1>4, <4>1 DEF StopAnswered
      <3> QED
        BY <1>5, <3>1, <3>2
    <2>2. /\ z.extern_state = "work" /\ z.stop_handler = FALSE
          /\ z.posted["stop"] = x.posted["stop"] /\ WaitKept(x, z)
          /\ z.posted["start"] = x.posted["start"]
      BY <1>4, <2>1 DEF WaitKept, WaitAnswered, StopKept
    <2>3. AnsweredAs(z, y, "start", "ok")
      BY <1>2, <1>3, <1>5, <2>1, Answered
    <2> QED
      BY <1>4, <2>1, <2>2, <2>3 DEF WaitKept, AnsweredAs
  <1>6. ASSUME NEW why \in {x.extern_wait_error, "error"},
               y = Api!Answer(u(why), "start", "error")
        PROVE  /\ y \in Api!ApiStates /\ WaitKept(x, y)
               /\ y.extern_wait_error \in {x.extern_wait_error, "error"}
               /\ y.stop_handler = FALSE /\ y.posted["stop"] = x.posted["stop"]
               /\ y.extern_state = "stopped" /\ y.run = "stopped"
               /\ y.posted["start"] = Append(x.posted["start"], "error")
    <2> DEFINE z == u(why)
    <2>1. why \in Api!Errors
      BY <1>2, <1>6
    <2>2. /\ z \in Api!ApiStates /\ z.extern_state = "stopped"
          /\ z.run = "stopped" /\ z.extern_wait_error = why /\ z.posted = x.posted
          /\ z.wait_handler = x.wait_handler /\ z.stop_handler = x.stop_handler
      BY <2>1 DEF Api!ApiStates
    <2> HIDE DEF z
    <2>3. y = Api!Answer(z, "start", "error")
      BY <1>6 DEF z
    <2>4. AnsweredAs(z, y, "start", "error")
      BY <1>2, <1>3, <2>2, <2>3, Answered
    <2> QED
      BY <1>6, <2>2, <2>4 DEF WaitKept, AnsweredAs
  <1> QED
    BY <1>1, <1>5, <1>6

\* A wait for a server that was started: it is parked or answered with the reason.
LEMMA WaitedSeen ==
  ASSUME NEW x \in Api!ApiStates, x.extern_state = "work",
         x.wait_handler = FALSE, NEW y \in Api!Waited(x)
  PROVE  /\ y \in Api!ApiStates /\ y.extern_wait_error = x.extern_wait_error
         /\ y.run = x.run /\ StopKept(x, y)
         /\ y.posted["start"] = x.posted["start"]
         /\ \/ y.wait_handler = TRUE /\ y.posted["wait"] = x.posted["wait"]
            \/ /\ y.wait_handler = FALSE
               /\ y.posted["wait"] = Append(x.posted["wait"], x.extern_wait_error)
  <1> DEFINE p == [x EXCEPT !.wait_handler = TRUE]
             n == Api!Answer(x, "wait", x.extern_wait_error)
  <1>1. y = p \/ y = n
    BY Zenon DEF Api!Waited
  <1>2. "wait" \in Api!Calls /\ x.extern_wait_error \in Api!Errors
    BY DEF Api!Calls, Api!ApiStates
  <1>3. /\ p \in Api!ApiStates /\ p.extern_state = x.extern_state
        /\ p.run = x.run /\ p.extern_wait_error = x.extern_wait_error
        /\ p.posted = x.posted /\ p.wait_handler = TRUE
        /\ p.stop_handler = x.stop_handler
    BY DEF Api!ApiStates
  <1>4. AnsweredAs(x, n, "wait", x.extern_wait_error)
    BY <1>2, Answered
  <1> HIDE DEF p, n
  <1> QED
    BY <1>1, <1>3, <1>4 DEF StopKept, AnsweredAs

\* A stop of a server that was started: a parked wait is told, and the stop is
\* answered when the server has ended, parked otherwise.  One of a server that
\* could not start is refused.
LEMMA StoppedSeen ==
  ASSUME NEW x \in Api!ApiStates, x.stop_handler = FALSE, NEW y \in Api!Stopped(x)
  PROVE  /\ x.extern_state = "work" =>
              /\ y \in Api!ApiStates /\ WaitAnswered(x, y)
              /\ y.extern_wait_error \in {x.extern_wait_error, "operation_aborted"}
              /\ y.posted["start"] = x.posted["start"]
              /\ \/ /\ y.extern_state = "stopped" /\ y.run = "stopped"
                    /\ y.stop_handler = FALSE
                    /\ y.posted["stop"] = Append(x.posted["stop"], "ok")
                 \/ /\ y.extern_state = "stop" /\ y.stop_handler = TRUE
                    /\ y.posted["stop"] = x.posted["stop"]
         /\ x.extern_state = "stopped" =>
              /\ y \in Api!ApiStates /\ WaitKept(x, y)
              /\ y.extern_wait_error = x.extern_wait_error /\ y.run = x.run
              /\ y.posted["start"] = x.posted["start"]
              /\ y.extern_state = "stopped" /\ y.stop_handler = FALSE
              /\ y.posted["stop"] = Append(x.posted["stop"], "invalid_state")
  <1> DEFINE t == Api!Tell(x, "operation_aborted")
             q == [t EXCEPT !.extern_state = "stop"]
             ys == IF q.run = "work" THEN Api!Endings(q, "ok") ELSE {q}
             seen(z) == IF z.run = "stopped"
                        THEN Api!Answer([z EXCEPT !.extern_state = "stopped"],
                                        "stop", "ok")
                        ELSE [z EXCEPT !.stop_handler = TRUE]
  <1>1. /\ "operation_aborted" \in Api!Errors /\ "ok" \in Api!Errors
        /\ "invalid_state" \in Api!Errors
        /\ "stop" \in Api!Calls
    BY DEF Api!Calls, Api!Errors
  <1>2. ASSUME x.extern_state = "stopped"
        PROVE  /\ y \in Api!ApiStates /\ WaitKept(x, y)
               /\ y.extern_wait_error = x.extern_wait_error /\ y.run = x.run
               /\ y.posted["start"] = x.posted["start"]
               /\ y.extern_state = "stopped" /\ y.stop_handler = FALSE
               /\ y.posted["stop"] = Append(x.posted["stop"], "invalid_state")
    <2>1. y = Api!Answer(x, "stop", "invalid_state")
      BY <1>2, Zenon DEF Api!Stopped
    <2>2. AnsweredAs(x, y, "stop", "invalid_state")
      BY <1>1, <2>1, Answered
    <2> QED
      BY <1>2, <2>2 DEF WaitKept, AnsweredAs
  <1>3. ASSUME x.extern_state = "work"
        PROVE  /\ y \in Api!ApiStates /\ WaitAnswered(x, y)
               /\ y.extern_wait_error \in {x.extern_wait_error, "operation_aborted"}
               /\ y.posted["start"] = x.posted["start"]
               /\ \/ /\ y.extern_state = "stopped" /\ y.run = "stopped"
                     /\ y.stop_handler = FALSE
                     /\ y.posted["stop"] = Append(x.posted["stop"], "ok")
                  \/ /\ y.extern_state = "stop" /\ y.stop_handler = TRUE
                     /\ y.posted["stop"] = x.posted["stop"]
    <2>1. PICK z \in ys : y = seen(z)
      BY <1>3, Zenon DEF Api!Stopped
    <2>2. /\ t \in Api!ApiStates /\ WaitAnswered(x, t)
          /\ t.extern_wait_error \in {x.extern_wait_error, "operation_aborted"}
          /\ t.stop_handler = FALSE
          /\ t.posted["start"] = x.posted["start"]
          /\ t.posted["stop"] = x.posted["stop"]
      BY <1>1, Told DEF WaitAnswered
    <2> HIDE DEF t
    <2>3. /\ q \in Api!ApiStates /\ q.extern_state = "stop"
          /\ q.extern_wait_error = t.extern_wait_error /\ q.posted = t.posted
          /\ q.wait_handler = t.wait_handler /\ q.stop_handler = t.stop_handler
      BY <2>2 DEF Api!ApiStates
    <2> HIDE DEF q
    <2>4. /\ z \in Api!ApiStates /\ WaitKept(q, z)
          /\ z.extern_wait_error = q.extern_wait_error
          /\ z.stop_handler = FALSE
          /\ z.posted["start"] = q.posted["start"]
          /\ z.posted["stop"] = q.posted["stop"]
          /\ z.run = "stopped" \/ z.extern_state = "stop"
      <3>1. CASE z = q
        BY <2>2, <2>3, <3>1 DEF WaitKept
      <3>2. CASE z \in Api!Endings(q, "ok")
        <4>1. /\ z \in Api!ApiStates /\ z.posted["start"] = q.posted["start"]
              /\ IF q.extern_state = "work"
                 THEN /\ WaitAnswered(q, z)
                      /\ z.extern_wait_error \in {q.extern_wait_error, "ok"}
                 ELSE WaitKept(q, z) /\ z.extern_wait_error = q.extern_wait_error
              /\ StopKept(q, z) \/ StopAnswered(q, z)
          BY <1>1, <2>3, <3>2, EndingsSeen, Zenon
        <4> QED
          BY <2>2, <2>3, <4>1 DEF StopKept, StopAnswered
      <3> QED
        BY <2>1, <3>1, <3>2
    <2>5. /\ WaitAnswered(x, z) /\ z.posted["stop"] = x.posted["stop"]
          /\ z.extern_wait_error \in {x.extern_wait_error, "operation_aborted"}
          /\ z.posted["start"] = x.posted["start"]
      BY <2>2, <2>3, <2>4 DEF WaitKept, WaitAnswered
    <2> HIDE DEF ys
    <2>6. CASE z.run = "stopped"
      <3> DEFINE e == [z EXCEPT !.extern_state = "stopped"]
      <3>1. /\ e \in Api!ApiStates /\ e.extern_state = "stopped"
            /\ e.run = z.run /\ e.extern_wait_error = z.extern_wait_error
            /\ e.posted = z.posted /\ e.wait_handler = z.wait_handler
            /\ e.stop_handler = z.stop_handler
        BY <2>4 DEF Api!ApiStates
      <3>2. y = Api!Answer(e, "stop", "ok")
        BY <2>1, <2>6
      <3> HIDE DEF e
      <3>3. AnsweredAs(e, y, "stop", "ok")
        BY <1>1, <3>1, <3>2, Answered
      <3> QED
        BY <2>4, <2>5, <2>6, <3>1, <3>3 DEF WaitAnswered, AnsweredAs
    <2>7. CASE z.run # "stopped"
      <3>1. y = [z EXCEPT !.stop_handler = TRUE]
        BY <2>1, <2>7
      <3>2. /\ y \in Api!ApiStates /\ y.extern_state = z.extern_state
            /\ y.extern_wait_error = z.extern_wait_error
            /\ y.posted = z.posted /\ y.wait_handler = z.wait_handler
            /\ y.stop_handler = TRUE
        BY <2>4, <3>1 DEF Api!ApiStates
      <3> QED
        BY <2>4, <2>5, <2>7, <3>2 DEF WaitAnswered
    <2> QED
      BY <2>6, <2>7
  <1> QED
    BY <1>2, <1>3

-----------------------------------------------------------------------------
(***************************************************************************)
(* The inductive invariant, of a context c and a server v.  A call of the   *)
(* program is at one place at a time: in the queue of the strand, parked    *)
(* at the server, answered there, or answered and in the event loop.        *)
(***************************************************************************)
HasStart(v) == v.queue \in {<<"start">>, <<"start", "stop">>}
HasWait(v)  == v.queue \in {<<"wait">>, <<"wait", "stop">>}
HasStop(v)  == v.queue \in {<<"stop">>, <<"start", "stop">>, <<"wait", "stop">>}

\* At most one result.
Single == {<<>>} \cup {<<error>> : error \in Api!Errors}

Alone(queued, parked, answers, event) ==
  /\ answers \in Single /\ event \in Single
  /\ queued => ~parked /\ answers = <<>> /\ event = <<>>
  /\ parked => answers = <<>> /\ event = <<>>
  /\ answers # <<>> => event = <<>>

Idle(queued, parked, answers, event) ==
  ~queued /\ ~parked /\ answers = <<>> /\ event = <<>>

\* No call is made twice, and what is made next comes last.
CallsOnce(c, v) ==
  /\ v.queue = <<>> \/ HasStart(v) \/ HasWait(v) \/ HasStop(v)
  /\ Alone(HasStart(v), FALSE, v.api.posted["start"], c.events["start"])
  /\ Alone(HasWait(v), v.api.wait_handler, v.api.posted["wait"], c.events["wait"])
  /\ Alone(HasStop(v), v.api.stop_handler, v.api.posted["stop"], c.events["stop"])

StartIdle(c, v) ==
  Idle(HasStart(v), FALSE, v.api.posted["start"], c.events["start"])
WaitIdle(c, v) ==
  Idle(HasWait(v), v.api.wait_handler, v.api.posted["wait"], c.events["wait"])
StopIdle(c, v) ==
  Idle(HasStop(v), v.api.stop_handler, v.api.posted["stop"], c.events["stop"])

Answers(c, v, call) == {v.api.posted[call], c.events[call]}

\* What the state of the program says of its calls.
Progress(c, v) ==
  /\ c.state \in {"starting", "working"} =>
       StopIdle(c, v) /\ c.timer = 0 /\ c.events["timeout"] = <<>>
  /\ c.state = "starting" =>
       /\ WaitIdle(c, v)
       /\ <<"ok">> \in Answers(c, v, "start") => v.api.extern_state = "work"
  /\ c.state = "working" => StartIdle(c, v)
  /\ c.timer = 0 \/ (c.timer = 1 /\ c.events["timeout"] = <<>>)
  /\ c.events["timeout"] \in Single
  /\ c.loop_stopped <=> c.state = "stopped"
  /\ c.loop_stopped /\ c.end \notin {"timeout", "app_exit", "exception"} =>
       v.api.extern_state = "stopped"

\* What the calls say of the server.
Service(c, v) ==
  /\ v.api.extern_state = "ready" <=> HasStart(v)
  /\ HasWait(v) \/ v.api.wait_handler => v.api.extern_state = "work"
  /\ v.api.extern_state = "stop" <=> v.api.stop_handler
  /\ v.api.extern_state = "stopped" => v.api.run = "stopped"
  /\ v.api.extern_wait_error # "invalid_state"
  /\ Answers(c, v, "start") \subseteq {<<>>, <<"ok">>, <<"error">>}
  /\ <<"error">> \in Answers(c, v, "start") => v.api.extern_state = "stopped"
  /\ <<"invalid_state">> \notin Answers(c, v, "wait")
  /\ Answers(c, v, "stop") # {<<>>} => v.api.extern_state = "stopped"

Sound(c, v) ==
  /\ c \in Contexts /\ v \in Servers
  /\ CallsOnce(c, v) /\ Progress(c, v) /\ Service(c, v)

EInv ==
  /\ Sound(ctx, srv)
  /\ env \in [signals : 0 .. MaxSignals, exceptions : 0 .. MaxExceptions]

-----------------------------------------------------------------------------
(***************************************************************************)
(* What the functions of the program do to the pair g.                      *)
(***************************************************************************)
Pairs == [ctx : Contexts, srv : Servers]

\* The invariant does not depend on the rest of the context.
Beside(d, c) ==
  /\ d \in Contexts
  /\ d.state = c.state /\ d.loop_stopped = c.loop_stopped /\ d.end = c.end
  /\ d.timer = c.timer
  /\ \A e \in {"start", "wait", "stop", "timeout"} : d.events[e] = c.events[e]

\* A step that leaves those members alone keeps the invariant.
LEMMA BesideSound ==
  ASSUME NEW c, NEW d, NEW v, Sound(c, v), Beside(d, c)
  PROVE  Sound(d, v)
  BY DEF Sound, Beside, CallsOnce, Progress, Service, StartIdle, WaitIdle,
     StopIdle, Answers

\* One more event.
LEMMA RaiseFrame ==
  ASSUME NEW g \in Pairs, NEW event \in Events, NEW error \in Api!Errors
  PROVE  LET h == Raise(g, event, error)
         IN  /\ h \in Pairs /\ h.srv = g.srv
             /\ h.ctx.state = g.ctx.state /\ h.ctx.end = g.ctx.end
             /\ h.ctx.loop_stopped = g.ctx.loop_stopped
             /\ h.ctx.timer = g.ctx.timer
             /\ h.ctx.events[event] = Append(g.ctx.events[event], error)
             /\ \A e \in Events : e # event => h.ctx.events[e] = g.ctx.events[e]
  <1> DEFINE c == g.ctx
             more == [c.events EXCEPT ![event] = Append(@, error)]
             d == [c EXCEPT !.events = more]
             h == Raise(g, event, error)
  <1>1. c \in Contexts /\ g.srv \in Servers /\ c.events \in [Events -> Seq(Api!Errors)]
    BY DEF Pairs, Contexts
  <1>2. /\ more \in [Events -> Seq(Api!Errors)]
        /\ more[event] = Append(c.events[event], error)
        /\ \A e \in Events : e # event => more[e] = c.events[e]
    BY <1>1
  <1> HIDE DEF more
  <1>3. /\ d \in Contexts /\ d.state = c.state /\ d.end = c.end
        /\ d.loop_stopped = c.loop_stopped /\ d.timer = c.timer
        /\ d.events = more
    BY <1>1, <1>2 DEF Contexts
  <1>4. h = [g EXCEPT !.ctx = d]
    BY Zenon DEF Raise, more, d, c
  <1> HIDE DEF d
  <1>5. h \in Pairs /\ h.srv = g.srv /\ h.ctx = d
    BY <1>1, <1>3, <1>4 DEF Pairs
  <1> HIDE DEF h
  <1> QED
    BY <1>2, <1>3, <1>5 DEF h

\* One more call.
LEMMA CallFrame ==
  ASSUME NEW g \in Pairs, NEW call \in Api!Calls
  PROVE  LET h == async_call(g, call)
         IN  /\ h \in Pairs /\ h.ctx = g.ctx /\ h.srv.api = g.srv.api
             /\ h.srv.queue = Append(g.srv.queue, call)
  <1> DEFINE v == g.srv
             more == Append(v.queue, call)
             w == [v EXCEPT !.queue = more]
             h == async_call(g, call)
  <1>1. v \in Servers /\ g.ctx \in Contexts /\ v.queue \in Seq(Api!Calls)
    BY DEF Pairs, Servers
  <1>2. more \in Seq(Api!Calls)
    BY <1>1
  <1>3. h = [g EXCEPT !.srv = w]
    BY Zenon DEF async_call, w, v, more
  <1> HIDE DEF more
  <1>5. w \in Servers /\ w.api = v.api /\ w.queue = more
    BY <1>1, <1>2 DEF Servers
  <1> HIDE DEF w
  <1>4. h \in Pairs /\ h.ctx = g.ctx /\ h.srv = w
    BY <1>1, <1>3, <1>5 DEF Pairs
  <1> HIDE DEF h
  <1> QED
    BY <1>4, <1>5 DEF h, more

\* A wait for Ctrl+C concerns nobody else.
LEMMA WaitCloseFrame ==
  ASSUME NEW g \in Pairs
  PROVE  LET h == async_wait_close(g)
         IN  h \in Pairs /\ h.srv = g.srv /\ Beside(h.ctx, g.ctx)
  <1> DEFINE c == g.ctx
             d == [c EXCEPT !.close_waits = @ + 1]
             e == [c EXCEPT !.signals = @ - 1]
             p == [g EXCEPT !.ctx = d]
             q == [g EXCEPT !.ctx = e]
             m == Raise(q, "app_exit", "ok")
             h == async_wait_close(g)
  <1>1. c \in Contexts /\ g.srv \in Servers /\ c.signals \in Nat
    BY DEF Pairs, Contexts
  <1>2. \/ c.signals = 0 /\ h = p
        \/ c.signals # 0 /\ h = m
    BY Zenon DEF async_wait_close
  <1>3. Beside(d, c)
    BY SMTT(30), <1>1 DEF Contexts, Beside
  <1>4. c.signals # 0 => Beside(e, c)
    BY SMTT(30), <1>1 DEF Contexts, Beside
  <1> HIDE DEF d, e
  <1>5. p \in Pairs /\ p.srv = g.srv /\ p.ctx = d
    BY <1>1, <1>3 DEF Pairs, Beside
  <1>6. c.signals # 0 => q \in Pairs /\ q.srv = g.srv /\ q.ctx = e
    BY <1>1, <1>4 DEF Pairs, Beside
  <1> HIDE DEF p, q
  <1>7. ASSUME c.signals # 0
        PROVE  m \in Pairs /\ m.srv = g.srv /\ Beside(m.ctx, c)
    <2>1. "app_exit" \in Events /\ "ok" \in Api!Errors
      BY DEF Events, Api!Errors
    <2>2. /\ m \in Pairs /\ m.srv = q.srv
          /\ m.ctx.state = q.ctx.state /\ m.ctx.end = q.ctx.end
          /\ m.ctx.loop_stopped = q.ctx.loop_stopped
          /\ m.ctx.timer = q.ctx.timer
          /\ \A v \in Events : v # "app_exit" => m.ctx.events[v] = q.ctx.events[v]
      BY <1>6, <1>7, <2>1, RaiseFrame
    <2> HIDE DEF m
    <2>3. m.ctx \in Contexts
      BY <2>2 DEF Pairs
    <2>4. \A v \in {"start", "wait", "stop", "timeout"} : v \in Events /\ v # "app_exit"
      BY DEF Events
    <2> QED
      BY <1>4, <1>6, <1>7, <2>2, <2>3, <2>4 DEF Beside
  <1> HIDE DEF m, h
  <1> QED
    BY <1>2, <1>3, <1>5, <1>7 DEF h

\* The end of the event loop.
LEMMA StopLoopFrame ==
  ASSUME NEW g \in Pairs, NEW who \in Events
  PROVE  LET h == stop_event_loop(g, who)
         IN  /\ h \in Pairs /\ h.srv = g.srv
             /\ h.ctx.state = "stopped" /\ h.ctx.end = who
             /\ h.ctx.loop_stopped = TRUE
             /\ h.ctx.timer = g.ctx.timer /\ h.ctx.events = g.ctx.events
  <1> DEFINE c == g.ctx
             d1 == [c EXCEPT !.loop_stopped = TRUE]
             d2 == [d1 EXCEPT !.state = "stopped"]
             d == [d2 EXCEPT !.end = who]
             h == stop_event_loop(g, who)
  <1>1. c \in Contexts /\ g.srv \in Servers
    BY DEF Pairs
  <1>2. /\ d \in Contexts /\ d.state = "stopped" /\ d.end = who
        /\ d.loop_stopped = TRUE /\ d.timer = c.timer /\ d.events = c.events
    BY <1>1 DEF Contexts
  <1>3. h = [g EXCEPT !.ctx = d]
    BY <1>1 DEF stop_event_loop, Pairs, Contexts
  <1> HIDE DEF d
  <1>4. h \in Pairs /\ h.srv = g.srv /\ h.ctx = d
    BY <1>1, <1>2, <1>3 DEF Pairs
  <1> HIDE DEF h
  <1> QED
    BY <1>2, <1>4 DEF h

\* The assignments of start_server_stop, one after the other.
LEMMA StoppingMembers ==
  ASSUME NEW p \in Pairs, NEW user \in BOOLEAN
  PROVE  [p EXCEPT !.ctx.state = "stopping", !.ctx.user_initiated_stop = user,
                   !.ctx.timer = @ + 1]
         = [p EXCEPT !.ctx =
              [[[p.ctx EXCEPT !.state = "stopping"]
                       EXCEPT !.user_initiated_stop = user] EXCEPT !.timer = @ + 1]]
  BY DEF Pairs, Contexts

\* The stop of the server is begun and timed.
LEMMA ServerStopFrame ==
  ASSUME NEW g \in Pairs, NEW user \in BOOLEAN
  PROVE  LET h == start_server_stop(g, user)
         IN  /\ h \in Pairs /\ h.srv.api = g.srv.api
             /\ h.srv.queue = Append(g.srv.queue, "stop")
             /\ h.ctx.state = "stopping" /\ h.ctx.end = g.ctx.end
             /\ h.ctx.loop_stopped = g.ctx.loop_stopped
             /\ h.ctx.timer = g.ctx.timer + 1
             /\ \A e \in {"start", "wait", "stop", "timeout"} :
                  h.ctx.events[e] = g.ctx.events[e]
  <1> DEFINE p == async_call(g, "stop")
             c == p.ctx
             d1 == [c EXCEPT !.state = "stopping"]
             d2 == [d1 EXCEPT !.user_initiated_stop = user]
             d == [d2 EXCEPT !.timer = @ + 1]
             q == [p EXCEPT !.ctx = d]
             h == start_server_stop(g, user)
  <1>1. /\ p \in Pairs /\ p.ctx = g.ctx /\ p.srv.api = g.srv.api
        /\ p.srv.queue = Append(g.srv.queue, "stop")
    <2>1. "stop" \in Api!Calls
      BY DEF Api!Calls
    <2> QED
      BY <2>1, CallFrame
  <1> HIDE DEF p
  <1>2. c \in Contexts /\ p.srv \in Servers
    BY <1>1 DEF Pairs
  <1>3. /\ d \in Contexts /\ d.state = "stopping" /\ d.end = c.end
        /\ d.loop_stopped = c.loop_stopped /\ d.timer = c.timer + 1
        /\ d.events = c.events
    <2>1. /\ d1 \in Contexts /\ d1.state = "stopping" /\ d1.end = c.end
          /\ d1.loop_stopped = c.loop_stopped /\ d1.timer = c.timer
          /\ d1.events = c.events
      BY <1>2 DEF Contexts
    <2> HIDE DEF d1
    <2>2. /\ d2 \in Contexts /\ d2.state = d1.state /\ d2.end = d1.end
          /\ d2.loop_stopped = d1.loop_stopped /\ d2.timer = d1.timer
          /\ d2.events = d1.events
      BY <2>1 DEF Contexts
    <2> HIDE DEF d2
    <2>3. /\ d \in Contexts /\ d.state = d2.state /\ d.end = d2.end
          /\ d.loop_stopped = d2.loop_stopped /\ d.timer = d2.timer + 1
          /\ d.events = d2.events
      <3> DEFINE n == d2.timer + 1
      <3>1. n \in Nat
        BY <2>2 DEF Contexts
      <3>2. d = [d2 EXCEPT !.timer = n]
        BY Zenon
      <3> HIDE DEF n, d
      <3>3. /\ d \in Contexts /\ d.state = d2.state /\ d.end = d2.end
            /\ d.loop_stopped = d2.loop_stopped /\ d.timer = n
            /\ d.events = d2.events
        BY <2>2, <3>1, <3>2 DEF Contexts
      <3> QED
        BY <3>3 DEF n
    <2> QED
      BY <2>1, <2>2, <2>3
  <1>4. h = async_wait_close(q)
    <2>1. q = [p EXCEPT !.ctx.state = "stopping", !.ctx.user_initiated_stop = user,
                        !.ctx.timer = @ + 1]
      BY <1>1, StoppingMembers
    <2> HIDE DEF q
    <2> QED
      BY <2>1, Zenon DEF start_server_stop, p
  <1> HIDE DEF d
  <1>5. q \in Pairs /\ q.srv = p.srv /\ q.ctx = d
    BY <1>1, <1>2, <1>3 DEF Pairs
  <1> HIDE DEF q, h
  <1>6. h \in Pairs /\ h.srv = q.srv /\ Beside(h.ctx, q.ctx)
    BY <1>4, <1>5, WaitCloseFrame
  <1>7. /\ h \in Pairs /\ h.srv.api = g.srv.api
        /\ h.srv.queue = Append(g.srv.queue, "stop")
        /\ h.ctx.state = "stopping" /\ h.ctx.end = g.ctx.end
        /\ h.ctx.loop_stopped = g.ctx.loop_stopped
        /\ h.ctx.timer = g.ctx.timer + 1
        /\ \A e \in {"start", "wait", "stop", "timeout"} :
             h.ctx.events[e] = g.ctx.events[e]
    BY <1>1, <1>3, <1>5, <1>6 DEF Beside
  <1> QED
    BY <1>7 DEF h

-----------------------------------------------------------------------------
\* The only result of a call is taken.
LEMMA SingleTaken ==
  ASSUME NEW s \in Single, s # <<>>
  PROVE  Head(s) \in Api!Errors /\ Tail(s) = <<>> /\ s = <<Head(s)>>
  <1>1. PICK error \in Api!Errors : s = <<error>>
    BY DEF Single
  <1> QED
    BY <1>1

\* A handler leaves the event loop, and nothing else changes.
LEMMA TakeFrame ==
  ASSUME NEW event \in Events, ctx \in Contexts, srv \in Servers,
         ctx.events[event] # <<>>
  PROVE  LET h == Taken(event)
         IN  /\ h \in Pairs /\ h.srv = srv
             /\ h.ctx.state = ctx.state /\ h.ctx.end = ctx.end
             /\ h.ctx.loop_stopped = ctx.loop_stopped
             /\ h.ctx.timer = ctx.timer
             /\ h.ctx.events[event] = Tail(ctx.events[event])
             /\ \A e \in Events : e # event => h.ctx.events[e] = ctx.events[e]
  <1> DEFINE less == [ctx.events EXCEPT ![event] = Tail(@)]
             d == [ctx EXCEPT !.events = less]
             h == Taken(event)
  <1>1. ctx.events \in [Events -> Seq(Api!Errors)]
    BY DEF Contexts
  <1>2. /\ less \in [Events -> Seq(Api!Errors)]
        /\ less[event] = Tail(ctx.events[event])
        /\ \A e \in Events : e # event => less[e] = ctx.events[e]
    <2>1. Tail(ctx.events[event]) \in Seq(Api!Errors)
      BY <1>1
    <2> QED
      BY <1>1, <2>1
  <1>3. h = [ctx |-> d, srv |-> srv]
    BY Zenon DEF Taken, d, less
  <1> HIDE DEF less
  <1>4. /\ d \in Contexts /\ d.state = ctx.state /\ d.end = ctx.end
        /\ d.loop_stopped = ctx.loop_stopped /\ d.timer = ctx.timer
        /\ d.events = less
    BY <1>1, <1>2 DEF Contexts
  <1> HIDE DEF d
  <1>5. h \in Pairs /\ h.srv = srv /\ h.ctx = d
    BY <1>3, <1>4 DEF Pairs
  <1> HIDE DEF h
  <1> QED
    BY <1>2, <1>4, <1>5 DEF h

\* A handler leaves the event loop: the invariant holds without it.
LEMMA TakeSound ==
  ASSUME NEW event \in Events, Sound(ctx, srv), ctx.events[event] # <<>>
  PROVE  LET h == Taken(event)
         IN  /\ h \in Pairs /\ h.srv = srv /\ Sound(h.ctx, srv)
             /\ h.ctx.state = ctx.state /\ h.ctx.end = ctx.end
             /\ h.ctx.loop_stopped = ctx.loop_stopped
             /\ h.ctx.timer = ctx.timer
             /\ event \in {"start", "wait", "stop", "timeout"} =>
                  h.ctx.events[event] = <<>>
             /\ \A e \in Events : e # event => h.ctx.events[e] = ctx.events[e]
  <1> DEFINE h == Taken(event)
             d == h.ctx
  <1>1. /\ h \in Pairs /\ h.srv = srv
        /\ d.state = ctx.state /\ d.end = ctx.end
        /\ d.loop_stopped = ctx.loop_stopped
        /\ d.timer = ctx.timer
        /\ d.events[event] = Tail(ctx.events[event])
        /\ \A e \in Events : e # event => d.events[e] = ctx.events[e]
    BY TakeFrame DEF Sound
  <1> HIDE DEF h
  <1>2. d \in Contexts
    BY <1>1 DEF Pairs
  <1>3. \A e \in {"start", "wait", "stop", "timeout"} :
           e \in Events /\ ctx.events[e] \in Single
    BY DEF Sound, CallsOnce, Alone, Progress, Events
  <1>4. event \in {"start", "wait", "stop", "timeout"} => d.events[event] = <<>>
    BY <1>1, <1>3, SingleTaken
  <1>5. \A e \in {"start", "wait", "stop", "timeout"} :
           d.events[e] = IF e = event THEN <<>> ELSE ctx.events[e]
    BY <1>1, <1>3, <1>4
  <1>6. Sound(d, srv)
    <2>1. CASE event \notin {"start", "wait", "stop", "timeout"}
      <3>1. Beside(d, ctx)
        BY <1>1, <1>2, <1>5, <2>1 DEF Beside
      <3> QED
        BY <3>1, BesideSound
    <2>2. CASE event = "start"
      <3>1. /\ d.events["start"] = <<>> /\ d.events["wait"] = ctx.events["wait"]
            /\ d.events["stop"] = ctx.events["stop"]
            /\ d.events["timeout"] = ctx.events["timeout"]
            /\ srv.api.posted["start"] = <<>>
        BY <1>5, <2>2 DEF Sound, CallsOnce, Alone
      <3>2. CallsOnce(d, srv)
        BY <3>1 DEF Sound, CallsOnce, Alone, Single
      <3>3. Progress(d, srv)
        BY <1>1, <3>1 DEF Sound, Progress, StartIdle, WaitIdle, StopIdle, Answers,
           Idle, Single
      <3>4. Service(d, srv)
        BY <3>1 DEF Sound, Service, Answers
      <3> QED
        BY <1>2, <3>2, <3>3, <3>4 DEF Sound
    <2>3. CASE event = "wait"
      <3>1. /\ d.events["wait"] = <<>> /\ d.events["start"] = ctx.events["start"]
            /\ d.events["stop"] = ctx.events["stop"]
            /\ d.events["timeout"] = ctx.events["timeout"]
            /\ srv.api.posted["wait"] = <<>>
        BY <1>5, <2>3 DEF Sound, CallsOnce, Alone
      <3>2. CallsOnce(d, srv)
        BY <3>1 DEF Sound, CallsOnce, Alone, Single
      <3>3. Progress(d, srv)
        BY <1>1, <3>1 DEF Sound, Progress, StartIdle, WaitIdle, StopIdle, Answers,
           Idle, Single
      <3>4. Service(d, srv)
        BY <3>1 DEF Sound, Service, Answers
      <3> QED
        BY <1>2, <3>2, <3>3, <3>4 DEF Sound
    <2>4. CASE event = "stop"
      <3>1. /\ d.events["stop"] = <<>> /\ d.events["start"] = ctx.events["start"]
            /\ d.events["wait"] = ctx.events["wait"]
            /\ d.events["timeout"] = ctx.events["timeout"]
            /\ srv.api.posted["stop"] = <<>>
        BY <1>5, <2>4 DEF Sound, CallsOnce, Alone
      <3>2. CallsOnce(d, srv)
        BY <3>1 DEF Sound, CallsOnce, Alone, Single
      <3>3. Progress(d, srv)
        BY <1>1, <3>1 DEF Sound, Progress, StartIdle, WaitIdle, StopIdle, Answers,
           Idle, Single
      <3>4. Service(d, srv)
        BY <3>1 DEF Sound, Service, Answers
      <3> QED
        BY <1>2, <3>2, <3>3, <3>4 DEF Sound
    <2>5. CASE event = "timeout"
      <3>1. /\ d.events["stop"] = ctx.events["stop"]
            /\ d.events["start"] = ctx.events["start"]
            /\ d.events["wait"] = ctx.events["wait"]
            /\ d.events["timeout"] = <<>>
        BY <1>5, <2>5
      <3>2. CallsOnce(d, srv)
        BY <3>1 DEF Sound, CallsOnce, Alone, Single
      <3>3. Progress(d, srv)
        BY <1>1, <3>1 DEF Sound, Progress, StartIdle, WaitIdle, StopIdle, Answers,
           Idle, Single
      <3>4. Service(d, srv)
        BY <3>1 DEF Sound, Service, Answers
      <3> QED
        BY <1>2, <3>2, <3>3, <3>4 DEF Sound
    <2> QED
      BY <2>1, <2>2, <2>3, <2>4, <2>5
  <1> QED
    BY <1>1, <1>4, <1>6 DEF h

-----------------------------------------------------------------------------
(***************************************************************************)
(* The branches of the handlers keep the invariant.                         *)
(***************************************************************************)
\* A second call in the queue.
LEMMA AppendPair ==
  ASSUME NEW x, NEW y
  PROVE  Append(<<x>>, y) = <<x, y>>
  <1> DEFINE q == Append(<<x>>, y)
  <1>1. q \in Seq({x, y})
    OBVIOUS
  <1>2. Len(q) = 2
    OBVIOUS
  <1>3. q[1] = x
    OBVIOUS
  <1>4. q[2] = y
    OBVIOUS
  <1> HIDE DEF q
  <1>5. q = <<x, y>>
    BY <1>1, <1>2, <1>3, <1>4
  <1> QED
    BY <1>5 DEF q

\* The queue holds the calls that are on their way, in order, and no other.
LEMMA QueueKnown ==
  ASSUME NEW c, NEW v, CallsOnce(c, v)
  PROVE  /\ ~HasStop(v) => v.queue \in {<<>>, <<"start">>, <<"wait">>}
         /\ ~HasStart(v) /\ ~HasWait(v) /\ ~HasStop(v) => v.queue = <<>>
  BY DEF CallsOnce, HasStart, HasWait, HasStop

\* The event loop may end at the stop of the server, or because it must.
LEMMA StopLoopSound ==
  ASSUME NEW g \in Pairs, NEW who \in Events, Sound(g.ctx, g.srv),
         \/ who \in {"timeout", "app_exit", "exception"}
         \/ g.srv.api.extern_state = "stopped"
  PROVE  LET h == stop_event_loop(g, who)
         IN  Sound(h.ctx, h.srv)
  <1> DEFINE h == stop_event_loop(g, who)
             c == g.ctx
             d == h.ctx
             v == g.srv
  <1>1. /\ h \in Pairs /\ h.srv = v
        /\ d.state = "stopped" /\ d.end = who /\ d.loop_stopped = TRUE
        /\ d.timer = c.timer /\ d.events = c.events
    BY StopLoopFrame
  <1> HIDE DEF h
  <1>2. d \in Contexts
    BY <1>1 DEF Pairs
  <1>3. CallsOnce(d, v) /\ Service(d, v)
    BY <1>1 DEF Sound, CallsOnce, Service, Answers
  <1>4. Progress(d, v)
    BY <1>1 DEF Sound, Progress
  <1>5. Sound(d, h.srv)
    BY <1>1, <1>2, <1>3, <1>4 DEF Sound
  <1> QED
    BY <1>5 DEF h

\* The stop is called once, and timed once.
LEMMA ServerStopSound ==
  ASSUME NEW g \in Pairs, NEW user \in BOOLEAN, Sound(g.ctx, g.srv),
         g.ctx.state \in {"starting", "working"}
  PROVE  LET h == start_server_stop(g, user)
         IN  Sound(h.ctx, h.srv)
  <1> DEFINE h == start_server_stop(g, user)
             c == g.ctx
             d == h.ctx
             v == g.srv
             w == h.srv
  <1>1. /\ h \in Pairs /\ w.api = v.api
        /\ w.queue = Append(v.queue, "stop")
        /\ d.state = "stopping" /\ d.end = c.end
        /\ d.loop_stopped = c.loop_stopped
        /\ d.timer = c.timer + 1
        /\ \A e \in {"start", "wait", "stop", "timeout"} : d.events[e] = c.events[e]
    BY ServerStopFrame
  <1> HIDE DEF h
  <1>2. d \in Contexts /\ w \in Servers
    BY <1>1 DEF Pairs
  <1>3. StopIdle(c, v) /\ c.timer = 0 /\ c.events["timeout"] = <<>>
    BY DEF Sound, Progress
  <1>4. v.queue \in {<<>>, <<"start">>, <<"wait">>}
    BY <1>3, QueueKnown DEF Sound, StopIdle, Idle
  <1>5. /\ HasStop(w)
        /\ HasStart(w) <=> HasStart(v)
        /\ HasWait(w) <=> HasWait(v)
    <2>1. CASE v.queue = <<>>
      <3>1. w.queue = <<"stop">>
        BY <1>1, <2>1
      <3> QED
        BY <2>1, <3>1 DEF HasStart, HasWait, HasStop
    <2>2. CASE v.queue = <<"start">>
      <3>1. w.queue = <<"start", "stop">>
        BY <1>1, <2>2, AppendPair, Zenon
      <3> QED
        BY <2>2, <3>1 DEF HasStart, HasWait, HasStop
    <2>3. CASE v.queue = <<"wait">>
      <3>1. w.queue = <<"wait", "stop">>
        BY <1>1, <2>3, AppendPair, Zenon
      <3> QED
        BY <2>3, <3>1 DEF HasStart, HasWait, HasStop
    <2> QED
      BY <1>4, <2>1, <2>2, <2>3
  <1>6. /\ d.events["start"] = c.events["start"] /\ d.events["wait"] = c.events["wait"]
        /\ d.events["stop"] = c.events["stop"]
        /\ d.events["timeout"] = c.events["timeout"]
    BY <1>1
  <1>7. CallsOnce(d, w)
    BY <1>1, <1>3, <1>5, <1>6 DEF Sound, CallsOnce, StopIdle, Idle, Alone
  <1>8. Progress(d, w)
    <2>1. c.loop_stopped = FALSE /\ d.loop_stopped = FALSE /\ d.timer = 1
      BY <1>1, <1>3 DEF Sound, Progress, Contexts
    <2> QED
      BY <1>1, <1>3, <1>6, <2>1 DEF Progress, Single
  <1>9. Service(d, w)
    BY <1>1, <1>5, <1>6 DEF Sound, Service, Answers
  <1>10. Sound(d, w)
    BY <1>2, <1>7, <1>8, <1>9 DEF Sound
  <1> QED
    BY <1>10 DEF h

\* The wait is called once, and of a server that works.
LEMMA WaitSound ==
  ASSUME NEW g \in Pairs, Sound(g.ctx, g.srv), g.ctx.state = "starting",
         StartIdle(g.ctx, g.srv), g.srv.api.extern_state = "work"
  PROVE  LET h == async_call([g EXCEPT !.ctx.state = "working"], "wait")
         IN  Sound(h.ctx, h.srv)
  <1> DEFINE c == g.ctx
             d == [c EXCEPT !.state = "working"]
             p == [g EXCEPT !.ctx = d]
             h == async_call([g EXCEPT !.ctx.state = "working"], "wait")
             v == g.srv
             w == h.srv
  <1>1. c \in Contexts /\ v \in Servers
    BY DEF Pairs
  <1>2. /\ d \in Contexts /\ d.state = "working" /\ d.end = c.end
        /\ d.loop_stopped = c.loop_stopped /\ d.timer = c.timer
        /\ d.events = c.events
    BY <1>1 DEF Contexts
  <1>3. h = async_call(p, "wait")
    BY Zenon
  <1> HIDE DEF d
  <1>4. p \in Pairs /\ p.srv = v /\ p.ctx = d
    BY <1>1, <1>2 DEF Pairs
  <1> HIDE DEF p
  <1>5. /\ h \in Pairs /\ h.ctx = d /\ w.api = v.api
        /\ w.queue = Append(v.queue, "wait")
    <2>1. "wait" \in Api!Calls
      BY DEF Api!Calls
    <2> HIDE DEF h
    <2> QED
      BY ZenonT(40), <1>3, <1>4, <2>1, CallFrame
  <1> HIDE DEF h
  <1>6. StopIdle(c, v) /\ WaitIdle(c, v) /\ c.timer = 0 /\ c.events["timeout"] = <<>>
    BY DEF Sound, Progress
  <1>7. w.queue = <<"wait">>
    <2>1. v.queue = <<>>
      BY <1>6, QueueKnown DEF Sound, StopIdle, StartIdle, WaitIdle, Idle
    <2> QED
      BY <1>5, <2>1
  <1>8. HasWait(w) /\ ~HasStart(w) /\ ~HasStop(w)
    BY <1>7 DEF HasStart, HasWait, HasStop
  <1>9. w \in Servers
    BY <1>5 DEF Pairs
  <1>10. CallsOnce(d, w)
    BY <1>2, <1>5, <1>6, <1>8
       DEF Sound, CallsOnce, StopIdle, StartIdle, WaitIdle, Idle, Alone
  <1>11. Progress(d, w)
    BY <1>2, <1>5, <1>6, <1>8 DEF Sound, Progress, StopIdle, StartIdle, Idle, Single
  <1>12. Service(d, w)
    BY <1>2, <1>5, <1>8 DEF Sound, Service, StartIdle, Idle, Answers
  <1>13. Sound(h.ctx, w)
    BY <1>2, <1>5, <1>9, <1>10, <1>11, <1>12 DEF Sound
  <1> QED
    BY <1>13 DEF h

-----------------------------------------------------------------------------
(***************************************************************************)
(* Every action keeps the invariant: the event loop.                        *)
(***************************************************************************)
\* The handler of the start: it counts only while the program is starting, and
\* then its success means that the server works.
LEMMA HandleServerStartKeeps ==
  ASSUME EInv, HandleServerStart
  PROVE  EInv'
  <1> DEFINE g == Taken("start")
             error == Head(ctx.events["start"])
             h == handle_server_start(g, error)
  <1>1. /\ ctx.events["start"] # <<>> /\ "start" \in Events
        /\ ctx' = h.ctx /\ srv' = h.srv /\ env' = env
    BY DEF HandleServerStart, Ready, Become, Events
  <1>2. Sound(ctx, srv)
    BY DEF EInv
  <1>3. /\ g \in Pairs /\ g.srv = srv /\ Sound(g.ctx, g.srv)
        /\ g.ctx.state = ctx.state /\ g.ctx.events["start"] = <<>>
    BY <1>1, <1>2, TakeSound
  <1>4. error \in {"ok", "error"} /\ ctx.events["start"] = <<error>>
    <2>1. ctx.events["start"] \in Single
      BY <1>2 DEF Sound, CallsOnce, Alone
    <2>2. ctx.events["start"] = <<error>>
      BY <1>1, <2>1, SingleTaken
    <2>3. ctx.events["start"] \in {<<>>, <<"ok">>, <<"error">>}
      BY <1>2 DEF Sound, Service, Answers
    <2> HIDE DEF error
    <2> QED
      BY <1>1, <2>2, <2>3
  <1> HIDE DEF g, error
  <1>5. Sound(h.ctx, h.srv)
    <2>1. CASE g.ctx.state # "starting"
      <3>1. h = g
        BY <2>1, Zenon DEF handle_server_start
      <3> QED
        BY <1>3, <3>1
    <2>2. CASE g.ctx.state = "starting" /\ error # "ok"
      <3>1. h = stop_event_loop(g, "start")
        BY <2>2, Zenon DEF handle_server_start
      <3>2. g.srv.api.extern_state = "stopped"
        BY <1>2, <1>3, <1>4, <2>2 DEF Sound, Service, Answers
      <3> QED
        BY <1>1, <1>3, <3>1, <3>2, StopLoopSound
    <2>3. CASE g.ctx.state = "starting" /\ error = "ok"
      <3>1. h = async_call([g EXCEPT !.ctx.state = "working"], "wait")
        BY <2>3, Zenon DEF handle_server_start
      <3>2. g.srv.api.extern_state = "work"
        BY <1>2, <1>3, <1>4, <2>3 DEF Sound, Progress, Answers
      <3>3. StartIdle(g.ctx, g.srv)
        BY <1>1, <1>2, <1>3 DEF Sound, CallsOnce, Alone, StartIdle, Idle
      <3> HIDE DEF h
      <3> QED
        BY <1>3, <2>3, <3>1, <3>2, <3>3, WaitSound
    <2> QED
      BY <2>1, <2>2, <2>3
  <1> HIDE DEF h
  <1> QED
    BY <1>1, <1>5 DEF EInv

\* The handler of the wait: the stop is begun unless it is under way.
LEMMA HandleServerWaitKeeps ==
  ASSUME EInv, HandleServerWait
  PROVE  EInv'
  <1> DEFINE g == Taken("wait")
             error == Head(ctx.events["wait"])
             h == handle_server_wait(g, error)
  <1>1. /\ ctx.events["wait"] # <<>> /\ "wait" \in Events
        /\ ctx' = h.ctx /\ srv' = h.srv /\ env' = env
    BY DEF HandleServerWait, Ready, Become, Events
  <1>2. g \in Pairs /\ Sound(g.ctx, g.srv)
    BY <1>1, TakeSound DEF EInv
  <1> HIDE DEF g, error
  <1>3. h = g \/ (g.ctx.state = "working" /\ h = start_server_stop(g, FALSE))
    BY Zenon DEF handle_server_wait
  <1> HIDE DEF h
  <1>4. Sound(h.ctx, h.srv)
    BY <1>2, <1>3, ServerStopSound
  <1> QED
    BY <1>1, <1>4 DEF EInv

\* The handler of the stop: the server has stopped.
LEMMA HandleServerStopKeeps ==
  ASSUME EInv, HandleServerStop
  PROVE  EInv'
  <1> DEFINE g == Taken("stop")
             error == Head(ctx.events["stop"])
             h == handle_server_stop(g, error)
  <1>1. /\ ctx.events["stop"] # <<>> /\ "stop" \in Events
        /\ ctx' = h.ctx /\ srv' = h.srv /\ env' = env
    BY DEF HandleServerStop, Ready, Become, Events
  <1>2. g \in Pairs /\ g.srv = srv /\ Sound(g.ctx, g.srv)
    BY <1>1, TakeSound DEF EInv
  <1>3. srv.api.extern_state = "stopped"
    BY <1>1 DEF EInv, Sound, Service, Answers
  <1> HIDE DEF g, error
  <1>4. h = stop_event_loop(g, "stop")
    BY Zenon DEF handle_server_stop
  <1> HIDE DEF h
  <1>5. Sound(h.ctx, h.srv)
    BY <1>1, <1>2, <1>3, <1>4, StopLoopSound
  <1> QED
    BY <1>1, <1>5 DEF EInv

\* The handlers that may end the event loop over a running server.
LEMMA HandleServerStopTimeoutKeeps ==
  ASSUME EInv, HandleServerStopTimeout
  PROVE  EInv'
  <1> DEFINE g == Taken("timeout")
             error == Head(ctx.events["timeout"])
             h == handle_server_stop_timeout(g, error)
  <1>1. /\ ctx.events["timeout"] # <<>> /\ "timeout" \in Events
        /\ ctx' = h.ctx /\ srv' = h.srv /\ env' = env
    BY DEF HandleServerStopTimeout, Ready, Become, Events
  <1>2. g \in Pairs /\ Sound(g.ctx, g.srv)
    BY <1>1, TakeSound DEF EInv
  <1> HIDE DEF g, error
  <1>3. h = g \/ h = stop_event_loop(g, "timeout")
    BY Zenon DEF handle_server_stop_timeout
  <1> HIDE DEF h
  <1>4. Sound(h.ctx, h.srv)
    BY <1>1, <1>2, <1>3, StopLoopSound
  <1> QED
    BY <1>1, <1>4 DEF EInv

\* Ctrl+C: the first begins the stop, the next ends the event loop.
LEMMA HandleAppExitKeeps ==
  ASSUME EInv, HandleAppExit
  PROVE  EInv'
  <1> DEFINE g == Taken("app_exit")
             h == handle_app_exit(g)
  <1>1. /\ ctx.events["app_exit"] # <<>> /\ "app_exit" \in Events
        /\ ctx' = h.ctx /\ srv' = h.srv /\ env' = env
    BY DEF HandleAppExit, Ready, Become, Events
  <1>2. g \in Pairs /\ Sound(g.ctx, g.srv)
    BY <1>1, TakeSound DEF EInv
  <1> HIDE DEF g
  <1>3. \/ h = g
        \/ h = stop_event_loop(g, "app_exit")
        \/ /\ g.ctx.state # "stopped" /\ g.ctx.state # "stopping"
           /\ h = start_server_stop(g, TRUE)
    BY Zenon DEF handle_app_exit
  <1>4. g.ctx.state \in {"starting", "working", "stopping", "stopped"}
    BY <1>2 DEF Pairs, Contexts
  <1> HIDE DEF h
  <1>5. Sound(h.ctx, h.srv)
    <2>1. CASE h = g
      BY <1>2, <2>1
    <2>2. CASE h = stop_event_loop(g, "app_exit")
      BY <1>1, <1>2, <2>2, StopLoopSound
    <2>3. CASE /\ g.ctx.state # "stopped" /\ g.ctx.state # "stopping"
               /\ h = start_server_stop(g, TRUE)
      BY <1>2, <1>4, <2>3, ServerStopSound
    <2> QED
      BY <1>3, <2>1, <2>2, <2>3
  <1> QED
    BY <1>1, <1>5 DEF EInv

\* A worker thread died: the event loop ends.
LEMMA HandleWorkThreadExceptionKeeps ==
  ASSUME EInv, HandleWorkThreadException
  PROVE  EInv'
  <1> DEFINE g == Taken("exception")
             h == handle_work_thread_exception(g)
  <1>1. /\ ctx.events["exception"] # <<>> /\ "exception" \in Events
        /\ ctx' = h.ctx /\ srv' = h.srv /\ env' = env
    BY DEF HandleWorkThreadException, Ready, Become, Events
  <1>2. g \in Pairs /\ Sound(g.ctx, g.srv)
    BY <1>1, TakeSound DEF EInv
  <1> HIDE DEF g
  <1>3. h = g \/ h = stop_event_loop(g, "exception")
    BY Zenon DEF handle_work_thread_exception
  <1> HIDE DEF h
  <1>4. Sound(h.ctx, h.srv)
    BY <1>1, <1>2, <1>3, StopLoopSound
  <1> QED
    BY <1>1, <1>4 DEF EInv

-----------------------------------------------------------------------------
(***************************************************************************)
(* Every action keeps the invariant: the threads, the timer, the signals.   *)
(***************************************************************************)
\* The invariant does not depend on the threads of the server.
LEMMA ThreadsSound ==
  ASSUME NEW c, NEW v, NEW w \in Servers, Sound(c, v), w.queue = v.queue,
         w.api = v.api
  PROVE  Sound(c, w)
  BY ZenonT(40) DEF Sound, CallsOnce, Progress, Service, StartIdle, WaitIdle, StopIdle,
     Answers, HasStart, HasWait, HasStop

\* The end of run_server.
LEMMA StopThreadsKeeps ==
  ASSUME EInv, StopThreads
  PROVE  EInv'
  <1>1. ctx \in Contexts /\ srv \in Servers /\ Sound(ctx, srv)
    BY DEF EInv, Sound
  <1>2. /\ ctx' = [ctx EXCEPT !.exited = TRUE]
        /\ srv' = [srv EXCEPT !.alive = FALSE] /\ env' = env
    BY DEF StopThreads
  <1>3. Beside(ctx', ctx)
    BY <1>1, <1>2 DEF Contexts, Beside
  <1>4. srv' \in Servers /\ srv'.queue = srv.queue /\ srv'.api = srv.api
    BY <1>1, <1>2 DEF Servers
  <1>5. Sound(ctx', srv')
    BY <1>1, <1>3, <1>4, BesideSound, ThreadsSound
  <1> QED
    BY <1>2, <1>5 DEF EInv

\* The one wait of the stop timer becomes the one timeout event.
LEMMA TimerExpiresKeeps ==
  ASSUME EInv, TimerExpires
  PROVE  EInv'
  <1> DEFINE d == [ctx EXCEPT !.timer = @ - 1]
             g == [ctx |-> d, srv |-> srv]
             h == Raise(g, "timeout", "ok")
  <1>1. ctx \in Contexts /\ srv \in Servers /\ Sound(ctx, srv) /\ ctx.timer \in Nat
    BY DEF EInv, Sound, Contexts
  <1>2. ctx.timer > 0 /\ ctx' = h.ctx /\ srv' = h.srv /\ env' = env
    BY Zenon DEF TimerExpires, Become
  <1>3. ctx.timer = 1 /\ ctx.events["timeout"] = <<>> /\ ctx.state \notin {"starting", "working"}
    BY <1>1, <1>2 DEF Sound, Progress
  <1>4. /\ d \in Contexts /\ d.state = ctx.state /\ d.end = ctx.end
        /\ d.loop_stopped = ctx.loop_stopped /\ d.timer = 0
        /\ d.events = ctx.events
    <2>1. ctx.timer - 1 = 0
      BY <1>3
    <2>2. d = [ctx EXCEPT !.timer = 0]
      BY <2>1, Zenon
    <2> HIDE DEF d
    <2> QED
      BY <1>1, <2>2 DEF Contexts
  <1> HIDE DEF d
  <1>5. g \in Pairs /\ g.ctx = d /\ g.srv = srv
    BY <1>1, <1>4 DEF Pairs
  <1> HIDE DEF g
  <1>6. "timeout" \in Events /\ "ok" \in Api!Errors
    BY DEF Events, Api!Errors
  <1>7. /\ h \in Pairs /\ h.srv = g.srv
        /\ h.ctx.state = g.ctx.state /\ h.ctx.end = g.ctx.end
        /\ h.ctx.loop_stopped = g.ctx.loop_stopped
        /\ h.ctx.timer = g.ctx.timer
        /\ h.ctx.events["timeout"] = Append(g.ctx.events["timeout"], "ok")
        /\ \A e \in Events : e # "timeout" => h.ctx.events[e] = g.ctx.events[e]
    BY <1>5, <1>6, RaiseFrame
  <1> HIDE DEF h
  <1>8. /\ ctx' \in Contexts /\ srv' = srv
        /\ ctx'.state = ctx.state /\ ctx'.end = ctx.end
        /\ ctx'.loop_stopped = ctx.loop_stopped /\ ctx'.timer = 0
        /\ ctx'.events["timeout"] = <<"ok">>
        /\ ctx'.events["start"] = ctx.events["start"]
        /\ ctx'.events["wait"] = ctx.events["wait"]
        /\ ctx'.events["stop"] = ctx.events["stop"]
    <2>1. Append(ctx.events["timeout"], "ok") = <<"ok">>
      BY <1>3
    <2>2. h.ctx \in Contexts
      BY <1>7 DEF Pairs
    <2>3. \A e \in {"start", "wait", "stop"} : e \in Events /\ e # "timeout"
      BY DEF Events
    <2> QED
      BY <1>2, <1>4, <1>5, <1>7, <2>1, <2>2, <2>3
  <1>9. CallsOnce(ctx', srv') /\ Service(ctx', srv')
    BY <1>1, <1>8 DEF Sound, CallsOnce, Service, Answers
  <1>10. Progress(ctx', srv')
    <2>1. <<"ok">> \in Single
      BY <1>6 DEF Single
    <2> QED
      BY <1>1, <1>3, <1>8, <2>1 DEF Sound, Progress
  <1> QED
    BY <1>1, <1>2, <1>8, <1>9, <1>10 DEF EInv, Sound

\* A signal is kept, or answers the waits for it.
LEMMA CtrlCKeeps ==
  ASSUME EInv, CtrlC
  PROVE  EInv'
  <1> DEFINE n == ctx.close_waits
             answers == [i \in 1 .. n |-> "ok"]
             told == ctx.events["app_exit"] \o answers
             more == [ctx.events EXCEPT !["app_exit"] = told]
             d == [ctx EXCEPT !.signals = @ + 1]
             e1 == [ctx EXCEPT !.close_waits = 0]
             e == [e1 EXCEPT !.events = more]
  <1>1. ctx \in Contexts /\ srv \in Servers /\ Sound(ctx, srv) /\ n \in Nat
    BY DEF EInv, Sound, Contexts
  <1>2. srv' = srv /\ env' = [env EXCEPT !.signals = @ + 1] /\ env.signals < MaxSignals
    BY DEF CtrlC
  <1>3. ctx' = d \/ ctx' = [ctx EXCEPT !.close_waits = 0, !.events["app_exit"] = told]
    BY Zenon DEF CtrlC, told, answers, n, d
  <1>4. told \in Seq(Api!Errors)
    <2>1. ctx.events["app_exit"] \in Seq(Api!Errors)
      BY <1>1 DEF Contexts, Events
    <2>2. answers \in Seq(Api!Errors)
      BY <1>1 DEF Api!Errors
    <2> HIDE DEF answers
    <2> QED
      BY <2>1, <2>2
  <1> HIDE DEF told, answers
  <1>5. /\ more \in [Events -> Seq(Api!Errors)]
        /\ \A v \in Events : v # "app_exit" => more[v] = ctx.events[v]
    BY <1>1, <1>4 DEF Contexts
  <1>6. e = [ctx EXCEPT !.close_waits = 0, !.events["app_exit"] = told]
    <2>1. e1.events = ctx.events
      BY <1>1 DEF Contexts
    <2>2. [ctx EXCEPT !.close_waits = 0, !.events["app_exit"] = told]
          = [e1 EXCEPT !.events["app_exit"] = told]
      BY Zenon
    <2> HIDE DEF e1
    <2> QED
      BY <2>1, <2>2, Zenon DEF e, more
  <1> HIDE DEF more
  <1>7. Beside(d, ctx)
    <2> DEFINE m == ctx.signals + 1
    <2>1. m \in Nat
      BY <1>1 DEF Contexts
    <2>2. d = [ctx EXCEPT !.signals = m]
      BY Zenon
    <2> HIDE DEF m, d
    <2> QED
      BY <1>1, <2>1, <2>2 DEF Contexts, Beside
  <1>8. Beside(e, ctx)
    <2>1. \A v \in {"start", "wait", "stop", "timeout"} : v \in Events /\ v # "app_exit"
      BY DEF Events
    <2>2. /\ e \in Contexts /\ e.state = ctx.state /\ e.end = ctx.end
          /\ e.loop_stopped = ctx.loop_stopped /\ e.timer = ctx.timer
          /\ e.events = more
      BY <1>1, <1>5 DEF Contexts
    <2> HIDE DEF e
    <2> QED
      BY <1>5, <2>1, <2>2 DEF Beside
  <1> HIDE DEF d, e
  <1>9. Sound(ctx', srv')
    BY <1>1, <1>2, <1>3, <1>6, <1>7, <1>8, BesideSound
  <1>10. env' \in [signals : 0 .. MaxSignals, exceptions : 0 .. MaxExceptions]
    BY <1>2, EchoServerAssumption DEF EInv
  <1> QED
    BY <1>9, <1>10 DEF EInv

\* A worker thread dies and tells the event loop.
LEMMA ThreadFailsKeeps ==
  ASSUME EInv, ThreadFails
  PROVE  EInv'
  <1> DEFINE told == Append(ctx.events["exception"], "ok")
             more == [ctx.events EXCEPT !["exception"] = told]
             d == [ctx EXCEPT !.events = more]
  <1>1. ctx \in Contexts /\ srv \in Servers /\ Sound(ctx, srv)
    BY DEF EInv, Sound
  <1>2. PICK alive \in BOOLEAN : srv' = [srv EXCEPT !.alive = alive]
    BY DEF ThreadFails
  <1>3. /\ ctx' = d /\ env' = [env EXCEPT !.exceptions = @ + 1]
        /\ env.exceptions < MaxExceptions
    BY Zenon DEF ThreadFails, d, more, told
  <1>4. told \in Seq(Api!Errors)
    BY <1>1 DEF Contexts, Events, Api!Errors
  <1> HIDE DEF told
  <1>5. /\ more \in [Events -> Seq(Api!Errors)]
        /\ \A v \in Events : v # "exception" => more[v] = ctx.events[v]
    BY <1>1, <1>4 DEF Contexts
  <1> HIDE DEF more
  <1>6. Beside(ctx', ctx)
    <2>1. \A v \in {"start", "wait", "stop", "timeout"} : v \in Events /\ v # "exception"
      BY DEF Events
    <2>2. /\ d \in Contexts /\ d.state = ctx.state /\ d.end = ctx.end
          /\ d.loop_stopped = ctx.loop_stopped /\ d.timer = ctx.timer
          /\ d.events = more
      BY <1>1, <1>5 DEF Contexts
    <2> HIDE DEF d
    <2> QED
      BY <1>3, <1>5, <2>1, <2>2 DEF Beside
  <1>7. srv' \in Servers /\ srv'.queue = srv.queue /\ srv'.api = srv.api
    BY <1>1, <1>2 DEF Servers
  <1>8. Sound(ctx', srv')
    BY <1>1, <1>6, <1>7, BesideSound, ThreadsSound
  <1>9. env' \in [signals : 0 .. MaxSignals, exceptions : 0 .. MaxExceptions]
    BY <1>3, EchoServerAssumption DEF EInv
  <1> QED
    BY <1>8, <1>9 DEF EInv

-----------------------------------------------------------------------------
(***************************************************************************)
(* Every action keeps the invariant: the server.                            *)
(***************************************************************************)
\* The strand runs the first call of the queue.
LEMMA RunFrame ==
  ASSUME NEW v \in Servers, v.queue # <<>>, NEW y \in Api!ApiStates
  PROVE  LET w == [v EXCEPT !.api = y, !.queue = Tail(@)]
         IN  w \in Servers /\ w.api = y /\ w.queue = Tail(v.queue)
  <1> DEFINE less == Tail(v.queue)
             u == [v EXCEPT !.api = y]
             w == [v EXCEPT !.api = y, !.queue = Tail(@)]
  <1>1. v.queue \in Seq(Api!Calls) /\ less \in Seq(Api!Calls)
    BY DEF Servers
  <1>2. u \in Servers /\ u.api = y /\ u.queue = v.queue
    BY DEF Servers
  <1>3. w = [u EXCEPT !.queue = less]
    <2>1. w = [u EXCEPT !.queue = Tail(@)]
      BY Zenon
    <2> HIDE DEF u
    <2> QED
      BY <1>2, <2>1, Zenon
  <1> HIDE DEF less, u, w
  <1>4. w \in Servers /\ w.api = y /\ w.queue = less
    BY <1>1, <1>2, <1>3 DEF Servers
  <1> QED
    BY <1>4 DEF w, less

\* What is left in the queue after its first call.
LEMMA QueueRun ==
  ASSUME NEW c, NEW v, NEW w, CallsOnce(c, v), v.queue # <<>>,
         w.queue = Tail(v.queue)
  PROVE  /\ Head(v.queue) \in {"start", "wait", "stop"}
         /\ Head(v.queue) = "start" =>
              HasStart(v) /\ ~HasWait(v) /\ (HasStop(w) <=> HasStop(v))
         /\ Head(v.queue) = "wait" =>
              HasWait(v) /\ ~HasStart(v) /\ (HasStop(w) <=> HasStop(v))
         /\ Head(v.queue) = "stop" =>
              HasStop(v) /\ ~HasStop(w) /\ ~HasStart(v) /\ ~HasWait(v)
         /\ ~HasStart(w) /\ ~HasWait(w)
         /\ w.queue = <<>> \/ w.queue = <<"stop">>
  <1>1. CASE v.queue = <<"start">>
    <2>1. w.queue = <<>> /\ Head(v.queue) = "start"
      BY <1>1
    <2> QED
      BY <1>1, <2>1 DEF HasStart, HasWait, HasStop
  <1>2. CASE v.queue = <<"start", "stop">>
    <2>1. w.queue = <<"stop">> /\ Head(v.queue) = "start"
      BY <1>2
    <2> QED
      BY <1>2, <2>1 DEF HasStart, HasWait, HasStop
  <1>3. CASE v.queue = <<"wait">>
    <2>1. w.queue = <<>> /\ Head(v.queue) = "wait"
      BY <1>3
    <2> QED
      BY <1>3, <2>1 DEF HasStart, HasWait, HasStop
  <1>4. CASE v.queue = <<"wait", "stop">>
    <2>1. w.queue = <<"stop">> /\ Head(v.queue) = "wait"
      BY <1>4
    <2> QED
      BY <1>4, <2>1 DEF HasStart, HasWait, HasStop
  <1>5. CASE v.queue = <<"stop">>
    <2>1. w.queue = <<>> /\ Head(v.queue) = "stop"
      BY <1>5
    <2> QED
      BY <1>5, <2>1 DEF HasStart, HasWait, HasStop
  <1> QED
    BY <1>1, <1>2, <1>3, <1>4, <1>5 DEF CallsOnce, HasStart, HasWait, HasStop

\* The one result of a call that had none.
LEMMA OneAnswer ==
  ASSUME NEW error \in Api!Errors
  PROVE  Append(<<>>, error) = <<error>> /\ <<error>> \in Single
  BY DEF Single

\* Two results are equal if their errors are.
LEMMA OneSame ==
  ASSUME NEW e, NEW f, <<e>> = <<f>>
  PROVE  e = f
  <1>1. <<e>>[1] = e /\ <<f>>[1] = f
    OBVIOUS
  <1> QED
    BY <1>1

\* The start is run first, by a fresh server.
LEMMA RunStart ==
  ASSUME NEW c, NEW v, NEW w \in Servers, Sound(c, v), v.queue # <<>>,
         Head(v.queue) = "start", w.queue = Tail(v.queue),
         w.api \in Api!Started(v.api)
  PROVE  Sound(c, w)
  <1> DEFINE x == v.api
             y == w.api
  <1>1. /\ HasStart(v) /\ ~HasWait(v) /\ (HasStop(w) <=> HasStop(v))
        /\ ~HasStart(w) /\ ~HasWait(w)
        /\ w.queue = <<>> \/ w.queue = <<"stop">>
    BY QueueRun DEF Sound
  <1>2. x \in Api!ApiStates
    BY DEF Sound, Servers
  <1>3. /\ x.extern_state = "ready" /\ x.wait_handler = FALSE
        /\ x.stop_handler = FALSE /\ x.posted["start"] = <<>>
        /\ c.events["start"] = <<>> /\ x.extern_wait_error # "invalid_state"
    BY <1>1, <1>2 DEF Sound, Service, CallsOnce, Alone, Api!ApiStates
  <1>4. /\ y \in Api!ApiStates /\ WaitKept(x, y)
        /\ y.extern_wait_error \in {x.extern_wait_error, "error"}
        /\ y.stop_handler = FALSE /\ y.posted["stop"] = x.posted["stop"]
        /\ \/ /\ y.extern_state = "work"
              /\ y.posted["start"] = Append(x.posted["start"], "ok")
           \/ /\ y.extern_state = "stopped" /\ y.run = "stopped"
              /\ y.posted["start"] = Append(x.posted["start"], "error")
    BY <1>2, <1>3, StartedSeen
  <1>5. /\ <<"ok">> \in Single /\ <<"error">> \in Single
        /\ \/ y.extern_state = "work" /\ y.posted["start"] = <<"ok">>
           \/ /\ y.extern_state = "stopped" /\ y.run = "stopped"
              /\ y.posted["start"] = <<"error">>
    <2>1. "ok" \in Api!Errors /\ "error" \in Api!Errors
      BY DEF Api!Errors
    <2> QED
      BY <1>3, <1>4, <2>1, OneAnswer
  <1>6. CallsOnce(c, w)
    BY <1>1, <1>3, <1>4, <1>5 DEF Sound, CallsOnce, Alone, WaitKept, HasStop
  <1>7. Progress(c, w)
    BY <1>1, <1>3, <1>4, <1>5
       DEF Sound, Progress, StopIdle, StartIdle, WaitIdle, Idle, Answers, WaitKept
  <1>8. Service(c, w)
    <2>1. /\ Answers(c, w, "wait") = Answers(c, v, "wait")
          /\ Answers(c, w, "stop") = Answers(c, v, "stop")
          /\ Answers(c, w, "start") = {<<>>, y.posted["start"]}
      BY <1>3, <1>4 DEF Answers, WaitKept
    <2>2. Answers(c, v, "stop") = {<<>>}
      BY <1>3 DEF Sound, Service
    <2>3. /\ Answers(c, w, "start") \subseteq {<<>>, <<"ok">>, <<"error">>}
          /\ <<"error">> \in Answers(c, w, "start") => y.extern_state = "stopped"
      BY <1>5, <2>1
    <2> QED
      BY <1>1, <1>3, <1>4, <1>5, <2>1, <2>2, <2>3 DEF Sound, Service, WaitKept
  <1> QED
    BY <1>6, <1>7, <1>8 DEF Sound

\* The wait is run by a server that works.
LEMMA RunWait ==
  ASSUME NEW c, NEW v, NEW w \in Servers, Sound(c, v), v.queue # <<>>,
         Head(v.queue) = "wait", w.queue = Tail(v.queue),
         w.api \in Api!Waited(v.api)
  PROVE  Sound(c, w)
  <1> DEFINE x == v.api
             y == w.api
  <1>1. /\ HasWait(v) /\ ~HasStart(v) /\ (HasStop(w) <=> HasStop(v))
        /\ ~HasStart(w) /\ ~HasWait(w)
        /\ w.queue = <<>> \/ w.queue = <<"stop">>
    BY QueueRun DEF Sound
  <1>2. x \in Api!ApiStates
    BY DEF Sound, Servers
  <1>3. /\ x.extern_state = "work" /\ x.wait_handler = FALSE
        /\ x.posted["wait"] = <<>> /\ c.events["wait"] = <<>>
        /\ x.extern_wait_error \in Api!Errors
        /\ x.extern_wait_error # "invalid_state"
    BY <1>1, <1>2 DEF Sound, Service, CallsOnce, Alone, Api!ApiStates
  <1>4. /\ y \in Api!ApiStates /\ y.extern_wait_error = x.extern_wait_error
        /\ y.run = x.run /\ StopKept(x, y)
        /\ y.posted["start"] = x.posted["start"]
        /\ \/ y.wait_handler = TRUE /\ y.posted["wait"] = x.posted["wait"]
           \/ /\ y.wait_handler = FALSE
              /\ y.posted["wait"] = Append(x.posted["wait"], x.extern_wait_error)
    BY <1>2, <1>3, WaitedSeen
  <1>5. \/ y.wait_handler = TRUE /\ y.posted["wait"] = <<>>
        \/ /\ y.wait_handler = FALSE
           /\ y.posted["wait"] = <<x.extern_wait_error>>
           /\ y.posted["wait"] \in Single
    BY <1>3, <1>4, OneAnswer
  <1>6. CallsOnce(c, w)
    BY <1>1, <1>3, <1>4, <1>5 DEF Sound, CallsOnce, Alone, StopKept, HasStop, Single
  <1>7. Progress(c, w)
    BY <1>1, <1>3, <1>4
       DEF Sound, Progress, StopIdle, StartIdle, WaitIdle, Idle, Answers, StopKept
  <1>8. Service(c, w)
    <2>1. /\ Answers(c, w, "start") = Answers(c, v, "start")
          /\ Answers(c, w, "stop") = Answers(c, v, "stop")
      BY <1>4 DEF Answers, StopKept
    <2>2. <<"invalid_state">> \notin Answers(c, w, "wait")
      <3>1. <<x.extern_wait_error>> # <<"invalid_state">> /\ <<>> # <<"invalid_state">>
        BY <1>3, OneSame
      <3> QED
        BY <1>3, <1>5, <3>1, Zenon DEF Answers
    <2>3. /\ y.extern_state = "work" /\ y.extern_wait_error # "invalid_state"
          /\ ~y.stop_handler
      BY <1>3, <1>4 DEF Sound, Service, StopKept
    <2>4. /\ Answers(c, v, "start") \subseteq {<<>>, <<"ok">>, <<"error">>}
          /\ <<"error">> \notin Answers(c, v, "start")
          /\ Answers(c, v, "stop") = {<<>>}
      BY <1>3 DEF Sound, Service
    <2> QED
      BY <1>1, <2>1, <2>2, <2>3, <2>4 DEF Service
  <1> QED
    BY <1>6, <1>7, <1>8 DEF Sound

\* The stop is run by a server that works, or that could not start.
LEMMA RunStop ==
  ASSUME NEW c, NEW v, NEW w \in Servers, Sound(c, v), v.queue # <<>>,
         Head(v.queue) = "stop", w.queue = Tail(v.queue),
         w.api \in Api!Stopped(v.api)
  PROVE  Sound(c, w)
  <1> DEFINE x == v.api
             y == w.api
  <1>1. /\ HasStop(v) /\ ~HasStart(v) /\ ~HasWait(v) /\ ~HasStop(w)
        /\ ~HasStart(w) /\ ~HasWait(w)
        /\ w.queue = <<>> \/ w.queue = <<"stop">>
    BY QueueRun DEF Sound
  <1>2. x \in Api!ApiStates
    BY DEF Sound, Servers
  <1>3. /\ x.extern_state \in {"work", "stopped"} /\ x.stop_handler = FALSE
        /\ x.posted["stop"] = <<>> /\ c.events["stop"] = <<>>
        /\ x.extern_wait_error # "invalid_state"
        /\ c.state \notin {"starting", "working"}
    BY <1>1, <1>2 DEF Sound, Service, Progress, StopIdle, Idle, CallsOnce, Alone,
       Api!ApiStates
  <1>4. "ok" \in Api!Errors /\ "invalid_state" \in Api!Errors
    BY DEF Api!Errors
  <1>5. CASE x.extern_state = "stopped"
    <2>1. /\ y \in Api!ApiStates /\ WaitKept(x, y)
          /\ y.extern_wait_error = x.extern_wait_error /\ y.run = x.run
          /\ y.posted["start"] = x.posted["start"]
          /\ y.extern_state = "stopped" /\ y.stop_handler = FALSE
          /\ y.posted["stop"] = Append(x.posted["stop"], "invalid_state")
      BY <1>2, <1>3, <1>5, StoppedSeen
    <2>2. y.posted["stop"] = <<"invalid_state">> /\ y.posted["stop"] \in Single
      BY <1>3, <1>4, <2>1, OneAnswer
    <2>3. CallsOnce(c, w)
      BY <1>1, <1>3, <2>1, <2>2 DEF Sound, CallsOnce, Alone, WaitKept, HasStop
    <2>4. Progress(c, w)
      BY <1>3, <2>1 DEF Sound, Progress
    <2>5. Service(c, w)
      BY <1>1, <1>3, <1>5, <2>1, <2>2 DEF Sound, Service, Answers, WaitKept
    <2> QED
      BY <2>3, <2>4, <2>5 DEF Sound
  <1>6. CASE x.extern_state = "work"
    <2>1. /\ y \in Api!ApiStates /\ WaitAnswered(x, y)
          /\ y.extern_wait_error \in {x.extern_wait_error, "operation_aborted"}
          /\ y.posted["start"] = x.posted["start"]
          /\ \/ /\ y.extern_state = "stopped" /\ y.run = "stopped"
                /\ y.stop_handler = FALSE
                /\ y.posted["stop"] = Append(x.posted["stop"], "ok")
             \/ /\ y.extern_state = "stop" /\ y.stop_handler = TRUE
                /\ y.posted["stop"] = x.posted["stop"]
      BY <1>2, <1>3, <1>6, StoppedSeen
    <2>2. \/ /\ y.extern_state = "stopped" /\ y.run = "stopped"
             /\ y.stop_handler = FALSE
             /\ y.posted["stop"] = <<"ok">> /\ y.posted["stop"] \in Single
          \/ /\ y.extern_state = "stop" /\ y.stop_handler = TRUE
             /\ y.posted["stop"] = <<>>
      BY <1>3, <1>4, <2>1, OneAnswer
    <2>3. /\ y.wait_handler = FALSE
          /\ \/ y.posted["wait"] = x.posted["wait"]
             \/ /\ x.posted["wait"] = <<>> /\ c.events["wait"] = <<>>
                /\ y.posted["wait"] = <<y.extern_wait_error>>
                /\ y.posted["wait"] \in Single
      <3>1. /\ y.wait_handler = FALSE
            /\ \/ y.posted["wait"] = x.posted["wait"]
               \/ /\ x.wait_handler
                  /\ y.posted["wait"] = Append(x.posted["wait"], y.extern_wait_error)
        BY <2>1 DEF WaitAnswered
      <3>2. x.wait_handler => x.posted["wait"] = <<>> /\ c.events["wait"] = <<>>
        BY DEF Sound, CallsOnce, Alone
      <3>3. y.extern_wait_error \in Api!Errors
        BY <2>1 DEF Api!ApiStates
      <3> QED
        BY <3>1, <3>2, <3>3, OneAnswer
    <2>4. CallsOnce(c, w)
      <3>1. Alone(HasStart(w), FALSE, y.posted["start"], c.events["start"])
        BY <1>1, <2>1 DEF Sound, CallsOnce, Alone
      <3>2. Alone(HasWait(w), y.wait_handler, y.posted["wait"], c.events["wait"])
        BY <1>1, <2>3 DEF Sound, CallsOnce, Alone
      <3>3. Alone(HasStop(w), y.stop_handler, y.posted["stop"], c.events["stop"])
        <4>1. <<>> \in Single
          BY DEF Single
        <4> QED
          BY <1>1, <1>3, <2>2, <4>1 DEF Alone
      <3> QED
        BY <1>1, <3>1, <3>2, <3>3 DEF CallsOnce, HasStop
    <2>5. Progress(c, w)
      BY <1>3, <1>6 DEF Sound, Progress
    <2>6. Service(c, w)
      BY <1>1, <1>3, <1>6, <2>1, <2>2, <2>3 DEF Sound, Service, Answers
    <2> QED
      BY <2>4, <2>5, <2>6 DEF Sound
  <1> QED
    BY <1>3, <1>5, <1>6

\* The strand runs the next call.
LEMMA RunCallKeeps ==
  ASSUME EInv, RunCall
  PROVE  EInv'
  <1> DEFINE call == Head(srv.queue)
             run(y) == [srv EXCEPT !.api = y, !.queue = Tail(@)]
  <1>1. /\ srv \in Servers /\ srv.api \in Api!ApiStates /\ Sound(ctx, srv)
        /\ CallsOnce(ctx, srv)
    BY DEF EInv, Sound, Servers
  <1>2. srv.queue # <<>> /\ ctx' = ctx /\ env' = env
    BY DEF RunCall
  <1>3. \/ call = "start" /\ \E y \in Api!Started(srv.api) : srv' = run(y)
        \/ call = "wait" /\ \E y \in Api!Waited(srv.api) : srv' = run(y)
        \/ call = "stop" /\ \E y \in Api!Stopped(srv.api) : srv' = run(y)
    <2>1. call \in {"start", "wait", "stop"}
      <3>1. [queue |-> Tail(srv.queue)].queue = Tail(srv.queue)
        OBVIOUS
      <3> QED
        BY <1>1, <1>2, <3>1, QueueRun
    <2>2. CASE call = "start"
      BY <2>2, Zenon DEF RunCall
    <2>3. CASE call = "wait"
      <3>1. ~("wait" = "start")
        OBVIOUS
      <3> QED
        BY <2>3, <3>1, Zenon DEF RunCall
    <2>4. CASE call = "stop"
      <3>1. ~("stop" = "start") /\ ~("stop" = "wait")
        OBVIOUS
      <3> QED
        BY <2>4, <3>1, Zenon DEF RunCall
    <2> QED
      BY <2>1, <2>2, <2>3, <2>4
  <1>4. CASE call = "start" /\ \E y \in Api!Started(srv.api) : srv' = run(y)
    <2>1. PICK y \in Api!Started(srv.api) : srv' = run(y)
      BY <1>4
    <2>2. y \in Api!ApiStates
      <3>1. /\ srv.api.extern_state = "ready" /\ srv.api.wait_handler = FALSE
            /\ srv.api.stop_handler = FALSE
        <4>1. HasStart(srv) /\ ~HasWait(srv)
          <5>1. [queue |-> Tail(srv.queue)].queue = Tail(srv.queue)
            OBVIOUS
          <5> QED
            BY <1>1, <1>2, <1>4, <5>1, QueueRun
        <4> QED
          BY <1>1, <4>1 DEF Sound, Service, Api!ApiStates
      <3> QED
        BY <1>1, <3>1, StartedSeen
    <2>3. srv' \in Servers /\ srv'.api = y /\ srv'.queue = Tail(srv.queue)
      BY <1>1, <1>2, <2>1, <2>2, RunFrame
    <2> QED
      BY <1>1, <1>2, <1>4, <2>3, RunStart DEF EInv
  <1>5. CASE call = "wait" /\ \E y \in Api!Waited(srv.api) : srv' = run(y)
    <2>1. PICK y \in Api!Waited(srv.api) : srv' = run(y)
      BY <1>5
    <2>2. y \in Api!ApiStates
      <3>1. srv.api.extern_state = "work" /\ srv.api.wait_handler = FALSE
        <4>1. HasWait(srv)
          <5>1. [queue |-> Tail(srv.queue)].queue = Tail(srv.queue)
            OBVIOUS
          <5> QED
            BY <1>1, <1>2, <1>5, <5>1, QueueRun
        <4> QED
          BY <1>1, <4>1 DEF Sound, Service, CallsOnce, Alone, Api!ApiStates
      <3> QED
        BY <1>1, <3>1, WaitedSeen
    <2>3. srv' \in Servers /\ srv'.api = y /\ srv'.queue = Tail(srv.queue)
      BY <1>1, <1>2, <2>1, <2>2, RunFrame
    <2> QED
      BY <1>1, <1>2, <1>5, <2>3, RunWait DEF EInv
  <1>6. CASE call = "stop" /\ \E y \in Api!Stopped(srv.api) : srv' = run(y)
    <2>1. PICK y \in Api!Stopped(srv.api) : srv' = run(y)
      BY <1>6
    <2>2. y \in Api!ApiStates
      <3>1. srv.api.extern_state \in {"work", "stopped"} /\ srv.api.stop_handler = FALSE
        <4>1. HasStop(srv) /\ ~HasStart(srv)
          <5>1. [queue |-> Tail(srv.queue)].queue = Tail(srv.queue)
            OBVIOUS
          <5> QED
            BY <1>1, <1>2, <1>6, <5>1, QueueRun
        <4> QED
          BY <1>1, <4>1 DEF Sound, Service, CallsOnce, Alone, Api!ApiStates
      <3> QED
        BY <1>1, <3>1, StoppedSeen
    <2>3. srv' \in Servers /\ srv'.api = y /\ srv'.queue = Tail(srv.queue)
      BY <1>1, <1>2, <2>1, <2>2, RunFrame
    <2> QED
      BY <1>1, <1>2, <1>6, <2>3, RunStop DEF EInv
  <1> QED
    BY <1>3, <1>4, <1>5, <1>6

\* The server ends: a parked wait and a parked stop are told.
LEMMA EndServerKeeps ==
  ASSUME EInv, EndServer
  PROVE  EInv'
  <1> DEFINE x == srv.api
  <1>1. /\ srv \in Servers /\ x \in Api!ApiStates /\ Sound(ctx, srv)
    BY DEF EInv, Sound, Servers
  <1>2. PICK y \in Api!Ended(x) : srv' = [srv EXCEPT !.api = y]
    BY DEF EndServer
  <1>3. x.extern_state # "ready" /\ ctx' = ctx /\ env' = env
    BY DEF EndServer
  <1>4. /\ y \in Api!ApiStates /\ x.run # "stopped"
        /\ y.posted["start"] = x.posted["start"]
        /\ WaitKept(x, y) \/ WaitAnswered(x, y)
        /\ y.extern_wait_error \in {x.extern_wait_error, "error"}
        /\ StopKept(x, y) \/ StopAnswered(x, y)
    BY <1>1, <1>2, EndedSeen
  <1>5. srv' \in Servers /\ srv'.queue = srv.queue /\ srv'.api = y
    BY <1>1, <1>2, <1>4 DEF Servers
  <1>6. /\ x.extern_state \in {"work", "stop"}
        /\ \/ y.extern_state = x.extern_state /\ y.stop_handler = x.stop_handler
           \/ x.extern_state = "stop" /\ y.extern_state = "stopped"
              /\ y.run = "stopped" /\ y.stop_handler = FALSE
    BY <1>1, <1>3, <1>4
       DEF Sound, Service, StopKept, StopAnswered, Api!ApiStates
  <1>7. /\ HasStart(srv') <=> HasStart(srv)
        /\ HasWait(srv') <=> HasWait(srv)
        /\ HasStop(srv') <=> HasStop(srv)
    BY <1>5 DEF HasStart, HasWait, HasStop
  <1>8. \/ /\ y.wait_handler = x.wait_handler
           /\ y.posted["wait"] = x.posted["wait"]
        \/ /\ y.wait_handler = FALSE
           /\ y.posted["wait"] = x.posted["wait"]
        \/ /\ y.wait_handler = FALSE /\ x.wait_handler
           /\ y.posted["wait"] = <<y.extern_wait_error>>
           /\ y.posted["wait"] \in Single
    <2>1. x.wait_handler => x.posted["wait"] = <<>>
      BY <1>1 DEF Sound, CallsOnce, Alone
    <2>2. y.extern_wait_error \in Api!Errors
      BY <1>4 DEF Api!ApiStates
    <2>3. \/ /\ y.wait_handler = x.wait_handler
             /\ y.posted["wait"] = x.posted["wait"]
          \/ /\ y.wait_handler = FALSE
             /\ y.posted["wait"] = x.posted["wait"]
          \/ /\ y.wait_handler = FALSE /\ x.wait_handler
             /\ y.posted["wait"] = Append(x.posted["wait"], y.extern_wait_error)
      BY <1>4, Zenon DEF WaitKept, WaitAnswered
    <2> QED
      BY <2>1, <2>2, <2>3, OneAnswer
  <1>9. \/ y.posted["stop"] = x.posted["stop"] /\ y.stop_handler = x.stop_handler
        \/ /\ y.stop_handler = FALSE /\ y.extern_state = "stopped" /\ x.stop_handler
           /\ y.posted["stop"] = <<"ok">> /\ <<"ok">> \in Single
    <2>1. x.extern_state = "stop" => x.stop_handler /\ x.posted["stop"] = <<>>
      BY <1>1 DEF Sound, Service, CallsOnce, Alone
    <2>2. "ok" \in Api!Errors
      BY DEF Api!Errors
    <2> QED
      BY <1>4, <2>1, <2>2, OneAnswer DEF StopKept, StopAnswered
  <1>10. CallsOnce(ctx, srv')
    <2>1. Alone(HasStart(srv'), FALSE, y.posted["start"], ctx.events["start"])
      BY <1>1, <1>4, <1>7 DEF Sound, CallsOnce, Alone
    <2>2. Alone(HasWait(srv'), y.wait_handler, y.posted["wait"], ctx.events["wait"])
      BY <1>1, <1>7, <1>8 DEF Sound, CallsOnce, Alone
    <2>3. Alone(HasStop(srv'), y.stop_handler, y.posted["stop"], ctx.events["stop"])
      BY <1>1, <1>7, <1>9 DEF Sound, CallsOnce, Alone
    <2> QED
      BY <1>1, <1>5, <1>7, <2>1, <2>2, <2>3 DEF Sound, CallsOnce
  <1>11. Progress(ctx, srv')
    <2>1. StopIdle(ctx, srv) => StopIdle(ctx, srv') /\ y.extern_state = x.extern_state
      BY <1>1, <1>5, <1>6, <1>7, <1>9 DEF Sound, Service, StopIdle, Idle
    <2>2. WaitIdle(ctx, srv) => WaitIdle(ctx, srv')
      BY <1>1, <1>4, <1>5, <1>7, <1>8 DEF WaitIdle, Idle, Api!ApiStates
    <2>3. StartIdle(ctx, srv) => StartIdle(ctx, srv')
      BY <1>4, <1>5, <1>7 DEF StartIdle, Idle
    <2>4. Answers(ctx, srv', "start") = Answers(ctx, srv, "start")
      BY <1>4, <1>5 DEF Answers
    <2> QED
      BY <1>1, <1>5, <1>6, <2>1, <2>2, <2>3, <2>4 DEF Sound, Progress
  <1>12. Service(ctx, srv')
    <2>1. Answers(ctx, srv', "start") = Answers(ctx, srv, "start")
      BY <1>4, <1>5 DEF Answers
    <2>2. y.extern_wait_error # "invalid_state"
      BY <1>1, <1>4 DEF Sound, Service
    <2>3. <<"invalid_state">> \notin Answers(ctx, srv', "wait")
      <3>1. <<y.extern_wait_error>> # <<"invalid_state">>
        BY <2>2, OneSame
      <3>2. <<"invalid_state">> \notin Answers(ctx, srv, "wait")
        BY <1>1 DEF Sound, Service
      <3> QED
        BY <1>5, <1>8, <3>1, <3>2, Zenon DEF Answers
    <2>4. Answers(ctx, srv, "stop") = {<<>>} /\ <<"error">> \notin Answers(ctx, srv, "start")
      BY <1>1, <1>6 DEF Sound, Service
    <2>5. y.extern_state # "stopped" => Answers(ctx, srv', "stop") = {<<>>}
      BY <1>5, <1>9, <2>4 DEF Answers
    <2>6. HasWait(srv') \/ y.wait_handler => y.extern_state = "work"
      BY <1>1, <1>4, <1>6, <1>7, <1>8 DEF Sound, Service, Api!ApiStates
    <2>7. y.extern_state = "stop" <=> y.stop_handler
      BY <1>1, <1>6 DEF Sound, Service
    <2>8. /\ y.extern_state = "ready" <=> HasStart(srv')
          /\ y.extern_state = "stopped" => y.run = "stopped"
          /\ Answers(ctx, srv, "start") \subseteq {<<>>, <<"ok">>, <<"error">>}
      BY <1>1, <1>6, <1>7 DEF Sound, Service
    <2> QED
      BY <1>5, <2>1, <2>2, <2>3, <2>4, <2>5, <2>6, <2>7, <2>8 DEF Service
  <1>13. Sound(ctx', srv')
    BY <1>1, <1>3, <1>5, <1>10, <1>11, <1>12 DEF Sound
  <1> QED
    BY <1>3, <1>13 DEF EInv

\* An answer goes from the server to the event loop.
LEMMA ForwardKeeps ==
  ASSUME EInv, NEW call \in Api!Calls, Forward(call)
  PROVE  EInv'
  <1> DEFINE x == srv.api
             error == Head(x.posted[call])
             less == [x.posted EXCEPT ![call] = Tail(@)]
             y == [x EXCEPT !.posted = less]
             w == [srv EXCEPT !.api = y]
             g == [ctx |-> ctx, srv |-> w]
             h == Raise(g, call, error)
  <1>1. /\ srv \in Servers /\ ctx \in Contexts /\ x \in Api!ApiStates
        /\ Sound(ctx, srv) /\ x.posted \in [Api!Calls -> Seq(Api!Errors)]
        /\ call \in {"start", "wait", "stop"} /\ call \in Events
    BY DEF EInv, Sound, Servers, Api!ApiStates, Api!Calls, Events
  <1>2. x.posted[call] # <<>> /\ ctx' = h.ctx /\ srv' = h.srv /\ env' = env
    BY Zenon DEF Forward, Become, h, g, w, y, less, x, error
  <1>3. x.posted[call] \in Single /\ ctx.events[call] = <<>>
    BY <1>1, <1>2 DEF Sound, CallsOnce, Alone
  <1>4. error \in Api!Errors /\ Tail(x.posted[call]) = <<>> /\ x.posted[call] = <<error>>
    BY <1>2, <1>3, SingleTaken
  <1>5. less = [x.posted EXCEPT ![call] = <<>>]
    BY <1>4, Zenon
  <1> HIDE DEF error, less
  <1>6. /\ less \in [Api!Calls -> Seq(Api!Errors)] /\ less[call] = <<>>
        /\ \A other \in Api!Calls : other # call => less[other] = x.posted[other]
    BY <1>1, <1>5
  <1>7. /\ y \in Api!ApiStates /\ y.posted = less
        /\ y.extern_state = x.extern_state /\ y.run = x.run
        /\ y.extern_wait_error = x.extern_wait_error
        /\ y.wait_handler = x.wait_handler /\ y.stop_handler = x.stop_handler
    BY <1>1, <1>6 DEF Api!ApiStates
  <1> HIDE DEF y
  <1>8. w \in Servers /\ w.api = y /\ w.queue = srv.queue
    BY <1>1, <1>7 DEF Servers
  <1> HIDE DEF w
  <1>9. g \in Pairs /\ g.ctx = ctx /\ g.srv = w
    BY <1>1, <1>8 DEF Pairs
  <1> HIDE DEF g
  <1>10. /\ h \in Pairs /\ h.srv = g.srv
         /\ h.ctx.state = g.ctx.state /\ h.ctx.end = g.ctx.end
         /\ h.ctx.loop_stopped = g.ctx.loop_stopped
         /\ h.ctx.timer = g.ctx.timer
         /\ h.ctx.events[call] = Append(g.ctx.events[call], error)
         /\ \A e \in Events : e # call => h.ctx.events[e] = g.ctx.events[e]
    BY <1>1, <1>4, <1>9, RaiseFrame
  <1> HIDE DEF h
  <1>11. Append(ctx.events[call], error) = x.posted[call]
    BY <1>3, <1>4, OneAnswer
  <1>12. /\ ctx' \in Contexts /\ srv' = w
         /\ ctx'.state = ctx.state /\ ctx'.end = ctx.end
         /\ ctx'.loop_stopped = ctx.loop_stopped /\ ctx'.timer = ctx.timer
         /\ ctx'.events["timeout"] = ctx.events["timeout"]
         /\ \A other \in Api!Calls :
              \/ /\ y.posted[other] = x.posted[other]
                 /\ ctx'.events[other] = ctx.events[other]
              \/ /\ y.posted[other] = <<>> /\ ctx.events[other] = <<>>
                 /\ ctx'.events[other] = x.posted[other]
                 /\ x.posted[other] # <<>>
    <2>1. h.ctx \in Contexts
      BY <1>10 DEF Pairs
    <2>2. "timeout" \in Events /\ "timeout" # call /\ Api!Calls \subseteq Events
      BY <1>1 DEF Events, Api!Calls
    <2>3. ASSUME NEW other \in Api!Calls
          PROVE  \/ /\ y.posted[other] = x.posted[other]
                    /\ ctx'.events[other] = ctx.events[other]
                 \/ /\ y.posted[other] = <<>> /\ ctx.events[other] = <<>>
                    /\ ctx'.events[other] = x.posted[other]
                    /\ x.posted[other] # <<>>
      <3>1. CASE other = call
        BY <1>2, <1>3, <1>6, <1>7, <1>9, <1>10, <1>11, <3>1
      <3>2. CASE other # call
        BY <1>2, <1>6, <1>7, <1>9, <1>10, <2>2, <3>2
      <3> QED
        BY <3>1, <3>2
    <2> QED
      BY <1>2, <1>9, <1>10, <2>1, <2>2, <2>3
  <1>13. \A other \in Api!Calls : Answers(ctx', w, other) = Answers(ctx, srv, other)
    BY <1>8, <1>12 DEF Answers
  <1>14. /\ HasStart(w) <=> HasStart(srv)
         /\ HasWait(w) <=> HasWait(srv)
         /\ HasStop(w) <=> HasStop(srv)
    BY <1>8 DEF HasStart, HasWait, HasStop
  <1>15. "start" \in Api!Calls /\ "wait" \in Api!Calls /\ "stop" \in Api!Calls
    BY DEF Api!Calls
  <1>16. CallsOnce(ctx', w)
    <2>1. <<>> \in Single
      BY DEF Single
    <2>2. Alone(HasStart(w), FALSE, y.posted["start"], ctx'.events["start"])
      BY <1>1, <1>12, <1>14, <1>15, <2>1 DEF Sound, CallsOnce, Alone
    <2>3. Alone(HasWait(w), y.wait_handler, y.posted["wait"], ctx'.events["wait"])
      BY <1>1, <1>7, <1>12, <1>14, <1>15, <2>1 DEF Sound, CallsOnce, Alone
    <2>4. Alone(HasStop(w), y.stop_handler, y.posted["stop"], ctx'.events["stop"])
      BY <1>1, <1>7, <1>12, <1>14, <1>15, <2>1 DEF Sound, CallsOnce, Alone
    <2> QED
      BY <1>1, <1>8, <1>14, <2>2, <2>3, <2>4 DEF Sound, CallsOnce
  <1>17. Progress(ctx', w)
    <2>1. StopIdle(ctx, srv) => StopIdle(ctx', w)
      BY <1>7, <1>8, <1>12, <1>14, <1>15 DEF StopIdle, Idle
    <2>2. WaitIdle(ctx, srv) => WaitIdle(ctx', w)
      BY <1>7, <1>8, <1>12, <1>14, <1>15 DEF WaitIdle, Idle
    <2>3. StartIdle(ctx, srv) => StartIdle(ctx', w)
      BY <1>7, <1>8, <1>12, <1>14, <1>15 DEF StartIdle, Idle
    <2> QED
      BY <1>1, <1>7, <1>8, <1>12, <1>13, <1>15, <2>1, <2>2, <2>3 DEF Sound, Progress
  <1>18. Service(ctx', w)
    BY <1>1, <1>7, <1>8, <1>13, <1>14, <1>15 DEF Sound, Service
  <1>19. Sound(ctx', srv')
    BY <1>8, <1>12, <1>16, <1>17, <1>18 DEF Sound
  <1> QED
    BY <1>2, <1>19 DEF EInv

-----------------------------------------------------------------------------
\* The program starts the server and waits for Ctrl+C.
LEMMA InitSound == Init => EInv
  <1> DEFINE none == [e \in Events |-> <<>>]
             quiet == [call \in Api!Calls |-> <<>>]
             context == [state |-> "starting", user_initiated_stop |-> FALSE,
                         loop_stopped |-> FALSE, exited |-> FALSE, timer |-> 0,
                         close_waits |-> 0, signals |-> 0,
                         events |-> none, end |-> "none"]
             server == [alive |-> TRUE, queue |-> <<>>, api |-> Api!Fresh]
             g == [ctx |-> context, srv |-> server]
             p == async_wait_close(g)
             h == async_call(p, "start")
  <1> SUFFICES ASSUME Init PROVE EInv
    OBVIOUS
  <1>1. /\ ctx = h.ctx /\ srv = h.srv /\ env = [signals |-> 0, exceptions |-> 0]
    BY Zenon DEF Init, run_server
  <1>2. none \in [Events -> Seq(Api!Errors)] /\ \A e \in Events : none[e] = <<>>
    OBVIOUS
  <1>3. quiet \in [Api!Calls -> Seq(Api!Errors)] /\ \A call \in Api!Calls : quiet[call] = <<>>
    OBVIOUS
  <1> HIDE DEF none
  <1>4. /\ context \in Contexts /\ context.state = "starting"
        /\ context.loop_stopped = FALSE /\ context.timer = 0
        /\ context.events = none
    BY <1>2 DEF Contexts
  <1>5. /\ Api!Fresh \in Api!ApiStates /\ Api!Fresh.extern_state = "ready"
        /\ Api!Fresh.extern_wait_error = "ok" /\ Api!Fresh.wait_handler = FALSE
        /\ Api!Fresh.stop_handler = FALSE /\ Api!Fresh.posted = quiet
    <2>1. Api!Fresh = [extern_state |-> "ready", run |-> "work",
                       extern_wait_error |-> "ok", wait_handler |-> FALSE,
                       stop_handler |-> FALSE, posted |-> quiet]
      BY Zenon DEF Api!Fresh
    <2> HIDE DEF quiet
    <2>2. "ok" \in Api!Errors
      BY DEF Api!Errors
    <2> QED
      BY <1>3, <2>1, <2>2 DEF Api!ApiStates
  <1> HIDE DEF quiet, context
  <1>6. server \in Servers /\ server.queue = <<>> /\ server.api = Api!Fresh
    BY <1>5 DEF Servers
  <1> HIDE DEF server
  <1>7. g \in Pairs /\ g.ctx = context /\ g.srv = server
    BY <1>4, <1>6 DEF Pairs
  <1> HIDE DEF g
  <1>8. p \in Pairs /\ p.srv = g.srv /\ Beside(p.ctx, g.ctx)
    BY <1>7, WaitCloseFrame
  <1> HIDE DEF p
  <1>9. /\ h \in Pairs /\ h.ctx = p.ctx /\ h.srv.api = p.srv.api
        /\ h.srv.queue = Append(p.srv.queue, "start")
    <2>1. "start" \in Api!Calls
      BY DEF Api!Calls
    <2> QED
      BY <1>8, <2>1, CallFrame
  <1> HIDE DEF h
  <1>10. /\ ctx \in Contexts /\ srv \in Servers
         /\ ctx.state = "starting" /\ ctx.loop_stopped = FALSE /\ ctx.timer = 0
         /\ \A e \in {"start", "wait", "stop", "timeout"} : ctx.events[e] = <<>>
         /\ srv.api.extern_state = "ready" /\ srv.api.extern_wait_error = "ok"
         /\ srv.api.wait_handler = FALSE /\ srv.api.stop_handler = FALSE
         /\ srv.api.posted["start"] = <<>> /\ srv.api.posted["wait"] = <<>>
         /\ srv.api.posted["stop"] = <<>>
         /\ srv.queue = <<"start">>
    <2>1. {"start", "wait", "stop", "timeout"} \subseteq Events
      BY DEF Events
    <2>2. {"start", "wait", "stop"} \subseteq Api!Calls
      BY DEF Api!Calls
    <2>3. Append(<<>>, "start") = <<"start">>
      OBVIOUS
    <2>4. h.ctx \in Contexts /\ h.srv \in Servers
      BY <1>9 DEF Pairs
    <2>5. /\ h.ctx.state = "starting" /\ h.ctx.loop_stopped = FALSE /\ h.ctx.timer = 0
          /\ \A e \in {"start", "wait", "stop", "timeout"} : h.ctx.events[e] = <<>>
      BY <1>2, <1>4, <1>7, <1>8, <1>9, <2>1 DEF Beside
    <2>6. h.srv.api = Api!Fresh /\ h.srv.queue = <<"start">>
      BY <1>6, <1>7, <1>8, <1>9, <2>3
    <2> QED
      BY <1>1, <1>3, <1>5, <2>2, <2>4, <2>5, <2>6
  <1>11. HasStart(srv) /\ ~HasWait(srv) /\ ~HasStop(srv) /\ <<>> \in Single
    BY <1>10 DEF HasStart, HasWait, HasStop, Single
  <1>12. CallsOnce(ctx, srv)
    BY <1>10, <1>11 DEF CallsOnce, Alone
  <1>13. Progress(ctx, srv)
    BY <1>10, <1>11 DEF Progress, StopIdle, WaitIdle, Idle, Answers
  <1>14. Service(ctx, srv)
    BY <1>10, <1>11 DEF Service, Answers
  <1>15. env \in [signals : 0 .. MaxSignals, exceptions : 0 .. MaxExceptions]
    BY <1>1, EchoServerAssumption
  <1> QED
    BY <1>10, <1>12, <1>13, <1>14, <1>15 DEF EInv, Sound

\* The invariant is inductive.
LEMMA NextSound == EInv /\ [Next]_vars => EInv'
  <1> SUFFICES ASSUME EInv, [Next]_vars PROVE EInv'
    OBVIOUS
  <1>1. CASE Next
    BY <1>1, HandleServerStartKeeps, HandleServerWaitKeeps, HandleServerStopKeeps,
       HandleServerStopTimeoutKeeps, HandleAppExitKeeps,
       HandleWorkThreadExceptionKeeps, StopThreadsKeeps, TimerExpiresKeeps,
       CtrlCKeeps, RunCallKeeps, EndServerKeeps, ForwardKeeps, ThreadFailsKeeps
       DEF Next
  <1>2. CASE UNCHANGED vars
    <2>1. ctx' = ctx /\ srv' = srv /\ env' = env
      BY <1>2 DEF vars
    <2> QED
      BY <2>1 DEF EInv
  <1> QED
    BY <1>1, <1>2

-----------------------------------------------------------------------------
(***************************************************************************)
(* The invariant implies the properties.                                    *)
(***************************************************************************)
Places(q, call) == {i \in DOMAIN q : q[i] = call}

\* How often a call stands in the queue.
LEMMA NoPlace ==
  ASSUME NEW q, NEW call, \A i \in DOMAIN q : q[i] # call
  PROVE  Cardinality(Places(q, call)) = 0
  <1>1. Places(q, call) = {}
    BY DEF Places
  <1> QED
    BY <1>1, FS_EmptySet

\* A call that stands at one place counts once.
LEMMA OnePlace ==
  ASSUME NEW q, NEW call, NEW j \in DOMAIN q, q[j] = call,
         \A i \in DOMAIN q : i # j => q[i] # call
  PROVE  Cardinality(Places(q, call)) = 1
  <1>1. Places(q, call) = {j}
    BY DEF Places
  <1> QED
    BY <1>1, FS_Singleton

\* A call that is queued is so once.
LEMMA QueueCount ==
  ASSUME NEW c, NEW v, CallsOnce(c, v)
  PROVE  /\ HasStart(v) => Cardinality(Places(v.queue, "start")) = 1
         /\ ~HasStart(v) => Cardinality(Places(v.queue, "start")) = 0
         /\ HasWait(v) => Cardinality(Places(v.queue, "wait")) = 1
         /\ ~HasWait(v) => Cardinality(Places(v.queue, "wait")) = 0
         /\ HasStop(v) => Cardinality(Places(v.queue, "stop")) = 1
         /\ ~HasStop(v) => Cardinality(Places(v.queue, "stop")) = 0
  <1> DEFINE q == v.queue
  <1>1. CASE q = <<>>
    <2>1. \A call : Cardinality(Places(q, call)) = 0
      BY <1>1, NoPlace
    <2> QED
      BY <1>1, <2>1 DEF HasStart, HasWait, HasStop
  <1>2. ASSUME NEW x \in {"start", "wait", "stop"}, q = <<x>>,
               NEW call \in {"start", "wait", "stop"}
        PROVE  Cardinality(Places(q, call)) = IF call = x THEN 1 ELSE 0
    <2>1. DOMAIN q = {1} /\ q[1] = x
      BY <1>2
    <2> QED
      BY <2>1, NoPlace, OnePlace
  <1>3. ASSUME NEW x \in {"start", "wait"}, q = <<x, "stop">>,
               NEW call \in {"start", "wait", "stop"}
        PROVE  Cardinality(Places(q, call)) = IF call \in {x, "stop"} THEN 1 ELSE 0
    <2>1. DOMAIN q = {1, 2} /\ q[1] = x /\ q[2] = "stop"
      BY <1>3
    <2>2. CASE call = x
      BY <1>3, <2>1, <2>2, OnePlace
    <2>3. CASE call = "stop"
      BY <1>3, <2>1, <2>3, OnePlace
    <2>4. CASE call # x /\ call # "stop"
      BY <2>1, <2>4, NoPlace
    <2> QED
      BY <2>2, <2>3, <2>4
  <1>4. CASE \E x \in {"start", "wait", "stop"} : q = <<x>>
    <2>1. PICK x \in {"start", "wait", "stop"} : q = <<x>>
      BY <1>4
    <2>2. \A call \in {"start", "wait", "stop"} :
             Cardinality(Places(q, call)) = IF call = x THEN 1 ELSE 0
      BY <1>2, <2>1
    <2>3. /\ HasStart(v) <=> x = "start"
          /\ HasWait(v) <=> x = "wait"
          /\ HasStop(v) <=> x = "stop"
      BY <2>1 DEF HasStart, HasWait, HasStop
    <2> QED
      BY <2>2, <2>3
  <1>5. CASE \E x \in {"start", "wait"} : q = <<x, "stop">>
    <2>1. PICK x \in {"start", "wait"} : q = <<x, "stop">>
      BY <1>5
    <2>2. \A call \in {"start", "wait", "stop"} :
             Cardinality(Places(q, call)) = IF call \in {x, "stop"} THEN 1 ELSE 0
      BY <1>3, <2>1
    <2>3. /\ HasStart(v) <=> x = "start"
          /\ HasWait(v) <=> x = "wait"
          /\ HasStop(v)
      BY <2>1 DEF HasStart, HasWait, HasStop
    <2> QED
      BY <2>2, <2>3
  <1> QED
    BY <1>1, <1>4, <1>5 DEF CallsOnce, HasStart, HasWait, HasStop

\* The length of at most one result.
LEMMA SingleSeq ==
  ASSUME NEW r \in Single
  PROVE  /\ r \in Seq(Api!Errors) /\ Len(r) \in Nat /\ Len(r) <= 1
         /\ r = <<>> => Len(r) = 0
  <1>1. CASE r = <<>>
    BY <1>1
  <1>2. CASE \E e \in Api!Errors : r = <<e>>
    BY <1>2
  <1> QED
    BY <1>1, <1>2 DEF Single

\* A call has at most one answer on its way, and it is one of the two.
LEMMA AnswersSeen ==
  ASSUME NEW s \in Single, NEW t \in Single, s = <<>> \/ t = <<>>
  PROVE  /\ Len(s) + Len(t) <= 1
         /\ s = <<>> /\ t = <<>> => Len(s) + Len(t) = 0
         /\ \A error : error \in ToSet(s \o t) => s = <<error>> \/ t = <<error>>
  <1>1. \A r \in Single : /\ r \in Seq(Api!Errors) /\ Len(r) \in Nat /\ Len(r) <= 1
                          /\ r = <<>> => Len(r) = 0
    BY SingleSeq
  <1>2. s \o t = s \/ s \o t = t
    <2>1. s \in Seq(Api!Errors) /\ t \in Seq(Api!Errors)
      BY <1>1, Zenon
    <2>2. CASE s = <<>>
      BY <2>1, <2>2
    <2>3. CASE t = <<>>
      BY <2>1, <2>3
    <2> QED
      BY <2>2, <2>3
  <1>3. ASSUME NEW r \in Single, NEW error \in ToSet(r)
        PROVE  r = <<error>>
    <2>1. PICK i \in DOMAIN r : error = r[i]
      BY <1>3 DEF ToSet
    <2>2. CASE r = <<>>
      BY <2>1, <2>2
    <2>3. CASE \E e \in Api!Errors : r = <<e>>
      BY <2>1, <2>3
    <2> QED
      BY <2>2, <2>3 DEF Single
  <1>4. Len(s) + Len(t) <= 1
    <2>1. /\ Len(s) \in Nat /\ Len(s) <= 1 /\ (s = <<>> => Len(s) = 0)
          /\ Len(t) \in Nat /\ Len(t) <= 1 /\ (t = <<>> => Len(t) = 0)
      BY <1>1, Zenon
    <2>2. Len(s) = 0 \/ Len(t) = 0
      BY <2>1
    <2> QED
      BY <2>1, <2>2
  <1>5. s = <<>> /\ t = <<>> => Len(s) + Len(t) = 0
    BY <1>1
  <1>6. \A error : error \in ToSet(s \o t) => s = <<error>> \/ t = <<error>>
    BY <1>2, <1>3
  <1> QED
    BY <1>4, <1>5, <1>6

\* Every call of the program is made once, and answered once.
LEMMA UnhandledSeen ==
  ASSUME EInv
  PROVE  /\ Unhandled("start") <= 1 /\ Unhandled("wait") <= 1
         /\ Unhandled("stop") <= 1
         /\ StopIdle(ctx, srv) => Unhandled("stop") = 0
  <1> DEFINE x == srv.api
             n(call) == Cardinality(Places(srv.queue, call))
             w(call) == Flag(call = "wait" /\ x.wait_handler)
             s(call) == Flag(call = "stop" /\ x.stop_handler)
             posted(call) == Len(x.posted[call])
             event(call) == Len(ctx.events[call])
             k(call) == posted(call) + event(call)
  <1>1. CallsOnce(ctx, srv)
    BY DEF EInv, Sound
  <1>2. ASSUME NEW call
        PROVE  Unhandled(call) = n(call) + w(call) + s(call) + posted(call) + event(call)
    BY Zenon DEF Unhandled, Places
  <1>3. /\ HasStart(srv) => n("start") = 1
        /\ ~HasStart(srv) => n("start") = 0
        /\ HasWait(srv) => n("wait") = 1
        /\ ~HasWait(srv) => n("wait") = 0
        /\ HasStop(srv) => n("stop") = 1
        /\ ~HasStop(srv) => n("stop") = 0
    BY <1>1, QueueCount
  <1>4. /\ w("start") = 0 /\ s("start") = 0 /\ s("wait") = 0 /\ w("stop") = 0
        /\ x.wait_handler => w("wait") = 1
        /\ ~x.wait_handler => w("wait") = 0
        /\ x.stop_handler => s("stop") = 1
        /\ ~x.stop_handler => s("stop") = 0
    BY DEF Flag
  <1>5. ASSUME NEW call \in {"start", "wait", "stop"}
        PROVE  /\ posted(call) \in Nat /\ event(call) \in Nat
               /\ k(call) <= 1
               /\ x.posted[call] = <<>> /\ ctx.events[call] = <<>> => k(call) = 0
    <2>1. /\ x.posted[call] \in Single /\ ctx.events[call] \in Single
          /\ x.posted[call] = <<>> \/ ctx.events[call] = <<>>
      BY <1>1, <1>5 DEF CallsOnce, Alone
    <2>2. posted(call) \in Nat /\ event(call) \in Nat
      BY <2>1, SingleSeq
    <2>3. /\ Len(x.posted[call]) + Len(ctx.events[call]) <= 1
          /\ x.posted[call] = <<>> /\ ctx.events[call] = <<>> =>
               Len(x.posted[call]) + Len(ctx.events[call]) = 0
      BY <2>1, AnswersSeen
    <2> QED
      BY <2>2, <2>3, Zenon
  <1>6. /\ HasStart(srv) => k("start") = 0
        /\ HasWait(srv) => ~x.wait_handler /\ k("wait") = 0
        /\ x.wait_handler => k("wait") = 0
        /\ HasStop(srv) => ~x.stop_handler /\ k("stop") = 0
        /\ x.stop_handler => k("stop") = 0
        /\ StopIdle(ctx, srv) => ~HasStop(srv) /\ ~x.stop_handler /\ k("stop") = 0
    <2> HIDE DEF k
    <2> QED
      BY <1>1, <1>5 DEF CallsOnce, Alone, StopIdle, Idle
  <1>7. /\ k("start") = posted("start") + event("start")
        /\ k("wait") = posted("wait") + event("wait")
        /\ k("stop") = posted("stop") + event("stop")
    BY Zenon
  <1> HIDE DEF n, x, k, w, s, posted, event
  <1>8. Unhandled("start") <= 1
    BY <1>2, <1>3, <1>4, <1>5, <1>6, <1>7
  <1>9. Unhandled("wait") <= 1
    BY <1>2, <1>3, <1>4, <1>5, <1>6, <1>7
  <1>10. Unhandled("stop") <= 1
    BY <1>2, <1>3, <1>4, <1>5, <1>6, <1>7
  <1>11. StopIdle(ctx, srv) => Unhandled("stop") = 0
    BY <1>2, <1>3, <1>4, <1>5, <1>6, <1>7
  <1> QED
    BY <1>8, <1>9, <1>10, <1>11

\* The invariant implies that the protocol is kept.
LEMMA ProtocolSeen == EInv => KeepsProtocol
  <1> SUFFICES ASSUME EInv PROVE KeepsProtocol
    OBVIOUS
  <1>1. TypeOK
    BY DEF EInv, Sound, TypeOK
  <1>2. \A call \in Api!Calls : Unhandled(call) <= 1
    BY UnhandledSeen DEF Api!Calls
  <1>3. ASSUME NEW call \in {"start", "wait"}
        PROVE  "invalid_state" \notin ToSet(srv.api.posted[call] \o ctx.events[call])
    <2>1. /\ srv.api.posted[call] \in Single /\ ctx.events[call] \in Single
          /\ srv.api.posted[call] = <<>> \/ ctx.events[call] = <<>>
      BY <1>3 DEF EInv, Sound, CallsOnce, Alone
    <2>2. /\ srv.api.posted[call] # <<"invalid_state">>
          /\ ctx.events[call] # <<"invalid_state">>
      <3>1. CASE call = "wait"
        BY <3>1 DEF EInv, Sound, Service, Answers
      <3>2. CASE call = "start"
        <4>1. Answers(ctx, srv, "start") \subseteq {<<>>, <<"ok">>, <<"error">>}
          BY DEF EInv, Sound, Service
        <4> QED
          BY <3>2, <4>1 DEF Answers
      <3> QED
        BY <3>1, <3>2
    <2> QED
      BY <2>1, <2>2, AnswersSeen
  <1>4. ctx.timer + Len(ctx.events["timeout"]) <= 1
    <2>1. /\ ctx.events["timeout"] \in Single
          /\ ctx.timer = 0 \/ (ctx.timer = 1 /\ ctx.events["timeout"] = <<>>)
      BY DEF EInv, Sound, Progress
    <2>2. <<>> \in Single
      BY DEF Single
    <2>3. /\ Len(ctx.events["timeout"]) + Len(<<>>) <= 1
          /\ ctx.events["timeout"] = <<>> => Len(ctx.events["timeout"]) = 0
      BY <2>1, <2>2, AnswersSeen
    <2>4. Len(<<>>) = 0 /\ Len(ctx.events["timeout"]) \in Nat
      BY <2>1, SingleSeq
    <2> QED
      BY <2>1, <2>3, <2>4
  <1>5. ctx.state \in {"starting", "working"} =>
          Unhandled("stop") = 0 /\ ctx.timer = 0
    BY UnhandledSeen DEF EInv, Sound, Progress
  <1> QED
    BY <1>1, <1>2, <1>3, <1>4, <1>5 DEF KeepsProtocol

-----------------------------------------------------------------------------
(***************************************************************************)
(* A call of the program is at one place at a time: in the queue of the     *)
(* strand, parked at the server, answered there, or answered and waiting in *)
(* the event loop, however starts, waits, stops, signals, timeouts and      *)
(* dying threads interleave.                                                *)
(***************************************************************************)
THEOREM ProgramInvariance == Spec => []EInv
  BY InitSound, NextSound, PTL DEF Spec

(***************************************************************************)
(* main.cpp keeps the protocol of session_manager: no call is repeated, no  *)
(* wait is rejected, and the stop is timed once.                            *)
(***************************************************************************)
THEOREM ProtocolKept == Spec => []KeepsProtocol
  BY ProgramInvariance, ProtocolSeen, PTL

(***************************************************************************)
(* The event loop ends over a running server only on a timeout, a second    *)
(* Ctrl+C or a dying thread.                                                *)
(***************************************************************************)
THEOREM GracefulStop == Spec => []StopsGracefully
  <1>1. EInv => StopsGracefully
    BY DEF EInv, Sound, Progress, Service, StopsGracefully
  <1> QED
    BY <1>1, ProgramInvariance, PTL
=============================================================================
