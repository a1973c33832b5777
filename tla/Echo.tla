-------------------------------- MODULE Echo ---------------------------------
(***************************************************************************)
(* What an echo server promises its clients: bytes that a client sends come *)
(* back to that client and to no other, one answer to what one read takes;  *)
(* a connection is served until the client sends no more and all it sent is *)
(* answered.  exact and waits are two qualities of a server: its answers    *)
(* have the length of what it read, and it does not drop what the           *)
(* connection has no room for.                                              *)
(***************************************************************************)
EXTENDS Naturals

CONSTANTS Clients, Binary, BUFFER_SZ, OutCap

VARIABLES exact, waits,
          stage,           \* "off", "queued", "served"
          done,            \* the client sends no more,
          left,            \*   and has gone
          asked,           \* bytes sent and not read
          owed,            \* bytes of an answer still to be passed on
          answered         \* bytes on their way back

echoVars == <<exact, waits, stage, done, left, asked, owed, answered>>

Init == /\ exact \in BOOLEAN /\ waits \in BOOLEAN
        /\ stage = [c \in Clients |-> "off"]
        /\ done = [c \in Clients |-> FALSE] /\ left = [c \in Clients |-> FALSE]
        /\ asked = [c \in Clients |-> 0] /\ owed = [c \in Clients |-> 0]
        /\ answered = [c \in Clients |-> 0]

Min2(m, n) == IF m < n THEN m ELSE n

\* Without strlen, or with text that does not fill the buffer, the answer to n
\* bytes is n bytes long.
Answers(c, n) == IF exact \/ (c \notin Binary /\ n < BUFFER_SZ) THEN {n} ELSE 0 .. n + 1

\* The client connects, sends, receives, ends what it sends or leaves.
Client(c) ==
    \/ stage[c] = "off" /\ stage' = [stage EXCEPT ![c] = "queued"]
       /\ UNCHANGED <<done, left, asked, owed, answered>>
    \/ stage[c] # "off" /\ ~done[c] /\ asked' = [asked EXCEPT ![c] = @ + 1]
       /\ UNCHANGED <<stage, done, left, owed, answered>>
    \/ answered[c] > 0 /\ answered' = [answered EXCEPT ![c] = @ - 1]
       /\ UNCHANGED <<stage, done, left, asked, owed>>
    \/ stage[c] # "off" /\ ~done[c] /\ done' = [done EXCEPT ![c] = TRUE]
       /\ UNCHANGED <<stage, left, asked, owed, answered>>
    \/ stage[c] # "off" /\ ~left[c] /\ left' = [left EXCEPT ![c] = TRUE]
       /\ done' = [done EXCEPT ![c] = TRUE] /\ answered' = [answered EXCEPT ![c] = 0]
       /\ UNCHANGED <<stage, asked, owed>>

Welcome(c) == /\ stage[c] = "queued"
              /\ stage' = [stage EXCEPT ![c] = "served"]
              /\ UNCHANGED <<done, left, asked, owed, answered>>

PassOn(c, k) == answered' = IF left[c] THEN answered ELSE [answered EXCEPT ![c] = @ + k]

\* A read, and the write of its answer if the server does not wait.
Answer(c) ==
    LET n == Min2(asked[c], BUFFER_SZ)
    IN  /\ stage[c] = "served" /\ owed[c] = 0 /\ asked[c] > 0
        /\ asked' = [asked EXCEPT ![c] = @ - n]
        /\ \E m \in Answers(c, n) :
              IF waits THEN owed' = [owed EXCEPT ![c] = m] /\ UNCHANGED answered
              ELSE PassOn(c, Min2(m, OutCap - answered[c])) /\ UNCHANGED owed
        /\ UNCHANGED <<stage, done, left>>

\* A server that waits passes on all of its answer, unless the client leaves.
Continue(c) == /\ owed[c] > 0
               /\ \E k \in 1 .. owed[c] :
                     /\ k = owed[c] \/ ~left[c]
                     /\ PassOn(c, k)
                     /\ owed' = [owed EXCEPT ![c] = @ - k]
               /\ UNCHANGED <<stage, done, left, asked>>

\* The end of a connection: all is answered.
Release(c) == /\ stage[c] = "served" /\ done[c] /\ asked[c] = 0 /\ owed[c] = 0
              /\ stage' = [stage EXCEPT ![c] = "off"]
              /\ done' = [done EXCEPT ![c] = FALSE] /\ left' = [left EXCEPT ![c] = FALSE]
              /\ answered' = [answered EXCEPT ![c] = 0]
              /\ UNCHANGED <<asked, owed>>

Next == /\ \E c \in Clients : Client(c) \/ Welcome(c) \/ Answer(c) \/ Continue(c) \/ Release(c)
        /\ UNCHANGED <<exact, waits>>

Spec == Init /\ [][Next]_echoVars
=============================================================================
