------------------------------- MODULE Poller --------------------------------
(***************************************************************************)
(* What tools/poller/Poller promises whichever class implements it: the     *)
(* program states for each channel the events it wants, poll() returns      *)
(* channels with events that were wanted (errors come unasked) when it was  *)
(* called, each at most once, and the program handles or drops them one by  *)
(* one.                                                                     *)
(***************************************************************************)
CONSTANTS Channels, Wanted

VARIABLES interest,   \* from registered channel to the events wanted
          told        \* from channel to the events reported and not yet handled

pollerVars == <<interest, told>>

Init == interest = <<>> /\ told = <<>>

Ask(c, ev) ==
    /\ interest' = [d \in DOMAIN interest \union {c} |-> IF d = c THEN ev ELSE interest[d]]
    /\ UNCHANGED told

Forget(c) == /\ c \in DOMAIN interest
             /\ interest' = [d \in DOMAIN interest \ {c} |-> interest[d]]
             /\ UNCHANGED told

Report == /\ DOMAIN told = {}
          /\ DOMAIN told' # {} /\ DOMAIN told' \subseteq DOMAIN interest
          /\ \A c \in DOMAIN told' : /\ told'[c] # {}
                                     /\ told'[c] \subseteq interest[c] \union {"error"}
          /\ UNCHANGED interest

Handle(c) == /\ c \in DOMAIN told
             /\ told' = [d \in DOMAIN told \ {c} |-> told[d]]
             /\ UNCHANGED interest

Next == \/ Report
        \/ \E c \in Channels : Forget(c) \/ Handle(c) \/ \E ev \in SUBSET Wanted : Ask(c, ev)

Spec == Init /\ [][Next]_pollerVars
=============================================================================
