------------------------------- MODULE SignOff -------------------------------
(***************************************************************************)
(* What the review panel promises, without seats that are asked in turn,   *)
(* files or kills: in each round of work every seat may give one opinion,  *)
(* an opinion once given stands, and a round passes only if nobody objects *)
(* to it.  ReviewPanel implements this.                                    *)
(***************************************************************************)
CONSTANTS Seats, Rounds

VARIABLES
  opinion,   \* what each seat thinks of each round
  passed     \* the rounds the panel let through

Opinions == {"none", "approve", "object"}

SignOffTypeOK ==
  /\ opinion \in [Rounds \X Seats -> Opinions]
  /\ passed \subseteq Rounds

SignOffInit ==
  /\ opinion = [x \in Rounds \X Seats |-> "none"]
  /\ passed = {}

Give(r, s, o) ==
  /\ r \notin passed /\ opinion[<<r, s>>] = "none"
  /\ opinion' = [opinion EXCEPT ![<<r, s>>] = o]
  /\ UNCHANGED passed

Pass(r) ==
  /\ \A s \in Seats : opinion[<<r, s>>] # "object"
  /\ passed' = passed \cup {r}
  /\ UNCHANGED opinion

SignOffNext ==
  \E r \in Rounds :
    \/ Pass(r)
    \/ \E s \in Seats, o \in {"approve", "object"} : Give(r, s, o)

SignOffSpec == SignOffInit /\ [][SignOffNext]_<<opinion, passed>>

=============================================================================
