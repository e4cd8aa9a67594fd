---------------------------- MODULE AtomicLimiter ----------------------------
(***************************************************************************)
(* What a fixed-window limiter promises, without Redis, clocks or times to *)
(* live: a request is counted and judged in one step, against what is      *)
(* counted before it in its window; what it is told is that judgement or   *)
(* nothing; and a window's count is forgotten only once the window is over. *)
(* A request may ask a limited number of times, and those that were not     *)
(* answered may be counted too, each of them once, at any time.             *)
(***************************************************************************)
EXTENDS Naturals

CONSTANTS Requests, Limit, Windows, Sends

VARIABLES
  window, \* the current window
  used,   \* what is counted in each window
  due,    \* what is asked and may yet be counted, though nobody waits for it
  claim   \* each request: how often it asked, how far it is, whether it may pass

NoClaim == [sent |-> 0, phase |-> "none", window |-> 0, pass |-> FALSE]

Init ==
  /\ window = 0
  /\ used = [w \in Windows |-> 0]
  /\ due = [w \in Windows |-> 0]
  /\ claim = [r \in Requests |-> NoClaim]

\* A claim goes on, having asked sent times.
Becomes(r, sent, phase, pass) ==
  claim' = [claim EXCEPT ![r] = [sent |-> sent, phase |-> phase,
                                 window |-> @.window, pass |-> pass]]

Count(w) == used' = [used EXCEPT ![w] = @ + 1]

Asked(r) == claim[r].phase = "asked" /\ claim[r].sent < Sends

\* What a claim asked, and is not told, is lost or counted later.
Unanswered(w) == UNCHANGED due \/ due' = [due EXCEPT ![w] = @ + 1]

Arrive(r) ==
  /\ claim[r].phase = "none" /\ window \in Windows
  /\ claim' = [claim EXCEPT ![r] = [sent |-> 0, phase |-> "asked",
                                    window |-> window, pass |-> FALSE]]
  /\ UNCHANGED <<window, used, due>>

AskAgain(r) ==
  /\ Asked(r)
  /\ Becomes(r, claim[r].sent + 1, "asked", FALSE)
  /\ Unanswered(claim[r].window)
  /\ UNCHANGED <<window, used>>

CountLate(w) ==
  /\ due[w] > 0
  /\ due' = [due EXCEPT ![w] = @ - 1]
  /\ Count(w)
  /\ UNCHANGED <<window, claim>>

Judge(r) ==
  /\ Asked(r)
  /\ Becomes(r, claim[r].sent + 1, "judged", used[claim[r].window] < Limit)
  /\ Count(claim[r].window)
  /\ UNCHANGED <<window, due>>

Answer(r) ==
  /\ claim[r].phase = "judged"
  /\ Becomes(r, claim[r].sent, "answered", claim[r].pass)
  /\ UNCHANGED <<window, used, due>>

\* A request gets no judgement, or none that reaches it.
Lose(r) ==
  /\ \/ /\ Asked(r)
        /\ Becomes(r, claim[r].sent + 1, "lost", FALSE)
        /\ Unanswered(claim[r].window)
     \/ /\ claim[r].phase = "judged"
        /\ Becomes(r, claim[r].sent, "lost", FALSE)
        /\ UNCHANGED due
  /\ UNCHANGED <<window, used>>

Pass ==
  /\ window' = window \/ (window \in Windows /\ window' = window + 1)
  /\ \E over \in SUBSET {w \in Windows : w < window'} :
       used' = [w \in Windows |-> IF w \in over THEN 0 ELSE used[w]]
  /\ UNCHANGED <<due, claim>>

Next ==
  \/ Pass
  \/ \E w \in Windows : CountLate(w)
  \/ \E r \in Requests : Arrive(r) \/ AskAgain(r) \/ Judge(r) \/ Answer(r) \/ Lose(r)

Spec == Init /\ [][Next]_<<window, used, due, claim>>
=============================================================================
