--------------------------- MODULE GuardContract ---------------------------
(***************************************************************************)
(* What SQLGuard.validate() promises its callers, with the pipeline left   *)
(* out (guard.py:122-231, policy.py:166-173).  While a call is pending the *)
(* worst class of problem found so far only grows.  The call is decided    *)
(* once, for good, and by nothing but that class and the enforcement mode: *)
(* a clean statement is executable, a hard stop is always rejected, and    *)
(* anything between them is rejected under "block" and let through, marked *)
(* would_block, under "log_only".                                          *)
(***************************************************************************)
EXTENDS Naturals

CONSTANT Calls          \* the invocations of validate()

VARIABLES mode,         \* Policy.enforcement
          status,       \* what the caller of each call sees
          worst         \* the worst class of problem found for each call

cvars == <<mode, status, worst>>

Modes == {"block", "log_only"}
Verdicts == {"executable", "would_block", "rejected"}

\* The three classes of problem, in order of severity.
Clean == 0
Blockable == 1
HardStop == 2
Classes == {Clean, Blockable, HardStop}

\* The verdict on a call whose worst problem is w.
Verdict(m, w) ==
  IF w = Clean THEN "executable"
  ELSE IF w = Blockable /\ m = "log_only" THEN "would_block" ELSE "rejected"

ContractType ==
  /\ mode \in Modes
  /\ status \in [Calls -> {"idle", "pending"} \cup Verdicts]
  /\ worst \in [Calls -> Classes]

Init ==
  /\ mode \in Modes
  /\ status = [c \in Calls |-> "idle"]
  /\ worst = [c \in Calls |-> Clean]

Submit(c) ==
  /\ status[c] = "idle"
  /\ status' = [status EXCEPT ![c] = "pending"]
  /\ UNCHANGED <<mode, worst>>

\* A check reports a problem: the class may rise, never fall.
Discover(c) ==
  /\ status[c] = "pending"
  /\ \E w \in Classes : w >= worst[c] /\ worst' = [worst EXCEPT ![c] = w]
  /\ UNCHANGED <<mode, status>>

\* The call returns.  The last check (the audit of the rendered text, or the
\* handler of an unexpected exception) may still raise the class.
Decide(c) ==
  /\ status[c] = "pending"
  /\ \E w \in Classes :
       /\ w >= worst[c]
       /\ worst' = [worst EXCEPT ![c] = w]
       /\ status' = [status EXCEPT ![c] = Verdict(mode, w)]
  /\ UNCHANGED mode

Next == \E c \in Calls : Submit(c) \/ Discover(c) \/ Decide(c)

Spec == Init /\ [][Next]_cvars
=============================================================================
