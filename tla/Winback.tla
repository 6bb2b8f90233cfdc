-------------------------------- MODULE Winback --------------------------------
(***************************************************************************)
(* The e-mails to customers who have left (churn.go:446, churn_store.go:   *)
(* 223-296).  Every half hour each process makes a pass, if it gets the    *)
(* advisory lock: it lists who has left with the next step that is due,    *)
(* and for each of them claims the step, sends and marks it.  The lock     *)
(* lives on a connection that may be lost while the pass goes on; a claim  *)
(* keeps the step for thirty minutes, and after that whoever comes.        *)
(*                                                                         *)
(* Who has left, and since when, comes from the cancellations; here days   *)
(* pass and customers return as they like.                                 *)
(***************************************************************************)
EXTENDS Naturals, FiniteSets

CONSTANTS
  Runners,        \* processes
  Recipients,
  LastStep,       \* the e-mails of winback_config.json
  NoRunner,
  MaxLeases,      \* bound: leases of one claim that run out
  MaxSlips        \* bound: calls that fail, restarts, connections lost

ASSUME RunnerAssumption == IsFiniteSet(Runners) /\ NoRunner \notin Runners
ASSUME WinbackLimits == {LastStep, MaxLeases, MaxSlips} \subseteq Nat

VARIABLES
  due,        \* the last step whose day has come, 0 for who has not left
  optedOut,
  runnerLock,
  pass,       \* the runners
  claim,      \* winback_claims
  sends,      \* history: e-mails sent
  leases,     \* history: claims that were older than winbackLease
  slips

people == <<due, optedOut>>
winVars == <<people, runnerLock, pass, claim, sends, leases, slips>>

Steps == 1 .. LastStep
Letters == Recipients \X Steps
NoLetter == [pc |-> "idle", todo |-> {}, letter |-> {}]

WinTypeOK ==
  /\ due \in [Recipients -> 0 .. LastStep] /\ optedOut \subseteq Recipients
  /\ runnerLock \in Runners \cup {NoRunner}
  /\ pass \in [Runners -> [pc : {"idle", "list", "next", "check", "claim", "send", "mark"},
                           todo : SUBSET Letters, letter : SUBSET Letters]]
  /\ claim \in [Letters -> {"none", "sending", "stale", "sent"}]
  /\ sends \in [Letters -> Nat] /\ leases \in [Letters -> 0 .. MaxLeases]
  /\ slips \in 0 .. MaxSlips

WinInit ==
  /\ due = [p \in Recipients |-> 0] /\ optedOut = {}
  /\ runnerLock = NoRunner
  /\ pass = [r \in Runners |-> NoLetter]
  /\ claim = [l \in Letters |-> "none"]
  /\ sends = [l \in Letters |-> 0] /\ leases = [l \in Letters |-> 0]
  /\ slips = 0

PassAt(r, pc) == pass[r].pc = pc
PassGoto(r, pc) == pass' = [pass EXCEPT ![r].pc = pc]
NextRecipient(r) == pass' = [pass EXCEPT ![r].pc = "next", ![r].letter = {}]
Slip == slips < MaxSlips /\ slips' = slips + 1
\* The recipient and step a runner is at.
Letter(r) == CHOOSE l \in Letters : l \in pass[r].letter

--------------------------------------------------------------------------------
\* runWinbackPass

TryRunnerLock(r) ==
  /\ PassAt(r, "idle") /\ runnerLock = NoRunner
  /\ runnerLock' = r
  /\ PassGoto(r, "list")
  /\ UNCHANGED <<people, claim, sends, leases, slips>>

Unlock(r) == runnerLock' = IF runnerLock = r THEN NoRunner ELSE runnerLock

\* Steps are sent in turn: the one after the last that was marked.
MarkedUpTo(p, n) == n = 0 \/ claim[<<p, n>>] = "sent"
IsNextStep(l) ==
  /\ MarkedUpTo(l[1], l[2] - 1)
  /\ \A m \in l[2] .. LastStep : claim[<<l[1], m>>] # "sent"

\* ListWinbackCandidates and nextWinbackEmail.
Candidates == {l \in Letters : l[1] \notin optedOut /\ IsNextStep(l) /\ l[2] <= due[l[1]]}

ListWinbackCandidates(r) ==
  /\ PassAt(r, "list")
  /\ pass' = [pass EXCEPT ![r].pc = "next", ![r].todo = Candidates]
  /\ UNCHANGED <<people, runnerLock, claim, sends, leases, slips>>

\* Or the pass ends, on an empty list or a list that could not be read.
NextCandidate(r) ==
  \/ /\ PassAt(r, "next")
     /\ \E l \in pass[r].todo :
          pass' = [pass EXCEPT ![r] = [pc |-> "check", todo |-> @.todo \ {l}, letter |-> {l}]]
     /\ UNCHANGED <<people, runnerLock, claim, sends, leases, slips>>
  \/ /\ \/ PassAt(r, "next") /\ pass[r].todo = {} /\ UNCHANGED slips
        \/ PassAt(r, "list") /\ Slip
     /\ pass' = [pass EXCEPT ![r] = NoLetter]
     /\ Unlock(r)
     /\ UNCHANGED <<people, claim, sends, leases>>

IsEmailOptedOut(r) ==
  /\ PassAt(r, "check")
  /\ \/ Letter(r)[1] \notin optedOut /\ PassGoto(r, "claim") /\ UNCHANGED slips
     \/ Letter(r)[1] \in optedOut /\ NextRecipient(r) /\ UNCHANGED slips
     \/ Slip /\ NextRecipient(r)
  /\ UNCHANGED <<people, runnerLock, claim, sends, leases>>

\* A slip: a claim that is being worked on is taken over.
ClaimableAnyway(l) == claim[l] # "sent"

Claimable(l) == claim[l] \in {"none", "stale"}

\* One statement; an error may mean that it was done.
ClaimWinbackSend(r) ==
  /\ PassAt(r, "claim")
  /\ LET l == Letter(r)
     IN \/ /\ Claimable(l) /\ claim' = [claim EXCEPT ![l] = "sending"]
           /\ \/ PassGoto(r, "send") /\ UNCHANGED slips
              \/ Slip /\ NextRecipient(r)
        \/ ~Claimable(l) /\ NextRecipient(r) /\ UNCHANGED <<claim, slips>>
        \/ Slip /\ NextRecipient(r) /\ UNCHANGED claim
  /\ UNCHANGED <<people, runnerLock, sends, leases>>

\* An error may mean that the e-mail went out.
SendWinbackEmail(r) ==
  /\ PassAt(r, "send")
  /\ LET sent == [sends EXCEPT ![Letter(r)] = @ + 1]
     IN \/ sends' = sent /\ PassGoto(r, "mark") /\ UNCHANGED slips
        \/ sends' \in {sends, sent} /\ Slip /\ NextRecipient(r)
  /\ UNCHANGED <<people, runnerLock, claim, leases>>

MarkWinbackSent(r) ==
  /\ PassAt(r, "mark")
  /\ \/ claim' = [claim EXCEPT ![Letter(r)] = "sent"] /\ UNCHANGED slips
     \/ Slip /\ UNCHANGED claim
  /\ NextRecipient(r)
  /\ UNCHANGED <<people, runnerLock, sends, leases>>

--------------------------------------------------------------------------------
\* The world

DayComes(p) ==
  /\ due[p] < LastStep
  /\ due' = [due EXCEPT ![p] = @ + 1]
  /\ UNCHANGED <<optedOut, runnerLock, pass, claim, sends, leases, slips>>

Returns(p) ==
  /\ due[p] > 0
  /\ due' = [due EXCEPT ![p] = 0]
  /\ UNCHANGED <<optedOut, runnerLock, pass, claim, sends, leases, slips>>

OptsOut(p) ==
  /\ p \notin optedOut
  /\ optedOut' = optedOut \cup {p}
  /\ UNCHANGED <<due, runnerLock, pass, claim, sends, leases, slips>>

\* winbackLease is over, perhaps while the e-mail is still being sent.
LeaseEnds(l) ==
  /\ claim[l] = "sending" /\ leases[l] < MaxLeases
  /\ claim' = [claim EXCEPT ![l] = "stale"]
  /\ leases' = [leases EXCEPT ![l] = @ + 1]
  /\ UNCHANGED <<people, runnerLock, pass, sends, slips>>

\* The database gives the lock to another runner; this one does not notice.
ConnectionLost ==
  /\ runnerLock # NoRunner /\ Slip
  /\ runnerLock' = NoRunner
  /\ UNCHANGED <<people, pass, claim, sends, leases>>

RunnerStops(r) ==
  /\ ~PassAt(r, "idle") /\ Slip
  /\ pass' = [pass EXCEPT ![r] = NoLetter]
  /\ Unlock(r)
  /\ UNCHANGED <<people, claim, sends, leases>>

--------------------------------------------------------------------------------
PassStep(r) ==
  \/ ListWinbackCandidates(r) \/ NextCandidate(r) \/ IsEmailOptedOut(r)
  \/ ClaimWinbackSend(r) \/ SendWinbackEmail(r) \/ MarkWinbackSent(r)

WinNext ==
  \/ \E r \in Runners : TryRunnerLock(r) \/ PassStep(r) \/ RunnerStops(r)
  \/ \E p \in Recipients : DayComes(p) \/ Returns(p) \/ OptsOut(p)
  \/ \E l \in Letters : LeaseEnds(l)
  \/ ConnectionLost

WinSpec == WinInit /\ [][WinNext]_winVars

--------------------------------------------------------------------------------
\* Properties

\* The letters a runner may still come to, and the one in hand from the list to
\* the mark.
Ahead(r) == pass[r].todo \cup pass[r].letter
LetterInHand(r) ==
  pass[r].pc \in {"check", "claim", "send", "mark"} => \E l \in Letters : pass[r].letter = {l}

InTurn(l) == MarkedUpTo(l[1], l[2] - 1)

\* Each claim of a letter is worth one e-mail: sent, about to be sent, or still
\* to be claimed.
Senders(l) == {r \in Runners : PassAt(r, "send") /\ l \in pass[r].letter}
StillClaimable(l) == IF claim[l] \in {"none", "stale"} THEN 1 ELSE 0
ClaimWorth(l) == sends[l] + Cardinality(Senders(l)) + StillClaimable(l) <= 1 + leases[l]

\* The inductive invariant.
WinInv ==
  /\ WinTypeOK
  /\ \A r \in Runners : LetterInHand(r) /\ \A l \in Ahead(r) : InTurn(l)
  /\ \A l \in Letters : ClaimWorth(l) /\ (sends[l] > 0 => InTurn(l))

\* A step is sent again only after a claim of it ran out unmarked, also when two
\* runners are at it because the lock was lost, a send is slower than its lease,
\* or a runner stopped between sending and marking; and no step is sent before
\* the one before it was marked.
WinbackOnce ==
  \A l \in Letters : sends[l] <= 1 + leases[l] /\ (sends[l] > 0 => InTurn(l))
================================================================================
