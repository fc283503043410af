--------------------------- MODULE WorkflowProofs ---------------------------
(***************************************************************************)
(* The properties of Workflow, for any number of steps, graph, conditions, *)
(* retries and faults. The search: the steps marked 1 are the path, each a *)
(* dependency of the one before, so an edge back into it closes a circle;  *)
(* the steps marked 2 are closed under dependsOn and grounded. The plan: a *)
(* step is ready exactly when it is not listed and all it depends on is, so *)
(* if the list ended early the rest would not be grounded. The run: in what *)
(* is in memory, in the checkpoint and in the continuation a step is over  *)
(* only when its dependencies are, and is skipped exactly when its         *)
(* condition fails, except below a step that a resume tried again; and what *)
(* the run was resumed from as succeeded has succeeded.                    *)
(*                                                                         *)
(* ExecutedOnce of Continuation, and that a successor is executed only     *)
(* after its predecessor's pause is on disk, for any number of resumes,    *)
(* successors, failed writes and restarts. The invariant is about the      *)
(* file, since memory is lost and reread: a call that is past its claim    *)
(* has its claim in the file, which says so and not yet that it is         *)
(* completed, and no other such call is for the same continuation; memory  *)
(* that shows a continuation free is never ahead of a file that shows it   *)
(* taken; what a file says is completed stays so. A claim in memory, or of *)
(* a call, is the file's, so no write takes a claim back.                  *)
(***************************************************************************)
EXTENDS Continuation, Workflow, WellFoundedInduction, TLAPS

USE SMTT(30)

-----------------------------------------------------------------------------
Before == {"idle", "validating"}
Runs == {"running", "stopped", "ended", "paused"}
Open == {"pending", "running"}

\* The marks, and the open calls of dfs: each step on the path is a dependency
\* of the one before it.
PathInv ==
    /\ dependsOn \in [Steps -> SUBSET Steps]
    /\ visited \in [Steps -> {0, 1, 2}]
    /\ path \in Seq(Steps)
    /\ unfollowed \in [Steps -> SUBSET Steps]
    /\ \A k \in 1..Len(path) : visited[path[k]] = 1
    /\ \A s \in Steps : visited[s] = 1 => \E k \in 1..Len(path) : path[k] = s
    /\ \A j, k \in 1..Len(path) : path[j] = path[k] => j = k
    /\ \A k \in 1..Len(path) : k < Len(path) => path[k + 1] \in dependsOn[path[k]]

\* What is marked 2 depends on such steps only; what an open call has followed
\* is marked 2, or is the next call on the path.
FollowedInv ==
    /\ \A s \in Steps : visited[s] = 2 => \A d \in dependsOn[s] : visited[d] = 2
    /\ \A k \in 1..Len(path) :
          /\ unfollowed[path[k]] \subseteq dependsOn[path[k]]
          /\ \A d \in dependsOn[path[k]] :
                d \in unfollowed[path[k]] \/ visited[d] = 2 \/ (k < Len(path) /\ d = path[k + 1])

Finished == {s \in Steps : visited[s] = 2}

SearchInv ==
    /\ PathInv /\ FollowedInv /\ Grounded(Finished)
    /\ engine = "idle" => path = <<>> /\ visited = [s \in Steps |-> 0]
    /\ engine = "refused" => ~Grounded(Steps)
    /\ engine \notin Before \cup {"refused"} => Grounded(Steps)

\* The list so far, and that the ready steps are those that could come next.
OrderInv ==
    /\ order \in Seq(Steps)
    /\ \A j, k \in 1..Len(order) : order[j] = order[k] => j = k
    /\ \A k \in 1..Len(order) : dependsOn[order[k]] \subseteq {order[j] : j \in 1..(k - 1)}

ListInv ==
    /\ OrderInv
    /\ engine \in Before => order = <<>>
    /\ engine = "planning" =>
          planReady = {t \in Steps : t \notin Listed(order) /\ dependsOn[t] \subseteq Listed(order)}
    /\ engine = "planned" => Len(order) = StepCount /\ Steps \subseteq Listed(order)

\* Steps that are over follow their conditions, as far as none of their
\* dependencies is in re.
Consistent(st, re) ==
    \A s \in Steps : st[s] \in TerminalSteps /\ dependsOn[s] \cap re = {} =>
        /\ \A d \in dependsOn[s] : st[d] \in TerminalSteps
        /\ st[s] = "skipped" <=> ~Matched(s, st)

Saved == IF sourced THEN continuation ELSE checkpoint

\* A run: the steps of a round are open and their dependencies are over, a step
\* that runs is one of them, and what is saved as succeeded has succeeded.
RoundOf(rd, st, from) ==
    /\ rd \subseteq Steps
    /\ \A s \in rd :
          /\ st[s] \in Open
          /\ \A d \in dependsOn[s] : st[d] \in TerminalSteps
          /\ st[s] = "running" => Matched(s, st)
    /\ \A s \in Steps : st[s] = "running" => s \in rd
    /\ \A s \in Steps : from[s] = "succeeded" => st[s] = "succeeded"

RunInv ==
    /\ stepStatus \in [Steps -> Open \cup TerminalSteps]
    /\ Consistent(stepStatus, reopened)
    /\ Consistent(checkpoint, reopened)
    /\ Consistent(continuation, reopened)
    /\ engine \in Before =>
          /\ stepStatus = AllPending /\ continuation = AllPending /\ checkpoint = NoCheckpoint
          /\ round = {} /\ sourced = FALSE
    /\ engine = "running" => RoundOf(round, stepStatus, Saved)
    /\ engine = "ended" => \A s \in Steps : stepStatus[s] \in TerminalSteps

Engines == Before \cup Runs \cup {"refused", "planning", "planned"}

WorkflowInv == engine \in Engines /\ SearchInv /\ ListInv /\ RunInv

-----------------------------------------------------------------------------
(* Graphs *)

\* A step whose dependencies are in a set that is closed under them.
LEMMA GroundedGrows ==
    ASSUME NEW S, Grounded(S), \A t \in S : dependsOn[t] \subseteq S,
           NEW s, dependsOn[s] \subseteq S
    PROVE  Grounded(S \cup {s})
<1> SUFFICES ASSUME NEW T \in SUBSET (S \cup {s}), T # {}
             PROVE  \E t \in T : dependsOn[t] \cap T = {}
  BY DEF Grounded
<1>1. CASE T \cap S = {}
  <2>1. PICK t \in T : TRUE
    OBVIOUS
  <2>2. t = s /\ \A d \in dependsOn[s] : d \notin T
    BY <1>1
  <2> QED BY <2>1, <2>2
<1>2. CASE T \cap S # {}
  <2>0. T \cap S \in SUBSET S
    OBVIOUS
  <2>1. PICK t \in T \cap S : dependsOn[t] \cap (T \cap S) = {}
    BY Zenon, <1>2, <2>0 DEF Grounded
  <2>2. dependsOn[t] \cap T = {}
    BY <2>1
  <2> QED BY <2>1, <2>2
<1> QED BY <1>1, <1>2

LEMMA GroundedPart ==
    ASSUME NEW S, Grounded(S), NEW T \in SUBSET S
    PROVE  Grounded(T)
BY Zenon DEF Grounded

\* A path that leads back to one of its steps.
LEMMA PathCloses ==
    ASSUME PathInv, NEW j \in 1..Len(path), path[j] \in dependsOn[path[Len(path)]]
    PROVE  ~Grounded(Steps)
<1> DEFINE T == {path[k] : k \in j..Len(path)}
<1>1. /\ path \in Seq(Steps) /\ Len(path) \in Nat
      /\ \A k \in 1..Len(path) : k < Len(path) => path[k + 1] \in dependsOn[path[k]]
  BY DEF PathInv
<1>2. T \in SUBSET Steps /\ path[j] \in T
  BY <1>1
<1>3. ASSUME NEW s \in T PROVE dependsOn[s] \cap T # {}
  <2>1. PICK k \in j..Len(path) : s = path[k]
    OBVIOUS
  <2>2. CASE k = Len(path)
    BY <1>2, <2>1, <2>2
  <2>3. CASE k < Len(path)
    <3>1. k + 1 \in j..Len(path) /\ k \in 1..Len(path)
      BY <1>1, <2>3
    <3>2. path[k + 1] \in dependsOn[s] /\ path[k + 1] \in T
      BY <1>1, <2>1, <2>3, <3>1
    <3> QED BY <3>2
  <2> QED BY <1>1, <2>1, <2>2, <2>3
<1> HIDE DEF T
<1> QED BY Zenon, <1>2, <1>3 DEF Grounded

-----------------------------------------------------------------------------
(* hasCycle *)

LEMMA VisitNextInv ==
    ASSUME SearchInv, NEW s \in Steps, VisitNext(s)
    PROVE  SearchInv'
<1>1. /\ PathInv /\ FollowedInv /\ Grounded(Finished) /\ engine = "validating"
      /\ path = <<>> /\ visited[s] = 0 /\ dependsOn' = dependsOn /\ engine' = "validating"
      /\ visited' = [visited EXCEPT ![s] = 1] /\ path' = Append(path, s)
      /\ unfollowed' = [unfollowed EXCEPT ![s] = dependsOn[s]]
  BY Zenon DEF SearchInv, VisitNext, Enter, IsLeast, definitionVars
<1>2. /\ dependsOn \in [Steps -> SUBSET Steps] /\ visited \in [Steps -> {0, 1, 2}]
      /\ unfollowed \in [Steps -> SUBSET Steps]
      /\ \A t \in Steps : visited[t] # 1 /\ \A d \in dependsOn[t] : d \in Steps
  BY <1>1 DEF PathInv
<1>3. path' \in Seq(Steps) /\ Len(path') = 1 /\ path'[1] = s
  BY <1>1
<1>4. /\ visited' \in [Steps -> {0, 1, 2}] /\ unfollowed' \in [Steps -> SUBSET Steps]
      /\ visited'[s] = 1 /\ unfollowed'[s] = dependsOn[s]
      /\ \A t \in Steps : t # s => visited'[t] = visited[t]
  BY <1>1, <1>2
<1>5. PathInv'
  BY <1>1, <1>2, <1>3, <1>4 DEF PathInv
<1>6. \A t \in Steps : visited'[t] = 2 <=> visited[t] = 2
  BY <1>1, <1>4
<1>7. FollowedInv'
  <2>0. \A t \in Steps : visited[t] = 2 => \A d \in dependsOn[t] : visited[d] = 2
    BY Zenon, <1>1 DEF FollowedInv
  <2>1. \A t \in Steps : visited'[t] = 2 => \A d \in dependsOn[t] : visited'[d] = 2
    BY <1>2, <1>6, <2>0
  <2> QED BY <1>1, <1>3, <1>4, <2>1 DEF FollowedInv
<1>8. Grounded(Finished)'
  BY Zenon, <1>1, <1>6 DEF Finished, Grounded
<1> QED BY Zenon, <1>1, <1>5, <1>7, <1>8 DEF SearchInv, Before

\* The last step of the path follows d.
LEMMA FollowInv ==
    ASSUME SearchInv, NEW d \in Steps, FollowDependency(d)
    PROVE  SearchInv'
<1> DEFINE n == Len(path)
           s == path[n]
           rest == [unfollowed EXCEPT ![s] = @ \ {d}]
<1>1. /\ PathInv /\ FollowedInv /\ Grounded(Finished) /\ engine = "validating"
      /\ path # <<>> /\ d \in unfollowed[s] /\ dependsOn' = dependsOn
  BY Zenon DEF SearchInv, FollowDependency, definitionVars
<1>2. /\ dependsOn \in [Steps -> SUBSET Steps] /\ visited \in [Steps -> {0, 1, 2}]
      /\ path \in Seq(Steps) /\ unfollowed \in [Steps -> SUBSET Steps]
      /\ n \in 1..Len(path) /\ n \in Nat /\ s \in Steps /\ n # 0
  BY <1>1 DEF PathInv
<1>3. d \in dependsOn[s] /\ visited[s] = 1
  BY <1>1, <1>2 DEF PathInv, FollowedInv
<1>4. /\ rest \in [Steps -> SUBSET Steps] /\ rest[s] = unfollowed[s] \ {d}
      /\ \A t \in Steps : t # s => rest[t] = unfollowed[t]
  BY <1>2
<1>5. /\ \A k \in 1..n : path[k] \in Steps /\ visited[path[k]] = 1
      /\ \A t \in Steps : visited[t] = 1 => \E k \in 1..n : path[k] = t
      /\ \A j, k \in 1..n : path[j] = path[k] => j = k
      /\ \A k \in 1..n : k < n => path[k + 1] \in dependsOn[path[k]] /\ path[k] # s
      /\ \A k \in 1..n : unfollowed[path[k]] \subseteq dependsOn[path[k]]
      /\ \A k \in 1..n : \A e \in dependsOn[path[k]] :
            e \in unfollowed[path[k]] \/ visited[e] = 2 \/ (k < n /\ e = path[k + 1])
      /\ \A t \in Steps : visited[t] = 2 => \A e \in dependsOn[t] : visited[e] = 2
  BY <1>1, <1>2 DEF PathInv, FollowedInv
<1>9. \/ visited[d] = 0 /\ Enter(d, rest) /\ engine' = engine
      \/ visited[d] = 1 /\ engine' = "refused" /\ UNCHANGED <<visited, path, unfollowed>>
      \/ visited[d] = 2 /\ unfollowed' = rest /\ UNCHANGED <<visited, path, engine>>
  BY Zenon DEF FollowDependency
<1>6. CASE visited[d] = 1
  <2>1. engine' = "refused" /\ UNCHANGED <<visited, path, unfollowed>>
    BY <1>6, <1>9
  <2>2. ~Grounded(Steps)
    <3>1. PICK j \in 1..Len(path) : path[j] = d
      BY <1>5, <1>6
    <3> QED BY Zenon, <1>1, <1>3, <3>1, PathCloses
  <2>3. PathInv' /\ FollowedInv' /\ Grounded(Finished)' /\ ~Grounded(Steps)'
    BY ZenonT(60), <1>1, <2>1, <2>2 DEF PathInv, FollowedInv, Grounded, Finished
  <2> QED BY Zenon, <2>1, <2>3 DEF SearchInv, Before
<1>7. CASE visited[d] = 2
  <2>1. unfollowed' = rest /\ UNCHANGED <<visited, path>> /\ engine' = engine
    <3> HIDE DEF rest
    <3> QED BY <1>7, <1>9
  <2> HIDE DEF rest
  <2>2. PathInv' /\ Grounded(Finished)'
    BY Zenon, <1>1, <1>4, <2>1 DEF PathInv, Grounded, Finished
  <2>3. ASSUME NEW k \in 1..n
        PROVE  /\ unfollowed'[path[k]] \subseteq dependsOn[path[k]]
               /\ \A e \in dependsOn[path[k]] :
                     e \in unfollowed'[path[k]] \/ visited[e] = 2 \/ (k < n /\ e = path[k + 1])
    <3>1. CASE path[k] = s
      BY Zenon, <1>4, <1>5, <1>7, <2>1, <3>1
    <3>2. CASE path[k] # s
      BY Zenon, <1>4, <1>5, <2>1, <3>2
    <3> QED BY <3>1, <3>2
  <2>4. FollowedInv'
    <3>1. \A t \in Steps : visited'[t] = 2 => \A e \in dependsOn'[t] : visited'[e] = 2
      BY Zenon, <1>1, <2>1 DEF FollowedInv
    <3>2. \A k \in 1..Len(path') :
             /\ unfollowed'[path'[k]] \subseteq dependsOn'[path'[k]]
             /\ \A e \in dependsOn'[path'[k]] :
                   e \in unfollowed'[path'[k]] \/ visited'[e] = 2
                      \/ (k < Len(path') /\ e = path'[k + 1])
      BY Zenon, <1>1, <2>1, <2>3
    <3> QED BY Zenon, <3>1, <3>2 DEF FollowedInv
  <2> QED BY Zenon, <1>1, <2>1, <2>2, <2>4 DEF SearchInv, Before
<1>8. CASE visited[d] = 0
  <2>1. /\ engine' = engine /\ visited' = [visited EXCEPT ![d] = 1] /\ path' = Append(path, d)
        /\ unfollowed' = [rest EXCEPT ![d] = dependsOn[d]]
    <3>1. Enter(d, rest) /\ engine' = engine
      <4> HIDE DEF rest
      <4> QED BY <1>8, <1>9
    <3> QED BY Zenon, <3>1 DEF Enter
  <2> HIDE DEF rest, s
  <2>2. /\ visited' \in [Steps -> {0, 1, 2}] /\ visited'[d] = 1
        /\ \A t \in Steps : t # d => visited'[t] = visited[t]
    BY <1>2, <2>1
  <2>3. /\ unfollowed' \in [Steps -> SUBSET Steps] /\ unfollowed'[d] = dependsOn[d]
        /\ \A t \in Steps : t # d => unfollowed'[t] = rest[t]
    BY <1>2, <1>4, <2>1
  <2>4. /\ path' \in Seq(Steps) /\ Len(path') = n + 1 /\ path'[n + 1] = d
        /\ \A k \in 1..n : path'[k] = path[k]
    BY <1>2, <2>1
  <2>5. \A k \in 1..n : path[k] # d
    BY <1>5, <1>8
  <2> HIDE DEF n
  <2>6. \A k \in 1..(n + 1) : k \in 1..n \/ k = n + 1
    BY <1>2
  <2>7. PathInv'
    <3>1. \A k \in 1..(n + 1) : visited'[path'[k]] = 1
      BY <1>5, <2>2, <2>4, <2>5, <2>6
    <3>2. \A t \in Steps : visited'[t] = 1 => \E k \in 1..(n + 1) : path'[k] = t
      BY <1>2, <1>5, <2>2, <2>4
    <3>3. \A j, k \in 1..(n + 1) : path'[j] = path'[k] => j = k
      BY <1>5, <2>4, <2>5, <2>6
    <3>4. ASSUME NEW k \in 1..(n + 1), k < n + 1 PROVE path'[k + 1] \in dependsOn[path'[k]]
      <4>1. CASE k < n
        BY <1>2, <1>5, <2>4, <3>4, <4>1
      <4>2. CASE k = n
        BY <1>2, <1>3, <2>4, <4>2 DEF s, n
      <4> QED BY <1>2, <3>4, <4>1, <4>2
    <3> QED BY <1>1, <1>2, <2>2, <2>3, <2>4, <3>1, <3>2, <3>3, <3>4 DEF PathInv
  <2>8. FollowedInv'
    <3>1. \A t \in Steps : visited'[t] = 2 <=> visited[t] = 2
      BY <1>8, <2>2
    <3>2. \A t \in Steps : visited'[t] = 2 => \A e \in dependsOn[t] : visited'[e] = 2
      BY Zenon, <1>2, <1>5, <3>1
    <3>3. ASSUME NEW k \in 1..(n + 1)
          PROVE  /\ unfollowed'[path'[k]] \subseteq dependsOn[path'[k]]
                 /\ \A e \in dependsOn[path'[k]] :
                       e \in unfollowed'[path'[k]] \/ visited'[e] = 2 \/ (k < n + 1 /\ e = path'[k + 1])
      <4>1. CASE k = n + 1
        BY Zenon, <2>3, <2>4, <4>1
      <4>2. CASE k \in 1..n /\ k < n
        <5>1. /\ path'[k] = path[k] /\ k + 1 \in 1..n /\ path'[k + 1] = path[k + 1] /\ k < n + 1
              /\ path[k] \in Steps
          BY <1>2, <1>5, <2>4, <4>2
        <5>2. unfollowed'[path[k]] = unfollowed[path[k]]
          BY Zenon, <1>4, <1>5, <2>3, <2>5, <4>2
        <5>3. \A e \in dependsOn[path[k]] : e \in Steps
          BY Zenon, <1>2, <5>1
        <5> QED BY ZenonT(60), <1>5, <3>1, <4>2, <5>1, <5>2, <5>3
      <4>3. CASE k = n
        <5>1. /\ path'[k] = s /\ path'[k + 1] = d /\ k < n + 1 /\ n \in 1..n
          BY <1>2, <2>4, <4>3 DEF s, n
        <5>2. unfollowed'[s] = unfollowed[s] \ {d} /\ unfollowed[s] \subseteq dependsOn[s]
              /\ \A e \in dependsOn[s] : e \in unfollowed[s] \/ visited[e] = 2
          <6>1. s # d /\ ~(n < n)
            BY <1>2, <1>3, <1>8
          <6>2. unfollowed'[s] = unfollowed[s] \ {d}
            BY Zenon, <1>2, <1>4, <2>3, <6>1
          <6> QED BY Zenon, <1>5, <5>1, <6>1, <6>2 DEF s, n
        <5>3. \A e \in dependsOn[s] : e \in Steps
          BY <1>2
        <5> QED BY Zenon, <3>1, <5>1, <5>2, <5>3
      <4> QED BY <1>2, <2>6, <4>1, <4>2, <4>3
    <3> QED BY Zenon, <1>1, <2>4, <3>2, <3>3 DEF FollowedInv
  <2>9. Grounded(Finished)'
    <3>1. \A t \in Steps : visited'[t] = 2 <=> visited[t] = 2
      BY <1>8, <2>2
    <3> QED BY Zenon, <1>1, <3>1 DEF Finished, Grounded
  <2> QED BY Zenon, <1>1, <2>1, <2>7, <2>8, <2>9 DEF SearchInv, Before
<1> QED BY <1>2, <1>6, <1>7, <1>8

LEMMA WithoutLast ==
    ASSUME NEW S, NEW q \in Seq(S), q # <<>>
    PROVE  /\ SubSeq(q, 1, Len(q) - 1) \in Seq(S) /\ Len(SubSeq(q, 1, Len(q) - 1)) = Len(q) - 1
           /\ \A k \in 1..(Len(q) - 1) :
                 SubSeq(q, 1, Len(q) - 1)[k] = q[k] /\ k \in 1..Len(q) /\ k < Len(q)
<1>1. Len(q) \in Nat /\ Len(q) # 0
  OBVIOUS
<1>2. ASSUME NEW n \in Nat, n < Len(q)
      PROVE  /\ SubSeq(q, 1, n) \in Seq(S) /\ Len(SubSeq(q, 1, n)) = n
             /\ \A k \in 1..n : SubSeq(q, 1, n)[k] = q[k] /\ k \in 1..Len(q) /\ k < Len(q)
  BY <1>2
<1>3. Len(q) - 1 \in Nat /\ Len(q) - 1 < Len(q)
  BY <1>1
<1> QED BY Zenon, <1>2, <1>3

\* The last step of the path is finished.
LEMMA LeaveInv ==
    ASSUME SearchInv, LeaveStep
    PROVE  SearchInv'
<1> DEFINE n == Len(path)
           s == path[n]
<1>1. /\ PathInv /\ FollowedInv /\ Grounded(Finished) /\ engine = "validating" /\ engine' = engine
      /\ path # <<>> /\ unfollowed[s] = {} /\ dependsOn' = dependsOn /\ unfollowed' = unfollowed
      /\ visited' = [visited EXCEPT ![s] = 2] /\ path' = SubSeq(path, 1, n - 1)
  BY Zenon DEF SearchInv, LeaveStep, definitionVars
<1>2. /\ dependsOn \in [Steps -> SUBSET Steps] /\ visited \in [Steps -> {0, 1, 2}]
      /\ path \in Seq(Steps) /\ unfollowed \in [Steps -> SUBSET Steps]
      /\ n \in 1..Len(path) /\ n \in Nat /\ s \in Steps /\ n # 0
  BY <1>1 DEF PathInv
<1>3. /\ \A k \in 1..n : path[k] \in Steps /\ visited[path[k]] = 1
      /\ \A t \in Steps : visited[t] = 1 => \E k \in 1..n : path[k] = t
      /\ \A j, k \in 1..n : path[j] = path[k] => j = k
      /\ \A k \in 1..n : k < n => path[k + 1] \in dependsOn[path[k]] /\ path[k] # s
      /\ \A k \in 1..n : unfollowed[path[k]] \subseteq dependsOn[path[k]]
      /\ \A k \in 1..n : \A e \in dependsOn[path[k]] :
            e \in unfollowed[path[k]] \/ visited[e] = 2 \/ (k < n /\ e = path[k + 1])
      /\ \A t \in Steps : visited[t] = 2 => \A e \in dependsOn[t] : visited[e] = 2
  BY <1>1, <1>2 DEF PathInv, FollowedInv
<1>4. \A e \in dependsOn[s] : visited[e] = 2
  <2>1. ~(n < n)
    BY <1>2
  <2> QED BY <1>1, <1>2, <1>3, <2>1
<1>5. /\ path' \in Seq(Steps) /\ Len(path') = n - 1
      /\ \A k \in 1..(n - 1) : path'[k] = path[k] /\ k \in 1..n /\ k < n
  BY <1>1, <1>2, WithoutLast
<1>6. \A t \in Steps : \A e \in dependsOn[t] : e \in Steps
  BY <1>2
<1>7. s = path[n] /\ n \in 1..n
  BY <1>2
<1> HIDE DEF s, n
<1>8. /\ visited' \in [Steps -> {0, 1, 2}] /\ visited'[s] = 2
      /\ \A t \in Steps : t # s => visited'[t] = visited[t]
  BY <1>1, <1>2
<1>9. PathInv'
  <2>1. \A k \in 1..(n - 1) : visited'[path'[k]] = 1
    BY <1>3, <1>5, <1>8
  <2>2. ASSUME NEW t \in Steps, visited'[t] = 1 PROVE \E k \in 1..(n - 1) : path'[k] = t
    <3>1. t # s /\ visited[t] = 1
      BY <1>8, <2>2
    <3>2. PICK k \in 1..n : path[k] = t
      BY <1>3, <3>1
    <3>3. k \in 1..(n - 1)
      BY <1>2, <1>7, <3>1, <3>2
    <3> QED BY <1>5, <3>2, <3>3
  <2>3. \A j, k \in 1..(n - 1) : path'[j] = path'[k] => j = k
    BY <1>3, <1>5
  <2>4. ASSUME NEW k \in 1..(n - 1), k < n - 1 PROVE path'[k + 1] \in dependsOn[path'[k]]
    <3>1. k + 1 \in 1..(n - 1)
      BY <1>2, <2>4
    <3> QED BY Zenon, <1>3, <1>5, <3>1
  <2> QED BY <1>1, <1>2, <1>5, <1>8, <2>1, <2>2, <2>3, <2>4 DEF PathInv
<1>10. \A t \in Steps : visited'[t] = 2 <=> visited[t] = 2 \/ t = s
  BY <1>8
<1>11. FollowedInv'
  <2>1. \A t \in Steps : visited'[t] = 2 => \A e \in dependsOn[t] : visited'[e] = 2
    BY Zenon, <1>3, <1>4, <1>6, <1>10
  <2>2. ASSUME NEW k \in 1..(n - 1)
        PROVE  /\ unfollowed[path'[k]] \subseteq dependsOn[path'[k]]
               /\ \A e \in dependsOn[path'[k]] :
                     e \in unfollowed[path'[k]] \/ visited'[e] = 2 \/ (k < n - 1 /\ e = path'[k + 1])
    <3>1. k \in 1..n /\ k < n /\ path'[k] = path[k] /\ path[k] \in Steps
      BY Zenon, <1>3, <1>5
    <3>2. unfollowed[path'[k]] \subseteq dependsOn[path'[k]]
      BY Zenon, <1>3, <3>1
    <3>3. ASSUME NEW e \in dependsOn[path'[k]], e \notin unfollowed[path'[k]]
          PROVE  visited'[e] = 2 \/ (k < n - 1 /\ e = path'[k + 1])
      <4>1. e \in Steps /\ (visited[e] = 2 \/ e = path[k + 1])
        BY Zenon, <1>3, <1>6, <3>1, <3>3
      <4>2. CASE visited[e] = 2
        BY Zenon, <1>10, <4>1, <4>2
      <4>3. CASE e = path[k + 1]
        <5>1. CASE k + 1 = n
          BY <1>7, <1>8, <4>3, <5>1
        <5>2. CASE k + 1 # n
          BY <1>2, <1>5, <4>3, <5>2
        <5> QED BY <5>1, <5>2
      <4> QED BY <4>1, <4>2, <4>3
    <3> QED BY Zenon, <3>2, <3>3
  <2>3. 1..Len(path') = 1..(n - 1) /\ Len(path') = n - 1
    BY Zenon, <1>5
  <2>4. \A k \in 1..Len(path') :
          /\ unfollowed'[path'[k]] \subseteq dependsOn'[path'[k]]
          /\ \A e \in dependsOn'[path'[k]] :
                \/ e \in unfollowed'[path'[k]] \/ visited'[e] = 2
                \/ (k < Len(path') /\ e = path'[k + 1])
    <3>1. SUFFICES ASSUME NEW k \in 1..(n - 1)
                   PROVE  /\ unfollowed[path'[k]] \subseteq dependsOn[path'[k]]
                          /\ \A e \in dependsOn[path'[k]] :
                                \/ e \in unfollowed[path'[k]] \/ visited'[e] = 2
                                \/ (k < n - 1 /\ e = path'[k + 1])
      BY ZenonT(60), <1>1, <2>3
    <3> QED BY Zenon, <2>2
  <2> QED BY Zenon, <1>1, <2>1, <2>4 DEF FollowedInv
<1>12. Grounded(Finished)'
  <2>1. /\ \A t \in Finished : dependsOn[t] \subseteq Finished
        /\ dependsOn[s] \subseteq Finished
    BY <1>2, <1>3, <1>4, <1>6 DEF Finished
  <2>2. Grounded(Finished \cup {s})
    BY Zenon, <1>1, <2>1, GroundedGrows
  <2>3. Finished' = Finished \cup {s}
    BY <1>2, <1>10 DEF Finished
  <2> QED BY Zenon, <1>1, <2>2, <2>3 DEF Grounded
<1> QED BY Zenon, <1>1, <1>9, <1>11, <1>12 DEF SearchInv, Before

LEMMA SubmitInv ==
    ASSUME SearchInv, NEW deps \in [Steps -> SUBSET Steps], NEW conds, NEW asked,
           SubmitWorkflow(deps, conds, asked)
    PROVE  SearchInv'
<1>1. /\ path = <<>> /\ visited = [s \in Steps |-> 0] /\ PathInv
      /\ dependsOn' = deps /\ path' = path /\ visited' = visited /\ unfollowed' = unfollowed
      /\ engine' = IF \E s \in Steps : s \in deps[s] THEN "refused" ELSE "validating"
  BY Zenon DEF SearchInv, SubmitWorkflow, planVars
<1>2. PathInv' /\ FollowedInv'
  BY <1>1 DEF PathInv, FollowedInv
<1>3. Finished' = {}
  BY <1>1 DEF Finished
<1>4. Grounded(Finished)'
  <2>1. \A T \in SUBSET {} : T = {}
    OBVIOUS
  <2> QED BY Zenon, <1>3, <2>1 DEF Grounded
<1>5. ASSUME engine' = "refused" PROVE ~Grounded(Steps)'
  <2>1. PICK s \in Steps : s \in deps[s]
    BY Zenon, <1>1, <1>5
  <2>2. {s} \in SUBSET Steps /\ {s} # {} /\ \A t \in {s} : s \in deps[t] \cap {s}
    BY <2>1
  <2> QED BY Zenon, <1>1, <2>2 DEF Grounded
<1>6. engine' \in {"refused", "validating"}
  BY Zenon, <1>1
<1> QED BY Zenon, <1>2, <1>4, <1>5, <1>6 DEF SearchInv, Before

\* The search is over, or there is none: what it found stays so.
LEMMA SearchKept ==
    ASSUME SearchInv, UNCHANGED <<dependsOn, visited, path, unfollowed>>,
           engine' # "refused", engine' \notin Before,
           engine \notin Before \cup {"refused"} \/ Grounded(Steps)
    PROVE  SearchInv'
<1>1. Grounded(Steps)
  BY Zenon DEF SearchInv
<1>5. PathInv /\ FollowedInv /\ Grounded(Finished)
  BY Zenon DEF SearchInv
<1>2. PathInv'
  BY <1>5 DEF PathInv
<1>4. FollowedInv'
  BY Zenon, <1>5 DEF FollowedInv
<1>3. Grounded(Finished)' /\ Grounded(Steps)'
  BY Zenon, <1>1, <1>5 DEF Grounded, Finished
<1> QED BY Zenon, <1>2, <1>3, <1>4 DEF SearchInv, Before

LEMMA ValidatedGrounds ==
    ASSUME SearchInv, Validated
    PROVE  Grounded(Steps)
<1>1. Finished = Steps
  BY DEF Validated, Finished
<1> QED BY Zenon, <1>1 DEF SearchInv

-----------------------------------------------------------------------------
(* Plan *)

\* Induction over the numbers, with a set for the predicate.
LEMMA FromZeroUp ==
    ASSUME NEW T, 0 \in T, \A n \in Nat : n \in T => n + 1 \in T
    PROVE  Nat \subseteq T
<1> DEFINE Rest == Nat \ T
<1>1. SUFFICES ASSUME Rest # {} PROVE FALSE
  OBVIOUS
<1>2. PICK least \in Rest : \A other \in Rest : <<other, least>> \notin OpToRel(<, Nat)
  <2>1. Rest \subseteq Nat
    OBVIOUS
  <2> HIDE DEF Rest
  <2> QED BY Zenon, <1>1, <2>1, NatLessThanWellFounded, WFMin
<1>3. least \in Nat /\ least - 1 \in Nat /\ least - 1 < least /\ least = (least - 1) + 1
  OBVIOUS
<1>4. least - 1 \notin Rest
  <2>1. <<least - 1, least>> \in OpToRel(<, Nat)
    BY <1>3 DEF OpToRel
  <2> QED BY Zenon, <1>2, <2>1
<1> QED BY <1>3, <1>4

\* A list that has each of 1..N exactly once.
Lists1To(N) ==
    {q \in Seq(1..N) : /\ \A j, k \in 1..Len(q) : q[j] = q[k] => j = k
                       /\ \A s \in 1..N : \E k \in 1..Len(q) : q[k] = s}

\* It loses one entry with N.
LEMMA ListWithoutLast ==
    ASSUME NEW N \in Nat, NEW q \in Lists1To(N + 1)
    PROVE  \E p \in Lists1To(N) : Len(p) = Len(q) - 1
<1>1. /\ q \in Seq(1..(N + 1)) /\ Len(q) \in Nat
      /\ \A j \in 1..Len(q) : q[j] \in 1..(N + 1)
      /\ \A j, k \in 1..Len(q) : q[j] = q[k] => j = k
      /\ \A s \in 1..(N + 1) : \E k \in 1..Len(q) : q[k] = s
  BY DEF Lists1To
<1>2. N + 1 \in 1..(N + 1)
  OBVIOUS
<1>3. PICK at \in 1..Len(q) : q[at] = N + 1
  BY Zenon, <1>1, <1>2
<1> DEFINE m == Len(q) - 1
           from(j) == IF j < at THEN j ELSE j + 1
           p == [j \in 1..m |-> q[from(j)]]
<1>4. m \in Nat /\ at \in Nat
  BY <1>1
<1>5. ASSUME NEW j \in 1..m PROVE from(j) \in 1..Len(q) /\ from(j) # at
  <2>0. Len(q) \in Nat
    BY Zenon, <1>1
  <2>1. CASE j < at
    BY <1>4, <2>0, <2>1
  <2>2. CASE ~(j < at)
    BY <1>4, <2>0, <2>2
  <2> QED BY <2>1, <2>2
<1>6. \A j, k \in 1..m : from(j) = from(k) => j = k
  BY <1>4
<1>7. \A k \in 1..Len(q) : k # at => \E j \in 1..m : from(j) = k
  <2> TAKE k \in 1..Len(q)
  <2> HAVE k # at
  <2>1. CASE k < at
    <3>1. k \in 1..m /\ from(k) = k
      BY <1>1, <1>4, <2>1
    <3> HIDE DEF from
    <3> QED BY <3>1
  <2>2. CASE k > at
    <3>1. k - 1 \in 1..m /\ from(k - 1) = k
      BY <1>1, <1>4, <2>2
    <3> HIDE DEF from
    <3> QED BY <3>1
  <2> QED BY <1>4, <2>1, <2>2
<1> HIDE DEF from
<1>8. \A j \in 1..m : q[from(j)] \in 1..N
  <2> TAKE j \in 1..m
  <2>1. from(j) \in 1..Len(q) /\ from(j) # at
    BY Zenon, <1>5
  <2>2. q[from(j)] \in 1..(N + 1) /\ q[from(j)] # N + 1
    BY Zenon, <1>1, <1>3, <2>1
  <2> QED BY <2>2
<1>9. p \in Seq(1..N) /\ Len(p) = m /\ \A j \in 1..m : p[j] = q[from(j)]
  BY <1>4, <1>8
<1> HIDE DEF p
<1>10. ASSUME NEW j \in 1..m, NEW k \in 1..m, p[j] = p[k] PROVE j = k
  <2>1. from(j) \in 1..Len(q) /\ from(k) \in 1..Len(q) /\ q[from(j)] = q[from(k)]
    BY Zenon, <1>5, <1>9, <1>10
  <2>2. from(j) = from(k)
    BY Zenon, <1>1, <2>1
  <2> QED BY Zenon, <1>6, <2>2
<1>11. ASSUME NEW s \in 1..N PROVE \E j \in 1..m : p[j] = s
  <2>1. s \in 1..(N + 1) /\ s # N + 1
    OBVIOUS
  <2>2. PICK k \in 1..Len(q) : q[k] = s
    BY Zenon, <1>1, <2>1
  <2>3. k # at
    BY Zenon, <1>3, <2>1, <2>2
  <2> QED BY Zenon, <1>7, <1>9, <2>2, <2>3
<1>12. p \in Lists1To(N)
  BY Zenon, <1>9, <1>10, <1>11 DEF Lists1To
<1> QED BY Zenon, <1>9, <1>12

LEMMA ListLength ==
    ASSUME NEW N \in Nat, NEW q \in Lists1To(N)
    PROVE  Len(q) = N
<1> DEFINE T == {n \in Nat : \A p \in Lists1To(n) : Len(p) = n}
<1>1. 0 \in T
  <2>1. ASSUME NEW p \in Lists1To(0) PROVE Len(p) = 0
    <3>1. p \in Seq(1..0) /\ Len(p) \in Nat /\ \A k \in 1..Len(p) : p[k] \in 1..0
      BY DEF Lists1To
    <3>2. 1..0 = {}
      OBVIOUS
    <3>3. Len(p) # 0 => 1 \in 1..Len(p)
      BY <3>1
    <3> QED BY Zenon, <3>1, <3>2, <3>3
  <2> QED BY <2>1
<1>2. ASSUME NEW n \in Nat, n \in T PROVE n + 1 \in T
  <2>1. ASSUME NEW p \in Lists1To(n + 1) PROVE Len(p) = n + 1
    <3>1. PICK r \in Lists1To(n) : Len(r) = Len(p) - 1
      BY Zenon, <2>1, ListWithoutLast
    <3>2. Len(r) = n
      BY Zenon, <1>2
    <3>3. Len(p) \in Nat
      BY DEF Lists1To
    <3> QED BY <3>1, <3>2, <3>3
  <2> QED BY <2>1
<1> HIDE DEF T
<1>3. Nat \subseteq T
  BY Zenon, <1>1, <1>2, FromZeroUp
<1> QED BY Zenon, <1>3 DEF T

LEMMA ListStepInv ==
    ASSUME ListInv, dependsOn \in [Steps -> SUBSET Steps], NEW s \in Steps, ListStep(s)
    PROVE  ListInv'
<1> DEFINE n == Len(order)
           listed == Listed(order)
<1>1. /\ engine = "planning" /\ engine' = engine /\ s \in planReady /\ dependsOn' = dependsOn
      /\ order' = Append(order, s) /\ planReady' = (planReady \ {s}) \cup Released(s, listed \cup {s})
  BY Zenon DEF ListStep, IsLeast, definitionVars
<1>2. /\ order \in Seq(Steps) /\ n \in Nat
      /\ \A j, k \in 1..n : order[j] = order[k] => j = k
      /\ \A k \in 1..n : dependsOn[order[k]] \subseteq {order[j] : j \in 1..(k - 1)}
      /\ planReady = {t \in Steps : t \notin listed /\ dependsOn[t] \subseteq listed}
  BY <1>1 DEF ListInv, OrderInv
<1>3. s \notin listed /\ dependsOn[s] \subseteq listed
  BY Zenon, <1>1, <1>2
<1>4. /\ order' \in Seq(Steps) /\ Len(order') = n + 1 /\ order'[n + 1] = s
      /\ \A k \in 1..n : order'[k] = order[k]
  BY <1>1, <1>2
<1>5. listed = {order[k] : k \in 1..n}
  BY DEF Listed
<1> HIDE DEF n, listed
<1>6. \A k \in 1..(n + 1) : k \in 1..n \/ k = n + 1
  BY <1>2
<1>7. Listed(order') = listed \cup {s}
  <2>1. \A x : x \in Listed(order') <=> \E k \in 1..(n + 1) : x = order'[k]
    BY <1>4 DEF Listed
  <2>2. \A x : x \in listed <=> \E k \in 1..n : x = order[k]
    BY <1>5
  <2>3. \A k \in 1..n : k \in 1..(n + 1)
    BY <1>2
  <2>4. n + 1 \in 1..(n + 1)
    BY <1>2
  <2> QED BY <1>4, <1>6, <2>1, <2>2, <2>3, <2>4
<1>8. ASSUME NEW j \in 1..(n + 1), NEW k \in 1..(n + 1), order'[j] = order'[k] PROVE j = k
  <2>1. \A i \in 1..n : order[i] # s
    BY Zenon, <1>3, <1>5
  <2> QED BY Zenon, <1>2, <1>4, <1>6, <1>8, <2>1
<1>9. ASSUME NEW k \in 1..(n + 1)
      PROVE  dependsOn[order'[k]] \subseteq {order'[j] : j \in 1..(k - 1)}
  <2>1. CASE k \in 1..n
    <3>1. \A j \in 1..(k - 1) : order'[j] = order[j]
      BY <1>2, <1>4, <2>1
    <3>2. {order'[j] : j \in 1..(k - 1)} = {order[j] : j \in 1..(k - 1)}
      BY <3>1
    <3> QED BY Zenon, <1>2, <1>4, <2>1, <3>2
  <2>2. CASE k = n + 1
    <3>1. 1..(k - 1) = 1..n
      BY <1>2, <2>2
    <3>2. {order'[j] : j \in 1..(k - 1)} = listed
      BY Zenon, <1>4, <1>5, <3>1
    <3> QED BY Zenon, <1>3, <1>4, <2>2, <3>2
  <2> QED BY <1>6, <2>1, <2>2
<1>10. planReady' = {t \in Steps : t \notin Listed(order') /\ dependsOn[t] \subseteq Listed(order')}
  <2>1. ASSUME NEW t \in listed PROVE s \notin dependsOn[t]
    <3>1. PICK k \in 1..n : t = order[k]
      BY Zenon, <1>5, <2>1
    <3>2. {order[j] : j \in 1..(k - 1)} \subseteq listed
      BY <1>2, <1>5
    <3>3. dependsOn[t] \subseteq listed
      BY Zenon, <1>2, <3>1, <3>2
    <3> QED BY Zenon, <1>3, <3>3
  <2>2. \A t \in Steps : t \in planReady' <=>
           (t \in planReady /\ t # s) \/ (s \in dependsOn[t] /\ dependsOn[t] \subseteq listed \cup {s})
    BY Zenon, <1>1 DEF Released
  <2>3. planReady' \subseteq Steps
    BY Zenon, <1>1, <1>2 DEF Released
  <2>4. ASSUME NEW t \in Steps
        PROVE  t \in planReady' <=> t \notin listed /\ t # s /\ dependsOn[t] \subseteq listed \cup {s}
    <3>1. t \in planReady <=> t \notin listed /\ dependsOn[t] \subseteq listed
      BY Zenon, <1>2
    <3>2. s \notin dependsOn[s]
      BY Zenon, <1>3
    <3> QED BY <2>1, <2>2, <3>1, <3>2
  <2> QED BY Zenon, <1>7, <2>3, <2>4
<1>11. engine' = "planning"
  BY <1>1
<1>12. OrderInv'
  <2>1. 1..Len(order') = 1..(n + 1)
    BY Zenon, <1>4
  <2>2. \A k \in 1..Len(order') : dependsOn'[order'[k]] \subseteq {order'[j] : j \in 1..(k - 1)}
    BY Zenon, <1>1, <1>9, <2>1
  <2>3. \A j, k \in 1..Len(order') : order'[j] = order'[k] => j = k
    BY Zenon, <1>8, <2>1
  <2> QED BY Zenon, <1>4, <2>2, <2>3 DEF OrderInv
<1> QED BY Zenon, <1>1, <1>10, <1>11, <1>12 DEF ListInv, Before

\* Nothing is ready any more: every step is listed.
LEMMA FinishPlanInv ==
    ASSUME ListInv, SearchInv, FinishPlan
    PROVE  ListInv' /\ engine' = "planned"
<1>1. /\ engine = "planning" /\ planReady = {} /\ dependsOn' = dependsOn /\ order' = order
      /\ engine' = IF Len(order) = StepCount THEN "planned" ELSE "refused"
  BY Zenon DEF FinishPlan, definitionVars, planVars
<1>2. /\ order \in Seq(Steps) /\ Grounded(Steps)
      /\ \A j, k \in 1..Len(order) : order[j] = order[k] => j = k
      /\ \A t \in Steps : ~(t \notin Listed(order) /\ dependsOn[t] \subseteq Listed(order))
      /\ dependsOn \in [Steps -> SUBSET Steps]
  BY Zenon, <1>1 DEF ListInv, OrderInv, SearchInv, PathInv, Before
<1>3. Steps \subseteq Listed(order)
  <2> DEFINE T == Steps \ Listed(order)
  <2>1. SUFFICES ASSUME T # {} PROVE FALSE
    OBVIOUS
  <2>2. PICK t \in T : dependsOn[t] \cap T = {}
    BY Zenon, <1>2, <2>1 DEF Grounded
  <2>3. t \in Steps /\ t \notin Listed(order) /\ dependsOn[t] \subseteq Steps
    BY <1>2, <2>2
  <2>4. dependsOn[t] \subseteq Listed(order)
    BY Zenon, <2>2, <2>3
  <2> QED BY Zenon, <1>2, <2>3, <2>4
<1>4. Len(order) = StepCount
  <2>1. order \in Lists1To(StepCount)
    BY <1>2, <1>3 DEF Lists1To, Steps, Listed
  <2> QED BY Zenon, <2>1, ListLength, WorkflowAssumption
<1>5. engine' = "planned"
  BY Zenon, <1>1, <1>4
<1>6. OrderInv'
  BY <1>1 DEF ListInv, OrderInv
<1> QED BY Zenon, <1>1, <1>3, <1>4, <1>5, <1>6 DEF ListInv, Before

\* What is not about the plan leaves it.
LEMMA ListKept ==
    ASSUME ListInv, UNCHANGED <<dependsOn, order>>, engine' \in {"refused"} \cup Runs
    PROVE  ListInv'
<1>1. OrderInv'
  BY DEF ListInv, OrderInv
<1> QED BY Zenon, <1>1 DEF ListInv, Before, Runs

LEMMA ListEmpty ==
    ASSUME ListInv, engine \in Before, UNCHANGED order, dependsOn' \in [Steps -> SUBSET Steps],
           engine' \notin {"planned"},
           engine' = "planning" => planReady' = {s \in Steps : dependsOn'[s] = {}}
    PROVE  ListInv'
<1>1. order' = <<>> /\ Len(order') = 0 /\ 1..0 = {}
  BY DEF ListInv
<1>2. Listed(order') = {}
  BY Zenon, <1>1 DEF Listed
<1>3. engine' = "planning" =>
        planReady' = {t \in Steps : t \notin Listed(order') /\ dependsOn'[t] \subseteq Listed(order')}
  BY <1>2
<1>4. OrderInv'
  BY <1>1 DEF OrderInv
<1> QED BY Zenon, <1>1, <1>3, <1>4 DEF ListInv

-----------------------------------------------------------------------------
(* execute *)

\* A condition looks at the dependencies only.
LEMMA MatchedSame ==
    ASSUME NEW s, NEW st, NEW new, \A d \in dependsOn[s] : new[d] = st[d]
    PROVE  Matched(s, new) <=> Matched(s, st)
BY DEF Matched

LEMMA OpenOrOver == \A x : ~(x \in Open /\ x \in TerminalSteps)
BY DEF Open, TerminalSteps

\* new and st differ at s at most.
OnlyAt(s, new, st) == \A t \in Steps : t # s => new[t] = st[t]

\* A step that is over by st has ended as it should.
EndedWell(s, new, st) ==
    new[s] \in TerminalSteps =>
        /\ \A d \in dependsOn[s] : st[d] \in TerminalSteps
        /\ new[s] = "skipped" <=> ~Matched(s, st)

\* A step that is not over changes.
LEMMA ConsistentStep ==
    ASSUME NEW st, NEW new, NEW re, NEW s \in Steps, Consistent(st, re),
           st[s] \notin TerminalSteps, OnlyAt(s, new, st),
           dependsOn \in [Steps -> SUBSET Steps], EndedWell(s, new, st)
    PROVE  Consistent(new, re)
<1> SUFFICES ASSUME NEW t \in Steps, new[t] \in TerminalSteps, dependsOn[t] \cap re = {}
             PROVE  /\ \A d \in dependsOn[t] : new[d] \in TerminalSteps
                    /\ new[t] = "skipped" <=> ~Matched(t, new)
  BY Zenon DEF Consistent
<1>1. /\ \A d \in dependsOn[t] : st[d] \in TerminalSteps
      /\ new[t] = "skipped" <=> ~Matched(t, st)
  BY Zenon DEF Consistent, OnlyAt, EndedWell
<1>2. \A d \in dependsOn[t] : d \in Steps
  OBVIOUS
<1>3. \A d \in dependsOn[t] : new[d] = st[d]
  BY Zenon, <1>1, <1>2 DEF OnlyAt
<1> QED BY Zenon, <1>1, <1>3, MatchedSame

LEMMA ConsistentMore ==
    ASSUME NEW st, NEW re, NEW more, re \subseteq more, Consistent(st, re)
    PROVE  Consistent(st, more)
<1>1. \A t : dependsOn[t] \cap more = {} => dependsOn[t] \cap re = {}
  OBVIOUS
<1> QED BY Zenon, <1>1 DEF Consistent

LEMMA ConsistentOpen ==
    ASSUME NEW st, NEW re, \A s \in Steps : st[s] \notin TerminalSteps
    PROVE  Consistent(st, re)
BY Zenon DEF Consistent

LEMMA RestoredFacts ==
    ASSUME NEW from
    PROVE  /\ Restored(from) \in [Steps -> Open \cup TerminalSteps]
           /\ \A s \in Steps : /\ Restored(from)[s] # "running"
                               /\ from[s] = "succeeded" => Restored(from)[s] = "succeeded"
BY DEF Restored, Open, TerminalSteps

\* Skipped and succeeded steps are kept; those that depend on others are excused.
LEMMA RestoredConsistent ==
    ASSUME NEW from, NEW re, Consistent(from, re), dependsOn \in [Steps -> SUBSET Steps]
    PROVE  Consistent(Restored(from), re \cup {s \in Steps : from[s] \in {"failed", "canceled"}})
<1> DEFINE tried == {s \in Steps : from[s] \in {"failed", "canceled"}}
           new == Restored(from)
<1>1. /\ \A s \in Steps : new[s] \in TerminalSteps => from[s] \in {"succeeded", "skipped"}
      /\ \A s \in Steps : from[s] \in {"succeeded", "skipped"} => new[s] = from[s]
  BY DEF Restored, TerminalSteps
<1> HIDE DEF new
<1> SUFFICES ASSUME NEW t \in Steps, new[t] \in TerminalSteps, dependsOn[t] \cap (re \cup tried) = {}
             PROVE  /\ \A d \in dependsOn[t] : new[d] \in TerminalSteps
                    /\ new[t] = "skipped" <=> ~Matched(t, new)
  BY Zenon DEF Consistent, new
<1>2. /\ dependsOn[t] \cap re = {} /\ \A d \in dependsOn[t] : d \in Steps /\ d \notin tried
  OBVIOUS
<1>3. from[t] \in {"succeeded", "skipped"} /\ from[t] \in TerminalSteps /\ new[t] = from[t]
  BY Zenon, <1>1 DEF TerminalSteps
<1>4. /\ \A d \in dependsOn[t] : from[d] \in TerminalSteps
      /\ from[t] = "skipped" <=> ~Matched(t, from)
  BY Zenon, <1>2, <1>3 DEF Consistent
<1>5. \A d \in dependsOn[t] : from[d] \in {"succeeded", "skipped"}
  BY Zenon, <1>2, <1>4 DEF TerminalSteps
<1>6. \A d \in dependsOn[t] : new[d] = from[d]
  BY Zenon, <1>1, <1>2, <1>5
<1> QED BY Zenon, <1>3, <1>4, <1>6, MatchedSame

\* What a change of one step leaves to the steps of a round.
Undisturbed(rd, new, st) ==
    /\ \A t \in rd : \A d \in dependsOn[t] :
          /\ st[d] \in TerminalSteps /\ new[d] = st[d] /\ new[d] \in TerminalSteps
    /\ \A t \in rd : Matched(t, new) <=> Matched(t, st)
    /\ \A t \in Steps : st[t] = "succeeded" => new[t] = "succeeded"

LEMMA OthersStay ==
    ASSUME NEW rd, NEW st, NEW from, RoundOf(rd, st, from), NEW s \in rd, NEW new,
           OnlyAt(s, new, st), dependsOn \in [Steps -> SUBSET Steps]
    PROVE  st[s] \notin TerminalSteps /\ Undisturbed(rd, new, st)
<1>1. /\ rd \subseteq Steps /\ s \in Steps /\ st[s] \in Open /\ st[s] \notin TerminalSteps
  BY Zenon, OpenOrOver DEF RoundOf
<1>2. ASSUME NEW t \in rd, NEW d \in dependsOn[t]
      PROVE  st[d] \in TerminalSteps /\ new[d] = st[d] /\ new[d] \in TerminalSteps
  <2>1. d \in Steps
    BY <1>1
  <2>2. st[d] \in TerminalSteps
    BY Zenon DEF RoundOf
  <2> QED BY Zenon, <1>1, <2>1, <2>2 DEF OnlyAt
<1>3. \A t \in rd : Matched(t, new) <=> Matched(t, st)
  BY Zenon, <1>2, MatchedSame
<1>4. \A t \in Steps : st[t] = "succeeded" => new[t] = "succeeded"
  BY Zenon, <1>1 DEF TerminalSteps, OnlyAt
<1> QED BY Zenon, <1>1, <1>2, <1>3, <1>4 DEF Undisturbed

\* The invariant after a step of a run, in terms of the graph before it.
LEMMA RunInvNext ==
    ASSUME UNCHANGED <<dependsOn, condition>>, engine' \notin Before,
           stepStatus' \in [Steps -> Open \cup TerminalSteps],
           Consistent(stepStatus', reopened'), Consistent(checkpoint', reopened'),
           Consistent(continuation', reopened'),
           engine' = "running" => RoundOf(round', stepStatus', Saved'),
           engine' = "ended" => \A s \in Steps : stepStatus'[s] \in TerminalSteps
    PROVE  RunInv'
<1>1. /\ Consistent(stepStatus, reopened)' /\ Consistent(checkpoint, reopened)'
      /\ Consistent(continuation, reopened)'
  BY Zenon DEF Consistent, Matched
<1>2. engine' = "running" => RoundOf(round, stepStatus, Saved)'
  BY Zenon DEF RoundOf, Matched
<1> QED BY Zenon, <1>1, <1>2 DEF RunInv

LEMMA RunFacts ==
    ASSUME RunInv
    PROVE  /\ stepStatus \in [Steps -> Open \cup TerminalSteps]
           /\ Consistent(stepStatus, reopened) /\ Consistent(checkpoint, reopened)
           /\ Consistent(continuation, reopened)
           /\ engine = "running" => RoundOf(round, stepStatus, Saved)
BY Zenon DEF RunInv

\* What saveCheckpoint leaves.
LEMMA SavesFacts ==
    ASSUME NEW st, NEW then, SavesOr(st, then)
    PROVE  /\ checkpoint' \in {checkpoint, st, TornCheckpoint}
           /\ engine' \in {then, "stopped"}
           /\ engine' = then /\ then # "stopped" => checkpoint' = IF sourced THEN checkpoint ELSE st
BY Zenon DEF SavesOr

LEMMA TornIsConsistent ==
    ASSUME NEW re
    PROVE  Consistent(TornCheckpoint, re)
<1>1. \A s \in Steps : TornCheckpoint[s] \notin TerminalSteps
  BY DEF TornCheckpoint, TerminalSteps
<1> QED BY Zenon, <1>1, ConsistentOpen

LEMMA StepEndsInv ==
    ASSUME RunInv, dependsOn \in [Steps -> SUBSET Steps], NEW s \in Steps, Turn(s),
           NEW x \in TerminalSteps, x = "skipped" <=> ~Matched(s, stepStatus), StepEnds(s, x)
    PROVE  RunInv' /\ engine' \in Runs
<1>1. /\ engine = "running" /\ s \in round /\ RoundOf(round, stepStatus, Saved)
      /\ UNCHANGED <<dependsOn, condition>> /\ SavesOr(stepStatus', "running")
      /\ stepStatus' = [stepStatus EXCEPT ![s] = x] /\ round' = round \ {s}
      /\ continuation' = continuation /\ sourced' = sourced /\ reopened' = reopened
  BY Zenon, RunFacts DEF Turn, IsLeast, StepEnds, definitionVars
<1>2. /\ stepStatus' \in [Steps -> Open \cup TerminalSteps] /\ stepStatus'[s] = x
      /\ OnlyAt(s, stepStatus', stepStatus)
  <2>1. stepStatus \in [Steps -> Open \cup TerminalSteps]
    BY Zenon, RunFacts
  <2> QED BY <1>1, <2>1 DEF OnlyAt
<1>3. stepStatus[s] \notin TerminalSteps /\ Undisturbed(round, stepStatus', stepStatus)
  BY Zenon, <1>1, <1>2, OthersStay
<1>4. Consistent(stepStatus', reopened)
  <2>1. EndedWell(s, stepStatus', stepStatus)
    BY Zenon, <1>1, <1>2, <1>3 DEF EndedWell, Undisturbed
  <2> QED BY Zenon, <1>2, <1>3, <2>1, RunFacts, ConsistentStep
<1>5. /\ checkpoint' \in {checkpoint, stepStatus', TornCheckpoint} /\ engine' \in {"running", "stopped"}
      /\ engine' = "running" => checkpoint' = IF sourced THEN checkpoint ELSE stepStatus'
  BY Zenon, <1>1, SavesFacts
<1>6. Consistent(checkpoint', reopened)
  BY Zenon, <1>4, <1>5, RunFacts, TornIsConsistent
<1>7. ASSUME engine' = "running" PROVE RoundOf(round', stepStatus', Saved')
  <2>1. \A t \in round' : t \in round /\ t # s /\ t \in Steps
    BY Zenon, <1>1 DEF RoundOf
  <2>2. \A t \in round' : /\ stepStatus'[t] \in Open
                          /\ stepStatus'[t] = "running" => Matched(t, stepStatus')
    BY Zenon, <1>1, <1>2, <1>3, <2>1 DEF RoundOf, OnlyAt, Undisturbed
  <2>3. \A t \in Steps : stepStatus'[t] = "running" => t \in round'
    <3>1. x # "running"
      BY DEF TerminalSteps
    <3> QED BY Zenon, <1>1, <1>2, <3>1 DEF RoundOf, OnlyAt
  <2>4. \A t \in Steps : Saved'[t] = "succeeded" => stepStatus'[t] = "succeeded"
    <3>1. CASE sourced
      <4>1. Saved' = Saved
        BY Zenon, <1>1, <1>5, <1>7, <3>1 DEF Saved
      <4> QED BY Zenon, <1>1, <1>3, <4>1 DEF RoundOf, Undisturbed
    <3>2. CASE ~sourced
      <4>1. Saved' = stepStatus'
        BY Zenon, <1>1, <1>5, <1>7, <3>2 DEF Saved
      <4> QED BY Zenon, <4>1
    <3> QED BY Zenon, <3>1, <3>2
  <2> QED BY Zenon, <1>3, <2>1, <2>2, <2>3, <2>4 DEF RoundOf, Undisturbed
<1>8. engine' \notin Before /\ engine' # "ended" /\ engine' \in Runs
  BY Zenon, <1>5 DEF Before, Runs
<1>9. RunInv'
  BY Zenon, <1>1, <1>2, <1>4, <1>6, <1>7, <1>8, RunFacts, RunInvNext
<1> QED BY Zenon, <1>8, <1>9

LEMMA DispatchInv ==
    ASSUME RunInv, dependsOn \in [Steps -> SUBSET Steps], NEW s \in Steps, DispatchStep(s)
    PROVE  RunInv' /\ engine' \in Runs
<1>1. /\ engine = "running" /\ engine' = engine /\ s \in round /\ RoundOf(round, stepStatus, Saved)
      /\ UNCHANGED <<dependsOn, condition, round, checkpoint, continuation, sourced, reopened>>
      /\ stepStatus' = [stepStatus EXCEPT ![s] = "running"] /\ Matched(s, stepStatus)
  BY Zenon, RunFacts DEF DispatchStep, Turn, IsLeast, definitionVars
<1>2. /\ stepStatus' \in [Steps -> Open \cup TerminalSteps] /\ stepStatus'[s] = "running"
      /\ OnlyAt(s, stepStatus', stepStatus)
  <2>1. stepStatus \in [Steps -> Open \cup TerminalSteps] /\ "running" \in Open
    BY Zenon, RunFacts DEF Open
  <2> QED BY <1>1, <2>1 DEF OnlyAt
<1>3. stepStatus[s] \notin TerminalSteps /\ Undisturbed(round, stepStatus', stepStatus)
  BY Zenon, <1>1, <1>2, OthersStay
<1>4. "running" \notin TerminalSteps /\ "running" \in Open /\ "running" \notin Before /\ "running" \in Runs
  BY DEF TerminalSteps, Open, Before, Runs
<1>5. Consistent(stepStatus', reopened)
  <2>1. EndedWell(s, stepStatus', stepStatus)
    BY Zenon, <1>2, <1>4 DEF EndedWell
  <2> QED BY Zenon, <1>2, <1>3, <2>1, RunFacts, ConsistentStep
<1>6. RoundOf(round', stepStatus', Saved')
  <2>1. Saved' = Saved /\ round' = round
    BY Zenon, <1>1 DEF Saved
  <2>2. \A t \in round : /\ stepStatus'[t] \in Open
                         /\ stepStatus'[t] = "running" => Matched(t, stepStatus')
    <3> TAKE t \in round
    <3>1. CASE t = s
      BY Zenon, <1>1, <1>2, <1>3, <1>4, <3>1 DEF Undisturbed
    <3>2. CASE t # s
      BY Zenon, <1>1, <1>2, <1>3, <3>2 DEF RoundOf, OnlyAt, Undisturbed
    <3> QED BY Zenon, <3>1, <3>2
  <2>3. round \subseteq Steps /\ \A t \in Steps : stepStatus'[t] = "running" => t \in round
    BY Zenon, <1>1, <1>2 DEF RoundOf, OnlyAt
  <2>4. \A t \in Steps : Saved[t] = "succeeded" => stepStatus'[t] = "succeeded"
    BY Zenon, <1>1, <1>3 DEF RoundOf, Undisturbed
  <2> QED BY Zenon, <1>3, <2>1, <2>2, <2>3, <2>4 DEF RoundOf, Undisturbed
<1>7. engine' \notin Before /\ engine' # "ended" /\ engine' \in Runs
  BY Zenon, <1>1, <1>4
<1>8. RunInv'
  BY Zenon, <1>1, <1>2, <1>5, <1>6, <1>7, RunFacts, RunInvNext
<1> QED BY Zenon, <1>7, <1>8

\* The other ends of a step.
LEMMA StepActionsInv ==
    ASSUME RunInv, dependsOn \in [Steps -> SUBSET Steps], NEW s \in Steps,
           SkipStep(s) \/ StepSucceeds(s) \/ StepFails(s)
    PROVE  RunInv' /\ engine' \in Runs
<1>1. /\ "skipped" \in TerminalSteps /\ "succeeded" \in TerminalSteps /\ "failed" \in TerminalSteps
      /\ "canceled" \in TerminalSteps
  BY DEF TerminalSteps
<1>2. CASE SkipStep(s)
  <2>1. Turn(s) /\ ~Matched(s, stepStatus) /\ StepEnds(s, "skipped")
    BY Zenon, <1>2 DEF SkipStep
  <2> QED BY Zenon, <1>1, <2>1, StepEndsInv
<1>3. CASE StepSucceeds(s) \/ StepFails(s)
  <2>1. PICK x \in {"succeeded", "failed", "canceled"} :
          Turn(s) /\ stepStatus[s] = "running" /\ StepEnds(s, x)
    BY Zenon, <1>3 DEF StepSucceeds, StepFails, Attempting
  <2>2. Matched(s, stepStatus)
    BY Zenon, <2>1, RunFacts DEF Turn, IsLeast, RoundOf
  <2>3. x \in TerminalSteps /\ x # "skipped"
    BY DEF TerminalSteps
  <2> QED BY Zenon, <2>1, <2>2, <2>3, StepEndsInv
<1> QED BY Zenon, <1>2, <1>3

LEMMA PauseInv ==
    ASSUME RunInv, dependsOn \in [Steps -> SUBSET Steps], NEW s \in Steps, PauseRun(s)
    PROVE  RunInv' /\ engine' \in Runs
<1>1. /\ engine = "running" /\ s \in round /\ RoundOf(round, stepStatus, Saved)
      /\ UNCHANGED <<dependsOn, condition, checkpoint, reopened>> /\ engine' = "paused"
      /\ stepStatus' = [stepStatus EXCEPT ![s] = "pending"] /\ continuation' = stepStatus'
  BY Zenon, RunFacts DEF PauseRun, Attempting, Turn, IsLeast, definitionVars
<1>2. /\ stepStatus' \in [Steps -> Open \cup TerminalSteps] /\ stepStatus'[s] = "pending"
      /\ OnlyAt(s, stepStatus', stepStatus)
  <2>1. stepStatus \in [Steps -> Open \cup TerminalSteps] /\ "pending" \in Open
    BY Zenon, RunFacts DEF Open
  <2> QED BY <1>1, <2>1 DEF OnlyAt
<1>3. stepStatus[s] \notin TerminalSteps
  BY Zenon, <1>1, <1>2, OthersStay
<1>4. Consistent(stepStatus', reopened)
  <2>1. EndedWell(s, stepStatus', stepStatus)
    BY Zenon, <1>2 DEF EndedWell, TerminalSteps
  <2> QED BY Zenon, <1>2, <1>3, <2>1, RunFacts, ConsistentStep
<1>5. engine' \notin Before /\ engine' \in Runs /\ engine' # "running" /\ engine' # "ended"
  BY Zenon, <1>1 DEF Before, Runs
<1>6. RunInv'
  BY Zenon, <1>1, <1>2, <1>4, <1>5, RunFacts, RunInvNext
<1> QED BY Zenon, <1>5, <1>6

LEMMA StartRoundInv ==
    ASSUME RunInv, StartRound
    PROVE  RunInv' /\ engine' \in Runs
<1>1. /\ engine = "running" /\ engine' = engine /\ round = {} /\ round' = Ready(stepStatus)
      /\ UNCHANGED <<dependsOn, condition, stepStatus, checkpoint, continuation, sourced, reopened>>
      /\ RoundOf({}, stepStatus, Saved)
  BY Zenon, RunFacts DEF StartRound, definitionVars
<1>2. \A s \in Steps : stepStatus[s] # "running"
  BY Zenon, <1>1 DEF RoundOf
<1>3. RoundOf(Ready(stepStatus), stepStatus, Saved)
  <2>1. /\ Ready(stepStatus) \subseteq Steps
        /\ \A s \in Ready(stepStatus) : /\ stepStatus[s] = "pending" /\ stepStatus[s] \in Open
                                        /\ \A d \in dependsOn[s] : stepStatus[d] \in TerminalSteps
    BY Zenon DEF Ready, Open
  <2> QED BY Zenon, <1>1, <1>2, <2>1 DEF RoundOf
<1>4. Saved' = Saved /\ engine' \notin Before /\ engine' \in Runs /\ engine' # "ended"
  BY Zenon, <1>1 DEF Saved, Before, Runs
<1>5. RunInv'
  BY Zenon, <1>1, <1>3, <1>4, RunFacts, RunInvNext
<1> QED BY Zenon, <1>4, <1>5

\* No step is ready and none runs: all are over, or those that are not wait for
\* each other.
LEMMA FinishRunInv ==
    ASSUME RunInv, SearchInv, FinishRun
    PROVE  RunInv' /\ engine' \in Runs
<1>1. /\ engine = "running" /\ round = {} /\ Ready(stepStatus) = {} /\ SavesOr(stepStatus, "ended")
      /\ UNCHANGED <<dependsOn, condition, stepStatus, round, continuation, sourced, reopened>>
      /\ RoundOf({}, stepStatus, Saved) /\ stepStatus \in [Steps -> Open \cup TerminalSteps]
  BY Zenon, RunFacts DEF FinishRun, definitionVars
<1>2. Grounded(Steps) /\ dependsOn \in [Steps -> SUBSET Steps]
  BY Zenon, <1>1 DEF SearchInv, PathInv, Before
<1>3. \A s \in Steps : stepStatus[s] \in TerminalSteps
  <2> DEFINE T == {s \in Steps : stepStatus[s] \notin TerminalSteps}
  <2>1. SUFFICES ASSUME T # {} PROVE FALSE
    BY Zenon
  <2>2. PICK t \in T : dependsOn[t] \cap T = {}
    BY Zenon, <1>2, <2>1 DEF Grounded
  <2>3. \A d \in dependsOn[t] : d \in Steps
    BY <1>2
  <2>4. \A d \in dependsOn[t] : stepStatus[d] \in TerminalSteps
    BY Zenon, <2>2, <2>3
  <2>5. stepStatus[t] = "pending"
    <3>1. stepStatus[t] \in Open \cup TerminalSteps /\ stepStatus[t] \notin TerminalSteps
      BY <1>1
    <3> QED BY Zenon, <1>1, <3>1 DEF Open, RoundOf
  <2> QED BY Zenon, <1>1, <2>4, <2>5 DEF Ready
<1>4. checkpoint' \in {checkpoint, stepStatus, TornCheckpoint} /\ engine' \in {"ended", "stopped"}
  BY Zenon, <1>1, SavesFacts
<1>5. Consistent(checkpoint', reopened)
  BY Zenon, <1>4, RunFacts, TornIsConsistent
<1>6. engine' \notin Before /\ engine' \in Runs /\ engine' # "running"
  BY Zenon, <1>4 DEF Before, Runs
<1>7. RunInv'
  BY Zenon, <1>1, <1>3, <1>5, <1>6, RunFacts, RunInvNext
<1> QED BY Zenon, <1>6, <1>7

\* A retry, a cancellation and a crash leave the results.
LEMMA ResultsKept ==
    ASSUME RunInv, (\E s \in Steps : RetryStep(s)) \/ CancelRun \/ CrashRun
    PROVE  RunInv' /\ engine' \in Runs
<1>1. /\ engine = "running" /\ engine' \in {"running", "stopped"}
      /\ UNCHANGED <<dependsOn, condition, stepStatus, round, checkpoint, continuation, sourced, reopened>>
  BY Zenon DEF RetryStep, Attempting, Turn, CancelRun, CrashRun, definitionVars
<1>2. Saved' = Saved /\ engine' \notin Before /\ engine' \in Runs /\ engine' # "ended"
  BY Zenon, <1>1 DEF Saved, Before, Runs
<1>3. RunInv'
  BY Zenon, <1>1, <1>2, RunFacts, RunInvNext
<1> QED BY Zenon, <1>2, <1>3

LEMMA ResumesInv ==
    ASSUME RunInv, dependsOn \in [Steps -> SUBSET Steps], ResumeRun \/ ResumePaused
    PROVE  RunInv' /\ engine' \in Runs
<1>1. PICK from \in {checkpoint, continuation} :
        /\ engine' = "running" /\ round' = {} /\ stepStatus' = Restored(from)
        /\ UNCHANGED <<dependsOn, condition, checkpoint, continuation>>
        /\ reopened' = reopened \cup {s \in Steps : from[s] \in {"failed", "canceled"}}
        /\ Saved' = from
  <2>1. CASE ResumeRun
    <3>1. Resumes(checkpoint, FALSE)
      BY Zenon, <2>1 DEF ResumeRun
    <3> QED BY Zenon, <3>1 DEF Resumes, Saved, definitionVars
  <2>2. CASE ResumePaused
    <3>1. Resumes(continuation, TRUE)
      BY Zenon, <2>2 DEF ResumePaused
    <3> QED BY Zenon, <3>1 DEF Resumes, Saved, definitionVars
  <2> QED BY Zenon, <2>1, <2>2
<1>2. Consistent(from, reopened) /\ Consistent(stepStatus', reopened') /\ reopened \subseteq reopened'
  BY Zenon, <1>1, RunFacts, RestoredConsistent
<1>3. Consistent(checkpoint', reopened') /\ Consistent(continuation', reopened')
  BY Zenon, <1>1, <1>2, RunFacts, ConsistentMore
<1>4. /\ stepStatus' \in [Steps -> Open \cup TerminalSteps]
      /\ RoundOf({}, stepStatus', from)
  BY Zenon, <1>1, RestoredFacts DEF RoundOf
<1>5. engine' \notin Before /\ engine' \in Runs /\ engine' # "ended"
  BY Zenon, <1>1 DEF Before, Runs
<1>6. RunInv'
  BY Zenon, <1>1, <1>2, <1>3, <1>4, <1>5, RunInvNext
<1> QED BY Zenon, <1>5, <1>6

\* Before a run there are no results.
LEMMA NoResults ==
    ASSUME RunInv, engine \in Before, UNCHANGED runVars, engine' # "ended"
    PROVE  RunInv'
<1>1. /\ stepStatus' = AllPending /\ continuation' = AllPending /\ checkpoint' = NoCheckpoint
      /\ round' = {} /\ sourced' = FALSE
  BY Zenon DEF RunInv, runVars
<1>2. /\ AllPending \in [Steps -> Open \cup TerminalSteps]
      /\ \A s \in Steps : AllPending[s] = "pending" /\ NoCheckpoint[s] = "none"
  BY DEF AllPending, NoCheckpoint, Open
<1>3. \A s \in Steps : AllPending[s] \notin TerminalSteps /\ NoCheckpoint[s] \notin TerminalSteps
  BY <1>2 DEF TerminalSteps
<1>4. /\ Consistent(stepStatus, reopened)' /\ Consistent(checkpoint, reopened)'
      /\ Consistent(continuation, reopened)'
  BY Zenon, <1>1, <1>3 DEF Consistent
<1>5. RoundOf(round, stepStatus, Saved)'
  <2>1. Saved' = NoCheckpoint
    BY Zenon, <1>1 DEF Saved
  <2>2. \A s \in Steps : AllPending[s] # "running" /\ NoCheckpoint[s] # "succeeded"
    BY <1>2
  <2> QED BY Zenon, <1>1, <2>1, <2>2 DEF RoundOf
<1> QED BY Zenon, <1>1, <1>2, <1>4, <1>5 DEF RunInv

LEMMA RunUntouched ==
    ASSUME RunInv, UNCHANGED <<dependsOn, condition>>, UNCHANGED runVars,
           engine' \in {"planning", "planned"}
    PROVE  RunInv'
<1>1. UNCHANGED <<stepStatus, round, checkpoint, continuation, sourced, reopened>>
  BY Zenon DEF runVars
<1>2. engine' \notin Before /\ engine' # "running" /\ engine' # "ended"
  BY Zenon DEF Before
<1>3. /\ stepStatus \in [Steps -> Open \cup TerminalSteps] /\ Consistent(stepStatus, reopened)
      /\ Consistent(checkpoint, reopened) /\ Consistent(continuation, reopened)
  BY Zenon DEF RunInv
<1> QED BY Zenon, <1>1, <1>2, <1>3, RunInvNext

-----------------------------------------------------------------------------
(* The invariant *)

LEMMA WorkflowStarts == WorkflowInit => WorkflowInv
<1> SUFFICES ASSUME WorkflowInit PROVE WorkflowInv
  OBVIOUS
<1>1. engine = "idle" /\ engine \in Before /\ engine \in Engines
  BY Zenon DEF WorkflowInit, Before, Engines
<1>2. PathInv
  BY DEF WorkflowInit, PathInv
<1>3. /\ FollowedInv /\ Finished = {}
  BY DEF WorkflowInit, FollowedInv, Finished
<1>4. Grounded(Finished)
  BY <1>3 DEF Grounded
<1>5. SearchInv
  BY Zenon, <1>1, <1>2, <1>3, <1>4 DEF SearchInv, WorkflowInit
<1>6. ListInv
  <2>1. OrderInv
    BY DEF WorkflowInit, OrderInv
  <2> QED BY Zenon, <1>1, <2>1 DEF ListInv, WorkflowInit
<1>7. RunInv
  <2>1. /\ stepStatus = AllPending /\ continuation = AllPending /\ checkpoint = NoCheckpoint
        /\ round = {} /\ sourced = FALSE
    BY Zenon DEF WorkflowInit
  <2>2. /\ AllPending \in [Steps -> Open \cup TerminalSteps]
        /\ \A s \in Steps : AllPending[s] \notin TerminalSteps /\ NoCheckpoint[s] \notin TerminalSteps
    BY DEF AllPending, NoCheckpoint, Open, TerminalSteps
  <2>3. /\ Consistent(stepStatus, reopened) /\ Consistent(checkpoint, reopened)
        /\ Consistent(continuation, reopened)
    BY Zenon, <2>1, <2>2 DEF Consistent
  <2> QED BY Zenon, <1>1, <2>1, <2>2, <2>3 DEF RunInv
<1> QED BY Zenon, <1>1, <1>5, <1>6, <1>7 DEF WorkflowInv

LEMMA SubmitKeeps ==
    ASSUME WorkflowInv, NEW deps \in [Steps -> SUBSET Steps], NEW conds, NEW asked,
           SubmitWorkflow(deps, conds, asked)
    PROVE  WorkflowInv'
<1>1. /\ SearchInv /\ ListInv /\ RunInv
      /\ engine \in Before /\ engine' \in {"refused", "validating"} /\ UNCHANGED runVars
      /\ dependsOn' \in [Steps -> SUBSET Steps] /\ order' = order
  BY Zenon DEF WorkflowInv, SubmitWorkflow, Before, planVars
<1>2. engine' \in Engines /\ engine' # "ended" /\ engine' \notin {"planned"} /\ engine' # "planning"
  BY Zenon, <1>1 DEF Engines, Before
<1> QED BY Zenon, <1>1, <1>2, SubmitInv, ListEmpty, NoResults DEF WorkflowInv

LEMMA SearchKeeps ==
    ASSUME WorkflowInv, (\E s \in Steps : VisitNext(s) \/ FollowDependency(s)) \/ LeaveStep
    PROVE  WorkflowInv'
<1>1. /\ SearchInv /\ ListInv /\ RunInv /\ dependsOn' = dependsOn
      /\ engine \in Before /\ engine' \in {"refused", "validating"} /\ UNCHANGED runVars
      /\ order' = order
  BY Zenon DEF WorkflowInv, VisitNext, FollowDependency, LeaveStep, Before, definitionVars
<1>2. engine' \in Engines /\ engine' # "ended" /\ engine' \notin {"planned"} /\ engine' # "planning"
  BY Zenon, <1>1 DEF Engines, Before
<1>3. dependsOn' \in [Steps -> SUBSET Steps]
  BY Zenon, <1>1 DEF SearchInv, PathInv
<1>4. SearchInv'
  BY Zenon, <1>1, VisitNextInv, FollowInv, LeaveInv
<1> QED BY Zenon, <1>1, <1>2, <1>3, <1>4, ListEmpty, NoResults DEF WorkflowInv

LEMMA ValidatedKeeps ==
    ASSUME WorkflowInv, Validated
    PROVE  WorkflowInv'
<1>1. /\ SearchInv /\ ListInv /\ RunInv /\ dependsOn' = dependsOn
      /\ engine \in Before /\ engine' \in {"planning", "running"} /\ UNCHANGED runVars
      /\ UNCHANGED <<dependsOn, visited, path, unfollowed>> /\ order' = order
  BY Zenon DEF WorkflowInv, Validated, Before, definitionVars
<1>2. /\ engine' \in Engines /\ engine' # "ended" /\ engine' \notin {"planned"}
      /\ engine' # "refused" /\ engine' \notin Before
  BY Zenon, <1>1 DEF Engines, Before, Runs
<1>3. engine' = "planning" => planReady' = {s \in Steps : dependsOn'[s] = {}}
  <2>1. engine' = "planning" => request = "plan"
    BY Zenon DEF Validated
  <2> QED BY Zenon, <1>1, <2>1 DEF Validated
<1>4. dependsOn' \in [Steps -> SUBSET Steps]
  BY Zenon, <1>1 DEF SearchInv, PathInv
<1>5. SearchInv'
  BY Zenon, <1>1, <1>2, ValidatedGrounds, SearchKept
<1> QED BY Zenon, <1>1, <1>2, <1>3, <1>4, <1>5, ListEmpty, NoResults DEF WorkflowInv

LEMMA PlanKeeps ==
    ASSUME WorkflowInv, (\E s \in Steps : ListStep(s)) \/ FinishPlan
    PROVE  WorkflowInv'
<1>1. /\ SearchInv /\ ListInv /\ RunInv /\ UNCHANGED <<dependsOn, condition>>
      /\ engine = "planning" /\ UNCHANGED runVars /\ UNCHANGED <<dependsOn, visited, path, unfollowed>>
  BY Zenon DEF WorkflowInv, ListStep, FinishPlan, definitionVars, planVars
<1>2. dependsOn \in [Steps -> SUBSET Steps]
  BY Zenon, <1>1 DEF SearchInv, PathInv
<1>3. ListInv' /\ engine' \in {"planning", "planned"}
  <2>1. ASSUME NEW s \in Steps, ListStep(s) PROVE ListInv' /\ engine' = "planning"
    BY Zenon, <1>1, <1>2, <2>1, ListStepInv DEF ListStep
  <2>2. ASSUME FinishPlan PROVE ListInv' /\ engine' = "planned"
    BY Zenon, <1>1, <2>2, FinishPlanInv
  <2> QED BY Zenon, <2>1, <2>2
<1>4. /\ engine' \in Engines /\ engine' # "refused" /\ engine' \notin Before
      /\ engine \notin Before \cup {"refused"}
  BY Zenon, <1>1, <1>3 DEF Engines, Before
<1>5. SearchInv'
  BY Zenon, <1>1, <1>4, SearchKept
<1>6. RunInv'
  BY Zenon, <1>1, <1>3, RunUntouched
<1> QED BY Zenon, <1>3, <1>4, <1>5, <1>6 DEF WorkflowInv

\* The steps of a run.
RunStep ==
    \/ StartRound \/ FinishRun \/ CancelRun \/ CrashRun \/ ResumeRun \/ ResumePaused
    \/ \E s \in Steps : \/ SkipStep(s) \/ DispatchStep(s) \/ StepSucceeds(s) \/ StepFails(s)
                        \/ RetryStep(s) \/ PauseRun(s)

LEMMA RunStepFrame ==
    ASSUME RunStep
    PROVE  engine \in Runs /\ UNCHANGED <<definitionVars, planVars>>
<1>1. ASSUME NEW s \in Steps, NEW x, Turn(s), StepEnds(s, x)
      PROVE  engine \in Runs /\ UNCHANGED <<definitionVars, planVars>>
  BY Zenon, <1>1 DEF Turn, StepEnds, Runs
<1>2. ASSUME NEW s \in Steps, SkipStep(s) \/ StepSucceeds(s) \/ StepFails(s)
      PROVE  engine \in Runs /\ UNCHANGED <<definitionVars, planVars>>
  BY Zenon, <1>1, <1>2 DEF SkipStep, StepSucceeds, StepFails, Attempting
<1>3. ASSUME NEW s \in Steps, DispatchStep(s) \/ RetryStep(s) \/ PauseRun(s)
      PROVE  engine \in Runs /\ UNCHANGED <<definitionVars, planVars>>
  BY Zenon, <1>3 DEF DispatchStep, RetryStep, PauseRun, Attempting, Turn, Runs
<1>4. ASSUME StartRound \/ FinishRun \/ CancelRun \/ CrashRun
      PROVE  engine \in Runs /\ UNCHANGED <<definitionVars, planVars>>
  BY Zenon, <1>4 DEF StartRound, FinishRun, CancelRun, CrashRun, Runs
<1>5. ASSUME ResumeRun \/ ResumePaused
      PROVE  engine \in Runs /\ UNCHANGED <<definitionVars, planVars>>
  BY Zenon, <1>5 DEF ResumeRun, ResumePaused, Resumes, Runs
<1> QED BY Zenon, <1>2, <1>3, <1>4, <1>5 DEF RunStep

LEMMA RunKeeps ==
    ASSUME WorkflowInv, RunStep
    PROVE  WorkflowInv'
<1>1. /\ SearchInv /\ ListInv /\ RunInv /\ engine \in Runs
      /\ UNCHANGED <<dependsOn, visited, path, unfollowed>> /\ UNCHANGED <<dependsOn, order>>
  BY Zenon, RunStepFrame DEF WorkflowInv, definitionVars, planVars
<1>2. dependsOn \in [Steps -> SUBSET Steps]
  BY Zenon, <1>1 DEF SearchInv, PathInv
<1>3. RunInv' /\ engine' \in Runs
  BY Zenon, <1>1, <1>2, StepActionsInv, PauseInv, StartRoundInv, FinishRunInv, ResultsKept, ResumesInv,
     DispatchInv DEF RunStep
<1>4. /\ engine' \in Engines /\ engine' # "refused" /\ engine' \notin Before
      /\ engine \notin Before \cup {"refused"}
  BY Zenon, <1>1, <1>3 DEF Engines, Before, Runs
<1>5. SearchInv'
  BY Zenon, <1>1, <1>4, SearchKept
<1>6. ListInv'
  BY Zenon, <1>1, <1>3, ListKept
<1> QED BY Zenon, <1>3, <1>4, <1>5, <1>6 DEF WorkflowInv

LEMMA WorkflowStays == ASSUME WorkflowInv, UNCHANGED workflowVars PROVE WorkflowInv'
<1>1. /\ UNCHANGED <<dependsOn, condition, visited, path, unfollowed, planReady, order, engine>>
      /\ UNCHANGED <<stepStatus, round, checkpoint, continuation, sourced, reopened>>
  BY Zenon DEF workflowVars, definitionVars, planVars, runVars
<1>2. SearchInv'
  BY <1>1 DEF WorkflowInv, SearchInv, PathInv, FollowedInv, Finished, Grounded
<1>3. ListInv'
  BY <1>1 DEF WorkflowInv, ListInv, OrderInv, Listed
<1>4. RunInv'
  <2>1. /\ Consistent(stepStatus, reopened) /\ Consistent(checkpoint, reopened)
        /\ Consistent(continuation, reopened)
    BY Zenon DEF WorkflowInv, RunInv
  <2>2. /\ Consistent(stepStatus, reopened)' /\ Consistent(checkpoint, reopened)'
        /\ Consistent(continuation, reopened)'
    <3>1. /\ Consistent(stepStatus', reopened') /\ Consistent(checkpoint', reopened')
          /\ Consistent(continuation', reopened') /\ UNCHANGED <<dependsOn, condition>>
      BY Zenon, <1>1, <2>1
    <3> QED BY Zenon, <3>1 DEF Consistent, Matched
  <2>3. engine' = "running" => RoundOf(round, stepStatus, Saved)'
    BY ZenonT(60), <1>1 DEF WorkflowInv, RunInv, RoundOf, Saved, Matched
  <2> QED BY Zenon, <1>1, <2>2, <2>3 DEF WorkflowInv, RunInv
<1> QED BY Zenon, <1>1, <1>2, <1>3, <1>4 DEF WorkflowInv

LEMMA WorkflowSteps ==
    ASSUME WorkflowNext
    PROVE  \/ \E deps \in [Steps -> SUBSET Steps], conds \in Conditionings, asked \in {"plan", "run"} :
                SubmitWorkflow(deps, conds, asked)
           \/ (\E s \in Steps : VisitNext(s) \/ FollowDependency(s)) \/ LeaveStep
           \/ Validated
           \/ (\E s \in Steps : ListStep(s)) \/ FinishPlan
           \/ RunStep
BY Zenon DEF WorkflowNext, EngineStep, RunStep

LEMMA WorkflowKeeps == WorkflowInv /\ [WorkflowNext]_workflowVars => WorkflowInv'
<1> SUFFICES ASSUME WorkflowInv, [WorkflowNext]_workflowVars PROVE WorkflowInv'
  OBVIOUS
<1>1. CASE WorkflowNext
  BY Zenon, <1>1, WorkflowSteps, SubmitKeeps, SearchKeeps, ValidatedKeeps, PlanKeeps, RunKeeps
<1>2. CASE UNCHANGED workflowVars
  BY Zenon, <1>2, WorkflowStays
<1> QED BY Zenon, <1>1, <1>2

(***************************************************************************)
(* ValidateDefinition, Plan and execute keep the engine's invariant: the   *)
(* marks of the search, the list of the plan, the steps of a run.          *)
(***************************************************************************)
LEMMA EngineIsSound == WorkflowSpec => []WorkflowInv
BY WorkflowStarts, WorkflowKeeps, PTL DEF WorkflowSpec

(***************************************************************************)
(* A definition is refused exactly when its dependencies go in a circle,   *)
(* and otherwise Plan lists every step once, after all it depends on, for  *)
(* every number of steps and every graph.                                  *)
(***************************************************************************)
THEOREM PlansAreSound == WorkflowSpec => []PlansAreOrders
<1>1. WorkflowInv => PlansAreOrders
  <2> SUFFICES ASSUME WorkflowInv, engine \notin {"idle", "validating"}
               PROVE  /\ (engine = "refused") = ~Grounded(Steps)
                      /\ engine = "planned" =>
                          /\ Len(order) = StepCount
                          /\ \A s \in Steps : \E k \in 1..StepCount :
                                order[k] = s /\ dependsOn[s] \subseteq {order[j] : j \in 1..(k - 1)}
    BY Zenon DEF PlansAreOrders
  <2>1. (engine = "refused") = ~Grounded(Steps)
    <3>1. engine = "refused" => ~Grounded(Steps)
      BY Zenon DEF WorkflowInv, SearchInv
    <3>2. engine # "refused" => Grounded(Steps)
      BY Zenon DEF WorkflowInv, SearchInv, Before
    <3>3. Grounded(Steps) \in BOOLEAN
      BY Zenon DEF Grounded
    <3> QED BY <3>1, <3>2, <3>3
  <2>2. ASSUME engine = "planned", NEW s \in Steps
        PROVE  \E k \in 1..StepCount :
                  order[k] = s /\ dependsOn[s] \subseteq {order[j] : j \in 1..(k - 1)}
    <3>1. /\ Len(order) = StepCount /\ s \in Listed(order)
          /\ \A k \in 1..Len(order) : dependsOn[order[k]] \subseteq {order[j] : j \in 1..(k - 1)}
      BY Zenon, <2>2 DEF WorkflowInv, ListInv, OrderInv
    <3>2. PICK k \in 1..Len(order) : s = order[k]
      BY Zenon, <3>1 DEF Listed
    <3>3. k \in 1..StepCount /\ order[k] = s
      BY Zenon, <3>1, <3>2
    <3>4. dependsOn[s] \subseteq {order[j] : j \in 1..(k - 1)}
      BY Zenon, <3>1, <3>2
    <3> QED BY Zenon, <3>3, <3>4
  <2> QED BY Zenon, <2>1, <2>2 DEF WorkflowInv, ListInv
<1> QED BY <1>1, EngineIsSound, PTL

(***************************************************************************)
(* When a run is over, every step is, and it was skipped exactly when its  *)
(* condition does not hold of what became of its dependencies, unless one  *)
(* of those had failed and was tried again by a resume.                    *)
(***************************************************************************)
THEOREM ResultsAreSound == WorkflowSpec => []ResultsFollowConditions
<1>1. WorkflowInv => ResultsFollowConditions
  <2> SUFFICES ASSUME WorkflowInv, engine = "ended", NEW s \in Steps
               PROVE  /\ stepStatus[s] \in TerminalSteps
                      /\ dependsOn[s] \cap reopened = {} =>
                          (stepStatus[s] = "skipped") = ~Matched(s, stepStatus)
    BY Zenon DEF ResultsFollowConditions
  <2>1. stepStatus[s] \in TerminalSteps /\ Consistent(stepStatus, reopened)
    BY Zenon DEF WorkflowInv, RunInv
  <2>2. ASSUME dependsOn[s] \cap reopened = {}
        PROVE  (stepStatus[s] = "skipped") = ~Matched(s, stepStatus)
    <3>1. stepStatus[s] = "skipped" <=> ~Matched(s, stepStatus)
      BY Zenon, <2>1, <2>2 DEF Consistent
    <3> QED BY <3>1
  <2> QED BY Zenon, <2>1, <2>2
<1> QED BY <1>1, EngineIsSound, PTL

(***************************************************************************)
(* A step whose success is saved, in the checkpoint or in the continuation *)
(* the run was resumed from, is not dispatched again, whatever crashes,    *)
(* failed saves, pauses and resumes came before.                           *)
(***************************************************************************)
THEOREM SavedWorkStays == WorkflowSpec => SavedWorkIsKept
<1> DEFINE Kept == \A s \in Steps :
                      stepStatus[s] = "pending" /\ stepStatus'[s] = "running" =>
                         (IF sourced THEN continuation ELSE checkpoint)[s] # "succeeded"
<1>1. WorkflowInv /\ [WorkflowNext]_workflowVars => [Kept]_workflowVars
  <2> SUFFICES ASSUME WorkflowInv, WorkflowNext, NEW s \in Steps,
                      stepStatus[s] = "pending", stepStatus'[s] = "running", Saved[s] = "succeeded"
               PROVE  FALSE
    BY Zenon DEF Saved
  <2>1. stepStatus[s] = "succeeded" \/ engine # "running"
    BY Zenon DEF WorkflowInv, RunInv, RoundOf
  <2>2. engine # "running"
    BY <2>1
  <2>3. UNCHANGED stepStatus \/ ResumeRun \/ ResumePaused
    <3>1. CASE RunStep
      BY Zenon, <2>2, <3>1 DEF RunStep, StartRound, FinishRun, CancelRun, CrashRun, SkipStep, DispatchStep,
         StepSucceeds, StepFails, RetryStep, PauseRun, Attempting, Turn
    <3>2. CASE ~RunStep
      BY Zenon, <3>2, WorkflowSteps DEF SubmitWorkflow, VisitNext, FollowDependency, LeaveStep, Validated,
         ListStep, FinishPlan, runVars
    <3> QED BY Zenon, <3>1, <3>2
  <2>4. \E from : stepStatus' = Restored(from)
    <3>1. stepStatus'[s] # stepStatus[s]
      OBVIOUS
    <3> QED BY Zenon, <2>3, <3>1 DEF ResumeRun, ResumePaused, Resumes
  <2> QED BY Zenon, <2>4, RestoredFacts
<1>2. WorkflowSpec => [][Kept]_workflowVars
  BY <1>1, EngineIsSound, PTL DEF WorkflowSpec
<1> QED BY <1>2 DEF SavedWorkIsKept

-----------------------------------------------------------------------------
(* Continuation *)

Free == {"absent", "none"}
Taken == {"claimed", "running", "recovery_required"}
Past == {"claimed", "running", "executed"}

ClaimedRecord == [claim : Taken, identity : ResumeIdentities]
CompletedRecord ==
    [claim : {"completed"}, identity : ResumeIdentities, result : {"done", "paused"}]
StoredRecord == {NotStored, Unclaimed} \cup ClaimedRecord \cup CompletedRecord

OpenCall == [at : {"loaded", "claimed", "running"}, on : Generations, identity : ResumeIdentities]
ExecutedCall ==
    [at : {"executed"}, on : Generations, identity : ResumeIdentities, result : {"done", "paused"}]
ResumeCall == {NoResume} \cup OpenCall \cup ExecutedCall

ContinuationTypeOK ==
    /\ onDisk \in [Generations -> StoredRecord]
    /\ inMemory \in [Generations -> StoredRecord]
    /\ resume \in [Resumers -> ResumeCall]
    /\ executions \in [Generations -> Nat]

Paused(record) == record.claim = "completed" /\ record.result = "paused"

\* Memory is not ahead of the file, and keeps what the file has completed.
MemoryFollows ==
    \A g \in Generations :
        /\ inMemory[g].claim = "none" => onDisk[g].claim \in Free
        /\ onDisk[g].claim = "completed" => inMemory[g].claim \in {"absent", "completed"}

\* A call past its claim holds the claim of the file, alone.
OneHolder ==
    \A c \in Resumers : resume[c].at \in Past =>
        /\ onDisk[resume[c].on].claim \in Taken
        /\ resume[c].at # "executed" => executions[resume[c].on] = 0
        /\ \A d \in Resumers : resume[d].at \in Past /\ resume[d].on = resume[c].on => d = c

ExecutedWhenTaken ==
    \A g \in Generations :
        /\ executions[g] <= 1
        /\ onDisk[g].claim \in Free => executions[g] = 0

\* A continuation that is known has a predecessor whose pause is committed.
KnownByPause ==
    \A g \in Generations :
        g > 1 /\ (onDisk[g].claim # "absent" \/ inMemory[g].claim # "absent")
            => Paused(onDisk[g - 1])

ContinuationInv ==
    ContinuationTypeOK /\ MemoryFollows /\ OneHolder /\ ExecutedWhenTaken /\ KnownByPause

-----------------------------------------------------------------------------
\* What a record is, told by its claim.
LEMMA RecordShape ==
    ASSUME NEW r \in StoredRecord
    PROVE  /\ r.claim \in Free \cup Taken \cup {"completed"}
           /\ r = NotStored <=> r.claim = "absent"
           /\ r = Unclaimed <=> r.claim = "none"
           /\ r \in ClaimedRecord <=> r.claim \in Taken
           /\ r \in CompletedRecord <=> r.claim = "completed"
<1>1. NotStored.claim = "absent" /\ Unclaimed.claim = "none"
  BY DEF NotStored, Unclaimed
<1>2. \A x \in ClaimedRecord : x.claim \in Taken
  BY DEF ClaimedRecord
<1>3. \A x \in CompletedRecord : x.claim = "completed"
  BY DEF CompletedRecord
<1> QED BY <1>1, <1>2, <1>3 DEF StoredRecord, Free, Taken

\* Where a call is tells its other fields.
LEMMA CallShape ==
    ASSUME NEW r \in ResumeCall
    PROVE  /\ r = NoResume <=> r.at = "idle"
           /\ r.at \in {"loaded", "claimed", "running"} <=> r \in OpenCall
           /\ r.at = "executed" <=> r \in ExecutedCall
           /\ r.at # "idle" => r.on \in Generations /\ r.identity \in ResumeIdentities
<1>1. NoResume.at = "idle"
  BY DEF NoResume
<1>2. \A x \in OpenCall : /\ x.at \in {"loaded", "claimed", "running"}
                          /\ x.on \in Generations /\ x.identity \in ResumeIdentities
  BY DEF OpenCall
<1>3. \A x \in ExecutedCall : /\ x.at = "executed"
                              /\ x.on \in Generations /\ x.identity \in ResumeIdentities
  BY Zenon DEF ExecutedCall
<1> QED BY <1>1, <1>2, <1>3 DEF ResumeCall

\* Nothing is stored and nothing runs.
LEMMA ContinuationInitInv == ContinuationInit => ContinuationInv
<1> SUFFICES ASSUME ContinuationInit PROVE ContinuationInv
    BY Zenon
<1>1. /\ \A g \in Generations : onDisk[g].claim = "absent" /\ inMemory[g].claim = "absent" /\ executions[g] = 0
      /\ \A c \in Resumers : resume[c].at = "idle"
  BY DEF ContinuationInit, NotStored, NoResume
<1>2. ContinuationTypeOK
  BY DEF ContinuationInit, ContinuationTypeOK, StoredRecord, ResumeCall
<1> QED BY <1>1, <1>2 DEF ContinuationInv, MemoryFollows, OneHolder, ExecutedWhenTaken, KnownByPause, Past

-----------------------------------------------------------------------------
(* One lemma per action. *)

\* No successor is known of a continuation the file does not show completed.
LEMMA NoSuccessorYet ==
    ASSUME ContinuationInv, NEW g \in Generations, onDisk[g].claim # "completed",
           NEW h \in Generations, h > 1, h - 1 = g
    PROVE  onDisk[h].claim = "absent" /\ inMemory[h].claim = "absent"
<1>1. ~Paused(onDisk[h - 1])
  BY Zenon DEF Paused
<1> QED BY <1>1 DEF ContinuationInv, KnownByPause

\* The record of a continuation nobody has completed changes in the file to one
\* that is taken: no successor of it is known.
LEMMA TakenKeepsPauses ==
    ASSUME ContinuationInv, NEW g \in Generations,
           \A h \in Generations \ {g} : onDisk'[h] = onDisk[h] /\ inMemory'[h] = inMemory[h],
           onDisk[g].claim # "completed",
           g > 1 => Paused(onDisk[g - 1])
    PROVE  KnownByPause'
<1>1. \A h \in Generations : h > 1 => h - 1 \in Generations /\ h - 1 # h
  BY ContinuationAssumption DEF Generations
<1>2. \A h \in Generations : h > 1 /\ h - 1 = g => onDisk[h].claim = "absent" /\ inMemory[h].claim = "absent"
  BY Zenon, NoSuccessorYet
<1>3. ASSUME NEW h \in Generations, h > 1, onDisk'[h].claim # "absent" \/ inMemory'[h].claim # "absent"
      PROVE  Paused(onDisk'[h - 1])
  <2>1. h - 1 # g
    BY <1>1, <1>2, <1>3
  <2>2. onDisk'[h - 1] = onDisk[h - 1]
    BY Zenon, <1>1, <1>3, <2>1
  <2>3. CASE h = g
    BY Zenon, <1>3, <2>2, <2>3
  <2>4. CASE h # g
    BY <1>1, <1>3, <2>2, <2>4 DEF ContinuationInv, KnownByPause
  <2> QED BY Zenon, <2>3, <2>4
<1> QED BY <1>3 DEF KnownByPause, Paused

LEMMA HoldersTaken ==
    ASSUME ContinuationInv
    PROVE  OneHolder /\ \A d \in Resumers : resume[d].at \in Past => onDisk[resume[d].on].claim \in Taken
BY Zenon DEF ContinuationInv, OneHolder

\* A step of one call keeps the claims of the others.
LEMMA HolderKept ==
    ASSUME OneHolder, NEW c \in Resumers,
           \A d \in Resumers \ {c} : resume'[d] = resume[d],
           \A d \in Resumers \ {c} : resume[d].at \in Past =>
              /\ onDisk'[resume[d].on].claim \in Taken
              /\ executions'[resume[d].on] = executions[resume[d].on],
           resume'[c].at \in Past =>
              /\ onDisk'[resume'[c].on].claim \in Taken
              /\ resume'[c].at # "executed" => executions'[resume'[c].on] = 0
              /\ \A d \in Resumers \ {c} : resume[d].at \in Past => resume[d].on # resume'[c].on
    PROVE  OneHolder'
<1>1. ASSUME NEW a \in Resumers, resume'[a].at \in Past
      PROVE  /\ onDisk'[resume'[a].on].claim \in Taken
             /\ resume'[a].at # "executed" => executions'[resume'[a].on] = 0
             /\ \A d \in Resumers : resume'[d].at \in Past /\ resume'[d].on = resume'[a].on => d = a
  <2>1. CASE a = c
    BY Zenon, <1>1, <2>1
  <2>2. CASE a # c
    <3>1. resume'[a] = resume[a]
      BY Zenon, <2>2
    <3>2. /\ onDisk'[resume'[a].on].claim \in Taken
          /\ resume'[a].at # "executed" => executions'[resume'[a].on] = 0
      BY ZenonT(60), <1>1, <2>2, <3>1 DEF OneHolder
    <3>3. ASSUME NEW d \in Resumers, resume'[d].at \in Past, resume'[d].on = resume'[a].on
          PROVE  d = a
      <4>1. CASE d = c
        BY Zenon, <1>1, <2>2, <3>1, <3>3, <4>1
      <4>2. CASE d # c
        <5>1. resume'[d] = resume[d]
          BY Zenon, <4>2
        <5>2. \A x, y \in Resumers :
                 resume[x].at \in Past /\ resume[y].at \in Past /\ resume[y].on = resume[x].on => y = x
          BY Zenon DEF OneHolder
        <5> QED BY Zenon, <1>1, <3>1, <3>3, <5>1, <5>2
      <4> QED BY Zenon, <4>1, <4>2
    <3> QED BY Zenon, <3>2, <3>3
  <2> QED BY Zenon, <2>1, <2>2
<1> QED BY Zenon, <1>1 DEF OneHolder

\* Save: the first continuation is written, or the write fails.
LEMMA SaveInv == ContinuationInv /\ SaveContinuation => ContinuationInv'
<1> SUFFICES ASSUME ContinuationInv, SaveContinuation PROVE ContinuationInv'
    OBVIOUS
<1> USE DEF ContinuationInv
<1>1. 1 \in Generations /\ Unclaimed \in StoredRecord /\ Unclaimed.claim = "none"
  BY ContinuationAssumption DEF Generations, StoredRecord, Unclaimed
<1>2. onDisk[1].claim = "absent" /\ inMemory[1].claim = "absent"
  BY <1>1 DEF SaveContinuation, NotStored
<1>3. CASE UNCHANGED <<onDisk, inMemory>>
  BY Zenon, <1>3 DEF SaveContinuation, ContinuationTypeOK, MemoryFollows, OneHolder,
              ExecutedWhenTaken, KnownByPause
<1>4. CASE onDisk' = [onDisk EXCEPT ![1] = Unclaimed] /\ inMemory' = [inMemory EXCEPT ![1] = Unclaimed]
  <2>1. UNCHANGED <<resume, executions>>
    BY DEF SaveContinuation
  <2>2. /\ onDisk'[1].claim = "none" /\ inMemory'[1].claim = "none"
        /\ \A g \in Generations \ {1} : onDisk'[g] = onDisk[g] /\ inMemory'[g] = inMemory[g]
    BY Zenon, <1>1, <1>4 DEF ContinuationTypeOK
  <2>3. ContinuationTypeOK'
    BY Zenon, <1>1, <1>4, <2>1 DEF ContinuationTypeOK
  <2>4. MemoryFollows' /\ ExecutedWhenTaken'
    BY <1>1, <1>2, <2>1, <2>2 DEF MemoryFollows, ExecutedWhenTaken, Free
  <2>5. OneHolder'
    <3>1. \A c \in Resumers : resume[c].at \in Past => resume[c].on \in Generations \ {1}
      BY Zenon, <1>2, CallShape DEF ContinuationTypeOK, OneHolder, Taken, Past
    <3> QED BY Zenon, <2>1, <2>2, <3>1 DEF OneHolder
  <2>6. KnownByPause'
    <3>1. ~(1 > 1) /\ onDisk[1].claim # "completed"
      BY <1>2
    <3> QED BY Zenon, <1>1, <2>2, <3>1, TakenKeepsPauses DEF ContinuationInv
  <2> QED BY Zenon, <2>3, <2>4, <2>5, <2>6
<1> QED BY <1>3, <1>4 DEF SaveContinuation, Persists, PersistFails, Remembers

\* Load: memory is what the file says, where a claim now needs recovery.
LEMMA LoadInv ==
    ASSUME ContinuationInv, NEW c \in Resumers, NEW g \in Generations, NEW i \in ResumeIdentities,
           LoadContinuation(c, g, i)
    PROVE  ContinuationInv'
<1> USE DEF ContinuationInv
<1> DEFINE found == Reread(Found(g))
<1>1. onDisk[g] \in StoredRecord /\ Found(g) \in StoredRecord
  BY Zenon DEF ContinuationTypeOK, Found, StoredRecord
<1>2. /\ Found(g).claim # "absent"
      /\ Found(g).claim = "none" => onDisk[g].claim \in Free
      /\ onDisk[g].claim = "completed" => Found(g).claim = "completed"
      /\ g > 1 => Paused(onDisk[g - 1])
  BY Zenon, <1>1, RecordShape DEF LoadContinuation, Found, Free, KnownByPause, Paused, NotStored, Unclaimed
<1>3. /\ found \in StoredRecord
      /\ found.claim # "absent"
      /\ found.claim = "none" => onDisk[g].claim \in Free
      /\ onDisk[g].claim = "completed" => found.claim = "completed"
  <2>1. CASE Found(g).claim \in {"claimed", "running"}
    <3>1. Found(g) \in ClaimedRecord
      BY Zenon, <1>1, <2>1, RecordShape DEF Taken
    <3>2. found = [Found(g) EXCEPT !.claim = "recovery_required"]
      BY <2>1 DEF Reread
    <3>3. found \in ClaimedRecord /\ found.claim = "recovery_required"
      BY <3>1, <3>2 DEF ClaimedRecord, Taken
    <3> QED BY Zenon, <1>2, <2>1, <3>3 DEF StoredRecord
  <2>2. CASE Found(g).claim \notin {"claimed", "running"}
    BY Zenon, <1>1, <1>2, <2>2 DEF Reread
  <2> QED BY Zenon, <2>1, <2>2
<1> HIDE DEF found
<1>4. /\ inMemory' = [inMemory EXCEPT ![g] = found]
      /\ resume' = [resume EXCEPT ![c] = [at |-> "loaded", on |-> g, identity |-> i]]
      /\ UNCHANGED <<onDisk, executions>>
  BY DEF LoadContinuation, Remembers, Goes, found
<1>5. [at |-> "loaded", on |-> g, identity |-> i] \in ResumeCall
  BY DEF ResumeCall, OpenCall
<1>6. /\ inMemory'[g] = found /\ \A h \in Generations \ {g} : inMemory'[h] = inMemory[h]
      /\ resume'[c].at = "loaded" /\ \A d \in Resumers \ {c} : resume'[d] = resume[d]
  BY <1>4 DEF ContinuationTypeOK
<1>7. ContinuationTypeOK'
  BY Zenon, <1>3, <1>4, <1>5 DEF ContinuationTypeOK
<1>8. MemoryFollows' /\ ExecutedWhenTaken'
  BY ZenonT(60), <1>3, <1>4, <1>6 DEF MemoryFollows, ExecutedWhenTaken
<1>9. OneHolder'
  <2>1. resume'[c].at \notin Past
    BY Zenon, <1>6 DEF Past
  <2> QED BY Zenon, <1>4, <1>6, <2>1, HoldersTaken, HolderKept
<1>10. KnownByPause'
  BY Zenon, <1>2, <1>4, <1>6 DEF KnownByPause
<1> QED BY <1>7, <1>8, <1>9, <1>10

\* A step of a call that ends it, or leaves it where it was not past its claim,
\* and changes neither the file nor memory.
LEMMA CallEndsInv ==
    ASSUME ContinuationInv, NEW c \in Resumers,
           resume' = [resume EXCEPT ![c] = NoResume], UNCHANGED <<onDisk, inMemory, executions>>
    PROVE  ContinuationInv'
<1> USE DEF ContinuationInv
<1>1. NoResume \in ResumeCall /\ NoResume.at = "idle"
  BY DEF ResumeCall, NoResume
<1>2. resume'[c].at = "idle" /\ \A d \in Resumers \ {c} : resume'[d] = resume[d]
  BY <1>1 DEF ContinuationTypeOK
<1>3. ContinuationTypeOK'
  BY <1>1 DEF ContinuationTypeOK
<1>4. OneHolder'
  <2>1. resume'[c].at \notin Past
    BY Zenon, <1>2 DEF Past
  <2> QED BY Zenon, <1>2, <2>1, HoldersTaken, HolderKept
<1> QED BY Zenon, <1>3, <1>4 DEF MemoryFollows, ExecutedWhenTaken, KnownByPause

\* What holds of a call that is past its claim.
LEMMA HolderFacts ==
    ASSUME ContinuationInv, NEW c \in Resumers, resume[c].at \in Past
    PROVE  /\ resume[c].on \in Generations /\ resume[c].identity \in ResumeIdentities
           /\ onDisk[resume[c].on].claim \in Taken
           /\ onDisk[resume[c].on].claim # "completed"
           /\ resume[c].on > 1 => Paused(onDisk[resume[c].on - 1])
           /\ \A d \in Resumers \ {c} : resume[d].at \in Past => resume[d].on # resume[c].on
<1>1. resume[c] \in ResumeCall /\ resume[c].at # "idle"
  BY Zenon DEF ContinuationInv, ContinuationTypeOK, Past
<1>2. resume[c].on \in Generations /\ resume[c].identity \in ResumeIdentities
  BY Zenon, <1>1, CallShape
<1>3. onDisk[resume[c].on].claim \in Taken
  BY Zenon DEF ContinuationInv, OneHolder
<1>4. onDisk[resume[c].on].claim \notin {"completed", "absent"}
  BY Zenon, <1>3 DEF Taken
<1>5. resume[c].on > 1 => Paused(onDisk[resume[c].on - 1])
  BY Zenon, <1>2, <1>4 DEF ContinuationInv, KnownByPause
<1>6. \A d \in Resumers \ {c} : resume[d].at \in Past => resume[d].on # resume[c].on
  BY Zenon DEF ContinuationInv, OneHolder
<1> QED BY Zenon, <1>2, <1>3, <1>4, <1>5, <1>6

\* Claim: memory shows the continuation free, so the file does.
LEMMA ClaimInv ==
    ASSUME ContinuationInv, NEW c \in Resumers, ClaimContinuation(c)
    PROVE  ContinuationInv'
<1> DEFINE g == resume[c].on
           claim == [claim |-> "claimed", identity |-> resume[c].identity]
           next == [resume[c] EXCEPT !.at = "claimed"]
<1>1. /\ resume[c] \in OpenCall /\ g \in Generations /\ inMemory[g].claim = "none"
      /\ resume[c].identity \in ResumeIdentities
  BY CallShape DEF ClaimContinuation, ContinuationInv, ContinuationTypeOK, Unclaimed
<1>2. onDisk[g].claim \in Free /\ executions[g] = 0 /\ onDisk[g].claim # "completed"
  BY Zenon, <1>1 DEF ContinuationInv, MemoryFollows, ExecutedWhenTaken, Free
<1>3. g > 1 => Paused(onDisk[g - 1])
  BY Zenon, <1>1 DEF ContinuationInv, KnownByPause
<1>4. claim \in StoredRecord /\ claim.claim = "claimed"
  BY <1>1 DEF StoredRecord, ClaimedRecord, Taken
<1>5. next \in ResumeCall /\ next.at = "claimed" /\ next.on = g
  BY <1>1 DEF ResumeCall, OpenCall
<1>6. CASE PersistFails /\ UNCHANGED inMemory /\ Goes(c, NoResume)
  BY <1>6, CallEndsInv, Zenon DEF ClaimContinuation, PersistFails, Goes
<1>7. CASE Persists(g, claim) /\ Remembers(g, claim) /\ Goes(c, next)
  <2> HIDE DEF g, claim, next
  <2>1. /\ onDisk' = [onDisk EXCEPT ![g] = claim] /\ inMemory' = [inMemory EXCEPT ![g] = claim]
        /\ resume' = [resume EXCEPT ![c] = next] /\ UNCHANGED executions
    BY Zenon, <1>7 DEF Persists, Remembers, Goes, ClaimContinuation
  <2>2. ContinuationTypeOK'
    BY <1>1, <1>4, <1>5, <2>1 DEF ContinuationInv, ContinuationTypeOK
  <2>3. /\ onDisk'[g] = claim /\ inMemory'[g] = claim /\ resume'[c] = next
        /\ \A h \in Generations \ {g} : onDisk'[h] = onDisk[h] /\ inMemory'[h] = inMemory[h]
        /\ \A d \in Resumers \ {c} : resume'[d] = resume[d]
    BY Zenon, <1>1, <2>1 DEF ContinuationInv, ContinuationTypeOK
  <2>4. MemoryFollows' /\ ExecutedWhenTaken'
    BY <1>1, <1>2, <1>4, <2>1, <2>3 DEF ContinuationInv, MemoryFollows, ExecutedWhenTaken, Free
  <2>5. \A d \in Resumers \ {c} : resume[d].at \in Past => resume[d].on \in Generations \ {g}
    <3>1. \A d \in Resumers : resume[d].at \in Past => onDisk[resume[d].on].claim \notin Free
      BY Zenon, HolderFacts DEF Taken, Free
    <3> QED BY Zenon, <1>2, <3>1, HolderFacts
  <2>6. OneHolder'
    <3>1. claim.claim \in Taken
      BY Zenon, <1>4 DEF Taken
    <3>2. \A d \in Resumers \ {c} : resume[d].at \in Past =>
             /\ onDisk'[resume[d].on].claim \in Taken
             /\ executions'[resume[d].on] = executions[resume[d].on]
      BY Zenon, <2>1, <2>3, <2>5, HoldersTaken
    <3>3. resume'[c].on = g /\ onDisk'[g].claim \in Taken /\ executions'[g] = 0
      BY Zenon, <1>2, <1>5, <2>1, <2>3, <3>1
    <3> QED BY Zenon, <2>3, <2>5, <3>2, <3>3, HoldersTaken, HolderKept
  <2>7. KnownByPause'
    BY Zenon, <1>1, <1>2, <1>3, <2>3, TakenKeepsPauses
  <2> QED BY <2>2, <2>4, <2>6, <2>7 DEF ContinuationInv
<1> QED BY <1>6, <1>7 DEF ClaimContinuation

\* A repeated claim: what it writes over is not a completed record.
LEMMA RepeatInv ==
    ASSUME ContinuationInv, NEW c \in Resumers, RepeatClaim(c)
    PROVE  ContinuationInv'
<1> DEFINE g == resume[c].on
           r == inMemory[g]
<1>1. g \in Generations
  BY Zenon, CallShape DEF RepeatClaim, ContinuationInv, ContinuationTypeOK
<1>2. CASE UNCHANGED onDisk
  BY Zenon, <1>2, CallEndsInv DEF RepeatClaim, Goes
<1>3. CASE r.claim = "recovery_required" /\ Persists(g, r)
  <2>1. /\ onDisk' = [onDisk EXCEPT ![g] = inMemory[g]]
        /\ resume' = [resume EXCEPT ![c] = NoResume] /\ UNCHANGED <<inMemory, executions>>
    BY Zenon, <1>3 DEF Persists, Goes, RepeatClaim
  <2>2. inMemory[g].claim = "recovery_required"
    BY Zenon, <1>3
  <2> HIDE DEF g
  <2>3. onDisk[g].claim # "completed" /\ (g > 1 => Paused(onDisk[g - 1]))
    BY Zenon, <1>1, <2>2 DEF ContinuationInv, MemoryFollows, KnownByPause
  <2>4. NoResume \in ResumeCall /\ NoResume.at = "idle"
    BY DEF ResumeCall, NoResume
  <2>5. ContinuationTypeOK'
    BY <1>1, <2>1, <2>4 DEF ContinuationInv, ContinuationTypeOK
  <2>6. /\ onDisk'[g] = inMemory[g] /\ resume'[c] = NoResume
        /\ \A h \in Generations \ {g} : onDisk'[h] = onDisk[h] /\ inMemory'[h] = inMemory[h]
        /\ \A d \in Resumers \ {c} : resume'[d] = resume[d]
    BY Zenon, <1>1, <2>1 DEF ContinuationInv, ContinuationTypeOK
  <2>7. MemoryFollows' /\ ExecutedWhenTaken'
    BY Zenon, <1>1, <2>1, <2>2, <2>3, <2>6 DEF ContinuationInv, MemoryFollows, ExecutedWhenTaken, Free
  <2>8. OneHolder'
    <3>1. \A d \in Resumers : resume[d].at \in Past => resume[d].on \in Generations
      BY Zenon, HolderFacts
    <3>2. onDisk'[g].claim \in Taken /\ resume'[c].at \notin Past
      BY Zenon, <2>2, <2>4, <2>6 DEF Taken, Past
    <3> QED BY Zenon, <2>1, <2>6, <3>1, <3>2, HoldersTaken, HolderKept
  <2>9. KnownByPause'
    BY Zenon, <1>1, <2>3, <2>6, TakenKeepsPauses
  <2> QED BY <2>5, <2>7, <2>8, <2>9 DEF ContinuationInv
<1> QED BY Zenon, <1>2, <1>3 DEF RepeatClaim, PersistFails

\* A claim is marked running by the call that holds it.
LEMMA MarkInv ==
    ASSUME ContinuationInv, NEW c \in Resumers, MarkResumeRunning(c)
    PROVE  ContinuationInv'
<1> DEFINE g == resume[c].on
           running == [inMemory[g] EXCEPT !.claim = "running"]
           next == [resume[c] EXCEPT !.at = "running"]
<1>1. resume[c].at \in Past /\ resume[c].at # "executed"
  BY Zenon DEF MarkResumeRunning, Past
<1>2. /\ g \in Generations /\ onDisk[g].claim \in Taken /\ onDisk[g].claim # "completed"
      /\ g > 1 => Paused(onDisk[g - 1])
      /\ \A d \in Resumers \ {c} : resume[d].at \in Past => resume[d].on # g
  BY Zenon, <1>1, HolderFacts
<1>3. executions[g] = 0
  BY Zenon, <1>1 DEF ContinuationInv, OneHolder
<1>4. CASE inMemory[g].claim \notin {"claimed", "running"}
  BY Zenon, <1>4, CallEndsInv DEF MarkResumeRunning, Goes
<1>5. CASE inMemory[g].claim \in {"claimed", "running"}
  <2>1. inMemory[g] \in ClaimedRecord
    BY Zenon, <1>2, <1>5, RecordShape DEF ContinuationInv, ContinuationTypeOK, Taken
  <2>2. running \in StoredRecord /\ running.claim = "running"
    BY <2>1 DEF StoredRecord, ClaimedRecord, Taken
  <2>3. resume[c] \in OpenCall
    BY CallShape DEF MarkResumeRunning, ContinuationInv, ContinuationTypeOK
  <2>4. next \in ResumeCall /\ next.at = "running" /\ next.on = g
    BY Zenon, <2>3 DEF ResumeCall, OpenCall
  <2>5. NoResume \in ResumeCall /\ NoResume.at = "idle"
    BY DEF ResumeCall, NoResume
  <2>6. /\ inMemory' = [inMemory EXCEPT ![g] = running] /\ UNCHANGED executions
        /\ \/ onDisk' = [onDisk EXCEPT ![g] = running] /\ resume' = [resume EXCEPT ![c] = next]
           \/ UNCHANGED onDisk /\ resume' = [resume EXCEPT ![c] = NoResume]
    BY <1>5 DEF MarkResumeRunning, Remembers, Persists, PersistFails, Goes
  <2> HIDE DEF g, running, next
  <2>7. ContinuationTypeOK'
    BY <1>2, <2>2, <2>4, <2>5, <2>6 DEF ContinuationInv, ContinuationTypeOK
  <2>8. /\ inMemory'[g] = running
        /\ \/ onDisk'[g] = running /\ resume'[c] = next
           \/ onDisk'[g] = onDisk[g] /\ resume'[c] = NoResume
        /\ \A h \in Generations \ {g} : onDisk'[h] = onDisk[h] /\ inMemory'[h] = inMemory[h]
        /\ \A d \in Resumers \ {c} : resume'[d] = resume[d]
    BY Zenon, <1>2, <2>6 DEF ContinuationInv, ContinuationTypeOK
  <2>9. onDisk'[g].claim \in Taken /\ onDisk'[g].claim \notin Free \cup {"completed"}
    BY Zenon, <1>2, <2>2, <2>8 DEF Taken, Free
  <2>10. MemoryFollows' /\ ExecutedWhenTaken'
    BY ZenonT(60), <1>2, <1>3, <2>2, <2>6, <2>8, <2>9 DEF ContinuationInv, MemoryFollows, ExecutedWhenTaken
  <2>11. OneHolder'
    <3>1. \A d \in Resumers : resume[d].at \in Past => resume[d].on \in Generations
      BY Zenon, HolderFacts
    <3>2. \/ resume'[c].at \notin Past
          \/ resume'[c].on = g /\ resume'[c].at # "executed"
      BY Zenon, <2>4, <2>5, <2>8 DEF Past
    <3>3. \A d \in Resumers \ {c} : resume[d].at \in Past =>
             /\ onDisk'[resume[d].on].claim \in Taken
             /\ executions'[resume[d].on] = executions[resume[d].on]
      BY Zenon, <2>6, <2>8, <2>9, <3>1, HoldersTaken
    <3>4. resume'[c].at \in Past =>
             /\ onDisk'[resume'[c].on].claim \in Taken
             /\ resume'[c].at # "executed" => executions'[resume'[c].on] = 0
             /\ \A d \in Resumers \ {c} : resume[d].at \in Past => resume[d].on # resume'[c].on
      BY Zenon, <1>2, <1>3, <2>6, <2>9, <3>2
    <3> QED BY Zenon, <2>8, <3>3, <3>4, HoldersTaken, HolderKept
  <2>12. KnownByPause'
    BY Zenon, <1>2, <2>8, TakenKeepsPauses
  <2> QED BY <2>7, <2>10, <2>11, <2>12 DEF ContinuationInv
<1> QED BY <1>4, <1>5

\* The graph is executed by the one call that holds the claim.
LEMMA ExecuteInv ==
    ASSUME ContinuationInv, NEW c \in Resumers, ExecuteContinuation(c)
    PROVE  ContinuationInv'
<1> DEFINE g == resume[c].on
<1>1. resume[c].at \in Past /\ resume[c].at # "executed"
  BY Zenon DEF ExecuteContinuation, Past
<1>2. /\ g \in Generations /\ onDisk[g].claim \in Taken
      /\ resume[c].identity \in ResumeIdentities
      /\ \A d \in Resumers \ {c} : resume[d].at \in Past => resume[d].on # g
  BY Zenon, <1>1, HolderFacts
<1>3. executions[g] = 0
  BY Zenon, <1>1 DEF ContinuationInv, OneHolder
<1>4. UNCHANGED <<onDisk, inMemory>> /\ executions' = [executions EXCEPT ![g] = @ + 1]
  BY Zenon DEF ExecuteContinuation
<1>5. PICK next \in ResumeCall :
        /\ resume' = [resume EXCEPT ![c] = next]
        /\ next.at = "idle" \/ (next.at = "executed" /\ next.on = g)
  <2>1. NoResume \in ResumeCall /\ NoResume.at = "idle"
    BY DEF ResumeCall, NoResume
  <2>2. ASSUME NEW result \in {"done", "paused"}
        PROVE  LET next == [at |-> "executed", on |-> g, identity |-> resume[c].identity, result |-> result]
               IN  next \in ResumeCall /\ next.at = "executed" /\ next.on = g
    BY Zenon, <1>2 DEF ResumeCall, ExecutedCall
  <2>3. \/ resume' = [resume EXCEPT ![c] = NoResume]
        \/ \E result \in {"done", "paused"} :
              resume' = [resume EXCEPT ![c] = [at |-> "executed", on |-> g,
                                               identity |-> resume[c].identity, result |-> result]]
    BY Zenon DEF ExecuteContinuation, Goes
  <2> QED BY <2>1, <2>2, <2>3, Zenon
<1> HIDE DEF g
<1>6. /\ executions'[g] = 1 /\ resume'[c] = next
      /\ \A h \in Generations \ {g} : executions'[h] = executions[h]
      /\ \A d \in Resumers \ {c} : resume'[d] = resume[d]
  BY <1>2, <1>3, <1>4, <1>5 DEF ContinuationInv, ContinuationTypeOK
<1>7. ContinuationTypeOK'
  BY <1>2, <1>4, <1>5 DEF ContinuationInv, ContinuationTypeOK
<1>8. MemoryFollows' /\ KnownByPause'
  BY ZenonT(60), <1>4 DEF ContinuationInv, MemoryFollows, KnownByPause, Paused
<1>9. ExecutedWhenTaken'
  BY <1>2, <1>4, <1>6 DEF ContinuationInv, ExecutedWhenTaken, Taken, Free
<1>10. OneHolder'
  <2>1. \A d \in Resumers : resume[d].at \in Past => resume[d].on \in Generations
    BY Zenon, HolderFacts
  <2>2. resume'[c].at \notin Past \/ (resume'[c].at = "executed" /\ resume'[c].on = g)
    BY Zenon, <1>5, <1>6 DEF Past
  <2>3. \A d \in Resumers \ {c} : resume[d].at \in Past =>
             /\ onDisk'[resume[d].on].claim \in Taken
             /\ executions'[resume[d].on] = executions[resume[d].on]
    BY Zenon, <1>2, <1>4, <1>6, <2>1, HoldersTaken
  <2>4. resume'[c].at \in Past =>
             /\ onDisk'[resume'[c].on].claim \in Taken
             /\ resume'[c].at # "executed" => executions'[resume'[c].on] = 0
             /\ \A d \in Resumers \ {c} : resume[d].at \in Past => resume[d].on # resume'[c].on
    BY Zenon, <1>2, <1>4, <2>2
  <2> QED BY Zenon, <1>6, <2>3, <2>4, HoldersTaken, HolderKept
<1> QED BY Zenon, <1>7, <1>8, <1>9, <1>10 DEF ContinuationInv

\* The result is committed, with the successor of a run that paused again; a
\* failed write leaves the result in memory and takes the successor back.
LEMMA CommitInv ==
    ASSUME ContinuationInv, NEW c \in Resumers, CommitResume(c)
    PROVE  ContinuationInv'
<1> DEFINE g == resume[c].on
           new == Completion(c)
           paused == resume[c].result = "paused"
<1>1. resume[c].at = "executed" /\ resume[c].at \in Past
  BY Zenon DEF CommitResume, Past
<1>2. /\ g \in Generations /\ onDisk[g].claim \in Taken /\ onDisk[g].claim # "completed"
      /\ g > 1 => Paused(onDisk[g - 1])
      /\ \A d \in Resumers \ {c} : resume[d].at \in Past => resume[d].on # g
  BY Zenon, <1>1, HolderFacts
<1>3. resume[c] \in ExecutedCall
  BY Zenon, <1>1, CallShape DEF ContinuationInv, ContinuationTypeOK
<1>4. /\ new \in StoredRecord /\ new.claim = "completed"
      /\ paused => Paused(new)
  BY Zenon, <1>3 DEF Completion, StoredRecord, CompletedRecord, ExecutedCall, Paused
<1>5. NoResume \in ResumeCall /\ NoResume.at = "idle"
  BY DEF ResumeCall, NoResume
<1>6. Unclaimed \in StoredRecord /\ Unclaimed.claim = "none" /\ NotStored \in StoredRecord /\ NotStored.claim = "absent"
  BY Zenon DEF StoredRecord, Unclaimed, NotStored
<1>7. PICK successor \in {Unclaimed, NotStored} :
        /\ inMemory' = [h \in Generations |->
                          IF h = g THEN new ELSE IF paused /\ h = g + 1 THEN successor ELSE inMemory[h]]
        /\ \/ onDisk' = [onDisk EXCEPT ![g] = new]
           \/ UNCHANGED onDisk /\ successor = NotStored
        /\ resume' = [resume EXCEPT ![c] = NoResume] /\ UNCHANGED executions
  BY Zenon DEF CommitResume, Persists, PersistFails, Goes
<1> HIDE DEF g, new, paused
<1>8. g \in Nat /\ \A h \in Generations : h \in Nat
  <2>1. Generations \subseteq Nat
    BY DEF Generations
  <2> QED BY Zenon, <1>2, <2>1
<1>9. /\ inMemory'[g] = new /\ resume'[c] = NoResume
      /\ \/ onDisk'[g] = new
         \/ onDisk'[g] = onDisk[g] /\ successor = NotStored
      /\ \A h \in Generations \ {g} : /\ onDisk'[h] = onDisk[h]
                                      /\ inMemory'[h] = IF paused /\ h = g + 1 THEN successor ELSE inMemory[h]
      /\ \A d \in Resumers \ {c} : resume'[d] = resume[d]
  <2>1. /\ inMemory'[g] = new
        /\ \A h \in Generations \ {g} :
              inMemory'[h] = IF paused /\ h = g + 1 THEN successor ELSE inMemory[h]
    BY Zenon, <1>2, <1>7
  <2>2. /\ resume'[c] = NoResume
        /\ \A d \in Resumers \ {c} : resume'[d] = resume[d]
        /\ \/ onDisk'[g] = new
           \/ onDisk'[g] = onDisk[g] /\ successor = NotStored
        /\ \A h \in Generations \ {g} : onDisk'[h] = onDisk[h]
    BY Zenon, <1>2, <1>7 DEF ContinuationInv, ContinuationTypeOK
  <2> QED BY Zenon, <2>1, <2>2
<1>10. \A h \in Generations : h = g + 1 => onDisk[h].claim = "absent" /\ inMemory[h].claim = "absent"
  <2> SUFFICES ASSUME NEW h \in Generations, h = g + 1
               PROVE  onDisk[h].claim = "absent" /\ inMemory[h].claim = "absent"
      BY Zenon
  <2>1. h > 1 /\ h - 1 = g
    BY <1>2, <1>8 DEF Generations
  <2> QED BY <1>2, <2>1, NoSuccessorYet
<1>11. successor \in StoredRecord /\ successor.claim \in Free
  BY Zenon, <1>6, <1>7 DEF Free
<1>12. ContinuationTypeOK'
  <2>1. \A h \in Generations : inMemory'[h] \in StoredRecord
    BY Zenon, <1>2, <1>4, <1>9, <1>11 DEF ContinuationInv, ContinuationTypeOK
  <2>2. inMemory' \in [Generations -> StoredRecord]
    BY <1>7, <2>1
  <2>3. onDisk' \in [Generations -> StoredRecord] /\ resume' \in [Resumers -> ResumeCall]
    BY Zenon, <1>2, <1>4, <1>5, <1>7 DEF ContinuationInv, ContinuationTypeOK
  <2> QED BY Zenon, <1>7, <2>2, <2>3 DEF ContinuationInv, ContinuationTypeOK
<1>13. MemoryFollows'
  <2> SUFFICES ASSUME NEW h \in Generations
               PROVE  /\ inMemory'[h].claim = "none" => onDisk'[h].claim \in Free
                      /\ onDisk'[h].claim = "completed" => inMemory'[h].claim \in {"absent", "completed"}
      BY Zenon DEF MemoryFollows
  <2>1. CASE h = g
    BY Zenon, <1>4, <1>9, <2>1
  <2>2. CASE h # g /\ h = g + 1 /\ paused
    BY Zenon, <1>9, <1>10, <2>2 DEF Free
  <2>3. CASE h # g /\ ~(h = g + 1 /\ paused)
    BY Zenon, <1>9, <2>3 DEF ContinuationInv, MemoryFollows
  <2> QED BY Zenon, <2>1, <2>2, <2>3
<1>14. ExecutedWhenTaken'
  <2>1. onDisk'[g].claim \notin Free
    BY Zenon, <1>2, <1>4, <1>9 DEF Taken, Free
  <2> QED BY Zenon, <1>7, <1>9, <2>1 DEF ContinuationInv, ExecutedWhenTaken
<1>15. OneHolder'
  <2>1. \A d \in Resumers : resume[d].at \in Past => resume[d].on \in Generations
    BY Zenon, HolderFacts
  <2>2. resume'[c].at \notin Past
    BY Zenon, <1>5, <1>9 DEF Past
  <2>3. \A d \in Resumers \ {c} : resume[d].at \in Past =>
             /\ onDisk'[resume[d].on].claim \in Taken
             /\ executions'[resume[d].on] = executions[resume[d].on]
    BY Zenon, <1>2, <1>7, <1>9, <2>1, HoldersTaken
  <2> QED BY Zenon, <1>9, <2>2, <2>3, HoldersTaken, HolderKept
<1>16. KnownByPause'
  <2> SUFFICES ASSUME NEW h \in Generations, h > 1, onDisk'[h].claim # "absent" \/ inMemory'[h].claim # "absent"
               PROVE  Paused(onDisk'[h - 1])
      BY Zenon DEF KnownByPause, Paused
  <2>1. h - 1 \in Generations /\ h - 1 # h /\ (h = g + 1 <=> h - 1 = g)
    BY <1>8, ContinuationAssumption DEF Generations
  <2>2. CASE h = g + 1
    <3>0. h # g
      BY <1>8, <2>2
    <3>1. h # g /\ onDisk'[h].claim = "absent"
      BY Zenon, <1>9, <1>10, <2>2, <3>0
    <3>2. paused /\ successor # NotStored
      BY Zenon, <1>6, <1>9, <1>10, <2>2, <3>1
    <3> QED BY Zenon, <1>4, <1>9, <2>1, <2>2, <3>2
  <2>3. CASE h # g + 1
    <3>1. onDisk'[h - 1] = onDisk[h - 1]
      BY Zenon, <1>9, <2>1, <2>3
    <3>2. CASE h = g
      BY Zenon, <1>2, <3>1, <3>2
    <3>3. CASE h # g
      BY Zenon, <1>9, <2>3, <3>1, <3>3 DEF ContinuationInv, KnownByPause
    <3> QED BY Zenon, <3>2, <3>3
  <2> QED BY Zenon, <2>2, <2>3
<1> QED BY Zenon, <1>12, <1>13, <1>14, <1>15, <1>16 DEF ContinuationInv

\* A restart leaves the file.
LEMMA RestartInv == ContinuationInv /\ RestartEngine => ContinuationInv'
<1> SUFFICES ASSUME ContinuationInv, RestartEngine PROVE ContinuationInv'
    OBVIOUS
<1>1. /\ NotStored \in StoredRecord /\ NotStored.claim = "absent"
      /\ NoResume \in ResumeCall /\ NoResume.at = "idle"
  BY DEF NotStored, StoredRecord, NoResume, ResumeCall
<1>2. /\ \A g \in Generations : inMemory'[g] = NotStored
      /\ \A c \in Resumers : resume'[c] = NoResume
      /\ UNCHANGED <<onDisk, executions>>
  BY Zenon DEF RestartEngine
<1>3. ContinuationTypeOK'
  BY <1>1, <1>2 DEF RestartEngine, ContinuationInv, ContinuationTypeOK
<1> QED BY Zenon, <1>1, <1>2, <1>3 DEF ContinuationInv, MemoryFollows, OneHolder, ExecutedWhenTaken,
                                KnownByPause, Paused, Past

\* The invariant is inductive.
LEMMA ContinuationStepInv == ContinuationInv /\ [ContinuationNext]_continuationVars => ContinuationInv'
<1> SUFFICES ASSUME ContinuationInv, [ContinuationNext]_continuationVars PROVE ContinuationInv'
    OBVIOUS
<1>1. CASE UNCHANGED continuationVars
  BY Zenon, <1>1 DEF continuationVars, ContinuationInv, ContinuationTypeOK, MemoryFollows, OneHolder,
              ExecutedWhenTaken, KnownByPause, Paused
<1>2. CASE ContinuationNext
  BY ZenonT(60), <1>2, SaveInv, LoadInv, ClaimInv, RepeatInv, MarkInv, ExecuteInv, CommitInv, RestartInv
     DEF ContinuationNext, ResumeStep
<1> QED BY Zenon, <1>1, <1>2

-----------------------------------------------------------------------------
(***************************************************************************)
(* A continuation is executed at most once (ClaimResume, MarkResumeRunning *)
(* and the commit, over failed writes and restarts).                       *)
(***************************************************************************)
THEOREM ContinuationExecutedOnce == ContinuationSpec => []ExecutedOnce
<1>1. ContinuationInv => ExecutedOnce
  BY Zenon DEF ContinuationInv, ExecutedWhenTaken, ExecutedOnce
<1> QED BY <1>1, ContinuationInitInv, ContinuationStepInv, PTL DEF ContinuationSpec

(***************************************************************************)
(* A successor runs only when its predecessor's pause is committed in the  *)
(* file: no orphan of a failed commit is ever resumed                      *)
(* (CommitResumeResultWithSuccessor, loadRecord).                          *)
(***************************************************************************)
SuccessorsAreCommitted ==
    \A g \in Generations : g > 1 /\ executions[g] > 0 => Paused(onDisk[g - 1])

\* Successors run only after a committed pause of their predecessor.
THEOREM ContinuationSuccessors == ContinuationSpec => []SuccessorsAreCommitted
<1>1. ContinuationInv => SuccessorsAreCommitted
  <2> SUFFICES ASSUME ContinuationInv, NEW g \in Generations, g > 1, executions[g] > 0
               PROVE  Paused(onDisk[g - 1])
      BY DEF SuccessorsAreCommitted
  <2>1. onDisk[g].claim # "absent"
    BY DEF ContinuationInv, ExecutedWhenTaken, Free
  <2> QED BY Zenon, <2>1 DEF ContinuationInv, KnownByPause
<1> QED BY <1>1, ContinuationInitInv, ContinuationStepInv, PTL DEF ContinuationSpec

-----------------------------------------------------------------------------
(* What the file says of a claim *)

Claimed == Taken \cup {"completed"}

\* A claim that record r has, record s has: it is of the same request.
SameClaim(r, s) == r.claim \in Claimed => s.claim \in Claimed /\ s.identity = r.identity

(***************************************************************************)
(* The file never goes back on a claim: a continuation that was saved      *)
(* stays, one that was claimed stays claimed by the same request, and a    *)
(* committed result is not written again, whatever calls interleave with   *)
(* it, whichever writes fail and however often the process restarts        *)
(* (ClaimResume, MarkResumeRunning, CommitResumeResultWithSuccessor).      *)
(***************************************************************************)
ClaimsGoForward ==
    \A g \in Generations :
        /\ onDisk[g].claim # "absent" => onDisk'[g].claim # "absent"
        /\ SameClaim(onDisk[g], onDisk'[g])
        /\ onDisk[g].claim = "completed" => onDisk'[g] = onDisk[g]

\* A claim in memory, or held by a call, is that of the file.
ClaimsAgree ==
    /\ \A g \in Generations : SameClaim(inMemory[g], onDisk[g])
    /\ \A c \in Resumers : resume[c].at \in Past => onDisk[resume[c].on].identity = resume[c].identity

LEMMA NoClaim ==
    /\ NotStored.claim = "absent" /\ Unclaimed.claim = "none" /\ NoResume.at = "idle"
    /\ \A r : SameClaim(NotStored, r) /\ SameClaim(Unclaimed, r)
    /\ \A r : SameClaim(r, r)
<1>1. NotStored.claim = "absent" /\ Unclaimed.claim = "none" /\ NoResume.at = "idle"
  BY DEF NotStored, Unclaimed, NoResume
<1>2. "absent" \notin Claimed /\ "none" \notin Claimed
  BY DEF Claimed, Taken
<1> QED BY Zenon, <1>1, <1>2 DEF SameClaim

\* A call that has a claim keeps it as long as the file does.
LEMMA ClaimsStep ==
    ASSUME ContinuationInv, ClaimsAgree, ClaimsGoForward,
           \A g \in Generations : SameClaim(inMemory'[g], onDisk'[g]),
           \A c \in Resumers : resume'[c].at \in Past =>
               \/ /\ resume[c].at \in Past
                  /\ resume'[c].on = resume[c].on /\ resume'[c].identity = resume[c].identity
               \/ onDisk'[resume'[c].on].identity = resume'[c].identity
    PROVE  ClaimsAgree'
<1> SUFFICES ASSUME NEW c \in Resumers, resume[c].at \in Past,
                    resume'[c].on = resume[c].on, resume'[c].identity = resume[c].identity
             PROVE  onDisk'[resume[c].on].identity = resume[c].identity
    BY Zenon DEF ClaimsAgree
<1>1. resume[c].on \in Generations /\ onDisk[resume[c].on].claim \in Claimed
  BY Zenon, HolderFacts DEF Claimed
<1>2. onDisk'[resume[c].on].identity = onDisk[resume[c].on].identity
  BY Zenon, <1>1 DEF ClaimsGoForward, SameClaim
<1> QED BY Zenon, <1>2 DEF ClaimsAgree

\* One record is written, over one that is not completed, by who has its claim.
LEMMA WriteForward ==
    ASSUME NEW g \in Generations, \A h \in Generations \ {g} : onDisk'[h] = onDisk[h],
           onDisk[g].claim # "completed", onDisk'[g].claim # "absent",
           SameClaim(onDisk[g], onDisk'[g])
    PROVE  ClaimsGoForward
<1>1. \A r : SameClaim(r, r)
  BY Zenon, NoClaim
<1> QED BY Zenon, <1>1 DEF ClaimsGoForward

\* The file is left alone.
LEMMA NothingWritten ==
    ASSUME UNCHANGED onDisk
    PROVE  ClaimsGoForward
BY Zenon, NoClaim DEF ClaimsGoForward

\* A call ends and memory and file stay.
LEMMA ClaimsWhenCallEnds ==
    ASSUME ContinuationInv, ClaimsAgree, NEW c \in Resumers, UNCHANGED <<onDisk, inMemory>>,
           resume' = [resume EXCEPT ![c] = NoResume]
    PROVE  ClaimsGoForward /\ ClaimsAgree'
<1>1. ClaimsGoForward
  BY Zenon, NothingWritten
<1>2. resume'[c].at \notin Past /\ \A d \in Resumers \ {c} : resume'[d] = resume[d]
  BY Zenon, NoClaim DEF ContinuationInv, ContinuationTypeOK, Past
<1>3. \A g \in Generations : SameClaim(inMemory'[g], onDisk'[g])
  BY Zenon DEF ClaimsAgree
<1> QED BY Zenon, <1>1, <1>2, <1>3, ClaimsStep

\* A load reads the claim of the file.
LEMMA ClaimsWhenLoaded ==
    ASSUME ContinuationInv, ClaimsAgree, NEW c \in Resumers, NEW g \in Generations,
           NEW i \in ResumeIdentities, LoadContinuation(c, g, i)
    PROVE  ClaimsGoForward /\ ClaimsAgree'
<1>1. ClaimsGoForward
  BY Zenon, NothingWritten DEF LoadContinuation
<1>2. /\ inMemory'[g] = Reread(Found(g)) /\ UNCHANGED onDisk
      /\ \A h \in Generations \ {g} : inMemory'[h] = inMemory[h]
      /\ resume'[c].at = "loaded" /\ \A d \in Resumers \ {c} : resume'[d] = resume[d]
  BY Zenon DEF LoadContinuation, Remembers, Goes, ContinuationInv, ContinuationTypeOK
<1>3. resume'[c].at \notin Past
  BY Zenon, <1>2 DEF Past
<1>4. onDisk[g] \in StoredRecord
  BY Zenon DEF ContinuationInv, ContinuationTypeOK
<1>5. SameClaim(Reread(Found(g)), onDisk[g])
  <2>1. CASE Found(g) = onDisk[g]
    <3>1. CASE onDisk[g].claim \in {"claimed", "running"}
      <4>1. onDisk[g] \in ClaimedRecord /\ onDisk[g].claim \in Claimed
        BY Zenon, <1>4, <3>1, RecordShape DEF Taken, Claimed
      <4>2. [onDisk[g] EXCEPT !.claim = "recovery_required"].identity = onDisk[g].identity
        BY Zenon, <4>1 DEF ClaimedRecord
      <4> QED BY Zenon, <2>1, <3>1, <4>1, <4>2 DEF Reread, SameClaim
    <3>2. CASE onDisk[g].claim \notin {"claimed", "running"}
      BY Zenon, <2>1, <3>2, NoClaim DEF Reread
    <3> QED BY Zenon, <3>1, <3>2
  <2>2. CASE Found(g) \in {Unclaimed, NotStored}
    <3>1. "absent" \notin {"claimed", "running"} /\ "none" \notin {"claimed", "running"}
      BY Zenon
    <3>2. Reread(Found(g)) \in {Unclaimed, NotStored}
      BY Zenon, <2>2, <3>1, NoClaim DEF Reread
    <3> QED BY Zenon, <3>2, NoClaim
  <2> QED BY Zenon, <2>1, <2>2 DEF Found
<1>6. \A h \in Generations : SameClaim(inMemory'[h], onDisk'[h])
  BY Zenon, <1>2, <1>5 DEF ClaimsAgree
<1> QED BY Zenon, <1>1, <1>2, <1>3, <1>6, ClaimsStep

\* A claim is written over a record that has none.
LEMMA ClaimsWhenClaimed ==
    ASSUME ContinuationInv, ClaimsAgree, NEW c \in Resumers, ClaimContinuation(c)
    PROVE  ClaimsGoForward /\ ClaimsAgree'
<1> DEFINE g == resume[c].on
           claim == [claim |-> "claimed", identity |-> resume[c].identity]
           next == [resume[c] EXCEPT !.at = "claimed"]
<1>1. resume[c] \in OpenCall /\ g \in Generations /\ inMemory[g].claim = "none"
  BY Zenon, CallShape, NoClaim DEF ClaimContinuation, ContinuationInv, ContinuationTypeOK
<1>2. onDisk[g].claim \in Free
  BY Zenon, <1>1 DEF ContinuationInv, MemoryFollows
<1>3. onDisk[g].claim \notin Claimed /\ onDisk[g].claim # "completed"
  BY Zenon, <1>2 DEF Free, Claimed, Taken
<1>4. claim.claim = "claimed" /\ claim.identity = resume[c].identity
  BY Zenon
<1>5. next.at = "claimed" /\ next.on = g /\ next.identity = resume[c].identity
  BY Zenon, <1>1 DEF OpenCall
<1>6. CASE PersistFails /\ UNCHANGED inMemory /\ Goes(c, NoResume)
  BY Zenon, <1>6, ClaimsWhenCallEnds DEF PersistFails, Goes
<1>7. CASE Persists(g, claim) /\ Remembers(g, claim) /\ Goes(c, next)
  <2> HIDE DEF g, claim, next
  <2>1. /\ onDisk'[g] = claim /\ inMemory'[g] = claim /\ resume'[c] = next
        /\ \A h \in Generations \ {g} : onDisk'[h] = onDisk[h] /\ inMemory'[h] = inMemory[h]
        /\ \A d \in Resumers \ {c} : resume'[d] = resume[d]
    BY Zenon, <1>1, <1>7 DEF Persists, Remembers, Goes, ContinuationInv, ContinuationTypeOK
  <2>2. ClaimsGoForward
    <3>1. SameClaim(onDisk[g], onDisk'[g]) /\ onDisk'[g].claim # "absent"
      BY Zenon, <1>3, <1>4, <2>1 DEF SameClaim
    <3> QED BY Zenon, <1>1, <1>3, <2>1, <3>1, WriteForward
  <2>3. \A h \in Generations : SameClaim(inMemory'[h], onDisk'[h])
    BY Zenon, <2>1, NoClaim DEF ClaimsAgree
  <2>4. onDisk'[resume'[c].on].identity = resume'[c].identity
    BY Zenon, <1>4, <1>5, <2>1
  <2> QED BY Zenon, <2>1, <2>2, <2>3, <2>4, ClaimsStep
<1> QED BY Zenon, <1>6, <1>7 DEF ClaimContinuation

\* A repeated claim writes the claim that memory has.
LEMMA ClaimsWhenRepeated ==
    ASSUME ContinuationInv, ClaimsAgree, NEW c \in Resumers, RepeatClaim(c)
    PROVE  ClaimsGoForward /\ ClaimsAgree'
<1> DEFINE g == resume[c].on
<1>1. g \in Generations
  BY Zenon, CallShape DEF RepeatClaim, ContinuationInv, ContinuationTypeOK
<1>2. CASE UNCHANGED onDisk
  BY Zenon, <1>2, ClaimsWhenCallEnds DEF RepeatClaim, Goes
<1>3. CASE inMemory[g].claim = "recovery_required" /\ Persists(g, inMemory[g])
  <2> HIDE DEF g
  <2>1. /\ onDisk'[g] = inMemory[g] /\ \A h \in Generations \ {g} : onDisk'[h] = onDisk[h]
    BY Zenon, <1>1, <1>3 DEF Persists, ContinuationInv, ContinuationTypeOK
  <2>2. /\ UNCHANGED inMemory /\ resume'[c].at \notin Past
        /\ \A d \in Resumers \ {c} : resume'[d] = resume[d]
    BY Zenon, NoClaim DEF RepeatClaim, Goes, Past, ContinuationInv, ContinuationTypeOK
  <2>3. onDisk[g].claim # "completed"
    BY Zenon, <1>1, <1>3 DEF ContinuationInv, MemoryFollows
  <2>4. inMemory[g].claim \in Claimed /\ inMemory[g].claim # "absent"
    BY Zenon, <1>3 DEF Claimed, Taken
  <2>5. onDisk[g].claim \in Claimed /\ onDisk[g].identity = inMemory[g].identity
    BY Zenon, <1>1, <2>4 DEF ClaimsAgree, SameClaim
  <2>6. ClaimsGoForward
    <3>1. SameClaim(onDisk[g], onDisk'[g]) /\ onDisk'[g].claim # "absent"
      BY Zenon, <2>1, <2>4, <2>5 DEF SameClaim
    <3> QED BY Zenon, <1>1, <2>1, <2>3, <3>1, WriteForward
  <2>7. \A h \in Generations : SameClaim(inMemory'[h], onDisk'[h])
    BY Zenon, <2>1, <2>2, NoClaim DEF ClaimsAgree
  <2> QED BY Zenon, <2>2, <2>6, <2>7, ClaimsStep
<1> QED BY Zenon, <1>2, <1>3 DEF RepeatClaim, PersistFails

\* Only the call that has the claim marks it running.
LEMMA ClaimsWhenMarked ==
    ASSUME ContinuationInv, ClaimsAgree, NEW c \in Resumers, MarkResumeRunning(c)
    PROVE  ClaimsGoForward /\ ClaimsAgree'
<1> DEFINE g == resume[c].on
           running == [inMemory[g] EXCEPT !.claim = "running"]
           next == [resume[c] EXCEPT !.at = "running"]
<1>1. resume[c].at \in Past
  BY Zenon DEF MarkResumeRunning, Past
<1>2. g \in Generations /\ onDisk[g].claim # "completed" /\ onDisk[g].claim \in Taken
  BY Zenon, <1>1, HolderFacts
<1>3. CASE inMemory[g].claim \notin {"claimed", "running"}
  BY Zenon, <1>3, ClaimsWhenCallEnds DEF MarkResumeRunning, Goes
<1>4. CASE inMemory[g].claim \in {"claimed", "running"}
  <2>1. inMemory[g] \in ClaimedRecord /\ inMemory[g].claim \in Claimed
    BY Zenon, <1>2, <1>4, RecordShape DEF ContinuationInv, ContinuationTypeOK, Taken, Claimed
  <2>2. running.claim = "running" /\ running.identity = inMemory[g].identity
    BY Zenon, <2>1 DEF ClaimedRecord
  <2>3. resume[c] \in OpenCall
    BY Zenon, CallShape DEF MarkResumeRunning, ContinuationInv, ContinuationTypeOK
  <2>4. next.at = "running" /\ next.on = resume[c].on /\ next.identity = resume[c].identity
    BY Zenon, <2>3 DEF OpenCall
  <2>5. /\ inMemory' = [inMemory EXCEPT ![g] = running]
        /\ \/ onDisk' = [onDisk EXCEPT ![g] = running] /\ resume' = [resume EXCEPT ![c] = next]
           \/ UNCHANGED onDisk /\ resume' = [resume EXCEPT ![c] = NoResume]
    BY Zenon, <1>4 DEF MarkResumeRunning, Remembers, Persists, PersistFails, Goes
  <2> HIDE DEF running, next
  <2>6. onDisk[g].claim \in Claimed /\ onDisk[g].identity = inMemory[g].identity
    BY Zenon, <1>2, <2>1 DEF ClaimsAgree, SameClaim
  <2>7. running.claim \in Claimed /\ running.claim # "absent"
    BY Zenon, <2>2 DEF Claimed, Taken
  <2>8. SameClaim(onDisk[g], running) /\ SameClaim(running, onDisk[g]) /\ SameClaim(running, running)
    BY Zenon, <2>2, <2>6, <2>7 DEF SameClaim
  <2>9. /\ inMemory'[g] = running /\ onDisk'[g] \in {running, onDisk[g]}
        /\ \A h \in Generations \ {g} : onDisk'[h] = onDisk[h] /\ inMemory'[h] = inMemory[h]
        /\ resume'[c] \in {next, NoResume} /\ \A d \in Resumers \ {c} : resume'[d] = resume[d]
    BY Zenon, <1>2, <2>5 DEF ContinuationInv, ContinuationTypeOK
  <2>10. ClaimsGoForward
    <3>1. SameClaim(onDisk[g], onDisk'[g]) /\ onDisk'[g].claim # "absent"
      BY Zenon, <1>2, <2>7, <2>8, <2>9, NoClaim DEF Taken
    <3> QED BY Zenon, <1>2, <2>9, <3>1, WriteForward
  <2>11. \A h \in Generations : SameClaim(inMemory'[h], onDisk'[h])
    BY Zenon, <2>8, <2>9 DEF ClaimsAgree
  <2>12. resume'[c].at \in Past =>
           resume'[c].on = resume[c].on /\ resume'[c].identity = resume[c].identity
    BY Zenon, <2>4, <2>9, NoClaim DEF Past
  <2> QED BY Zenon, <1>1, <2>9, <2>10, <2>11, <2>12, ClaimsStep
<1> QED BY Zenon, <1>3, <1>4

\* An execution does not touch the claim.
LEMMA ClaimsWhenExecuted ==
    ASSUME ContinuationInv, ClaimsAgree, NEW c \in Resumers, ExecuteContinuation(c)
    PROVE  ClaimsGoForward /\ ClaimsAgree'
<1>1. UNCHANGED <<onDisk, inMemory>> /\ resume[c].at \in Past
  BY Zenon DEF ExecuteContinuation, Past
<1>2. ClaimsGoForward /\ \A h \in Generations : SameClaim(inMemory'[h], onDisk'[h])
  BY Zenon, <1>1, NothingWritten DEF ClaimsAgree
<1>3. \E next :
        /\ resume' = [resume EXCEPT ![c] = next]
        /\ \/ next.at = "idle"
           \/ next.on = resume[c].on /\ next.identity = resume[c].identity
  <2>1. \/ resume' = [resume EXCEPT ![c] = NoResume]
        \/ \E result \in {"done", "paused"} :
              resume' = [resume EXCEPT ![c] = [at |-> "executed", on |-> resume[c].on,
                                               identity |-> resume[c].identity, result |-> result]]
    BY Zenon DEF ExecuteContinuation, Goes
  <2>2. \A result : LET next == [at |-> "executed", on |-> resume[c].on,
                                 identity |-> resume[c].identity, result |-> result]
                    IN  next.on = resume[c].on /\ next.identity = resume[c].identity
    BY Zenon
  <2> QED BY Zenon, <2>1, <2>2, NoClaim
<1>4. /\ resume'[c].at \in Past =>
            resume'[c].on = resume[c].on /\ resume'[c].identity = resume[c].identity
      /\ \A d \in Resumers \ {c} : resume'[d] = resume[d]
  BY Zenon, <1>3 DEF ContinuationInv, ContinuationTypeOK, Past
<1> QED BY Zenon, <1>1, <1>2, <1>4, ClaimsStep

\* Only the call that has the claim completes it.
LEMMA ClaimsWhenCommitted ==
    ASSUME ContinuationInv, ClaimsAgree, NEW c \in Resumers, CommitResume(c)
    PROVE  ClaimsGoForward /\ ClaimsAgree'
<1> DEFINE g == resume[c].on
           new == Completion(c)
           paused == resume[c].result = "paused"
<1>1. resume[c].at \in Past
  BY Zenon DEF CommitResume, Past
<1>2. g \in Generations /\ onDisk[g].claim # "completed" /\ onDisk[g].claim \in Taken
  BY Zenon, <1>1, HolderFacts
<1>3. onDisk[g].identity = resume[c].identity /\ onDisk[g].claim \in Claimed
  BY Zenon, <1>1, <1>2 DEF ClaimsAgree, Claimed
<1>4. new.claim = "completed" /\ new.identity = resume[c].identity
  BY Zenon DEF Completion
<1>5. PICK successor \in {Unclaimed, NotStored} :
        /\ inMemory' = [h \in Generations |->
                          IF h = g THEN new ELSE IF paused /\ h = g + 1 THEN successor ELSE inMemory[h]]
        /\ onDisk' = [onDisk EXCEPT ![g] = new] \/ UNCHANGED onDisk
        /\ resume' = [resume EXCEPT ![c] = NoResume]
  BY Zenon DEF CommitResume, Persists, PersistFails, Goes
<1> HIDE DEF g, new, paused
<1>6. new.claim \in Claimed /\ new.claim # "absent" /\ onDisk[g].claim # "absent"
  BY Zenon, <1>2, <1>4 DEF Claimed, Taken
<1>7. SameClaim(onDisk[g], new) /\ SameClaim(new, onDisk[g]) /\ SameClaim(new, new)
  BY Zenon, <1>3, <1>4, <1>6 DEF SameClaim
<1>8. /\ inMemory'[g] = new /\ onDisk'[g] \in {new, onDisk[g]}
      /\ \A h \in Generations \ {g} : onDisk'[h] = onDisk[h] /\ inMemory'[h] \in {successor, inMemory[h]}
  <2>1. /\ inMemory'[g] = new
        /\ \A h \in Generations \ {g} : inMemory'[h] \in {successor, inMemory[h]}
    BY Zenon, <1>2, <1>5
  <2> QED BY Zenon, <1>2, <1>5, <2>1 DEF ContinuationInv, ContinuationTypeOK
<1>9. resume'[c].at \notin Past /\ \A d \in Resumers \ {c} : resume'[d] = resume[d]
  BY Zenon, <1>5, NoClaim DEF Past, ContinuationInv, ContinuationTypeOK
<1>10. ClaimsGoForward
  <2>1. SameClaim(onDisk[g], onDisk'[g]) /\ onDisk'[g].claim # "absent"
    BY Zenon, <1>6, <1>7, <1>8, NoClaim
  <2> QED BY Zenon, <1>2, <1>8, <2>1, WriteForward
<1>11. \A h \in Generations : SameClaim(inMemory'[h], onDisk'[h])
  BY Zenon, <1>5, <1>7, <1>8, NoClaim DEF ClaimsAgree
<1> QED BY Zenon, <1>9, <1>10, <1>11, ClaimsStep

\* The first continuation is saved where there is none; a restart leaves the file.
LEMMA ClaimsWhenSavedOrRestarted ==
    ASSUME ContinuationInv, ClaimsAgree, SaveContinuation \/ RestartEngine
    PROVE  ClaimsGoForward /\ ClaimsAgree'
<1>1. CASE RestartEngine
  <2>1. /\ UNCHANGED onDisk /\ \A g \in Generations : inMemory'[g] = NotStored
        /\ \A c \in Resumers : resume'[c].at \notin Past
    BY Zenon, <1>1, NoClaim DEF RestartEngine, Past
  <2>2. ClaimsGoForward /\ \A g \in Generations : SameClaim(inMemory'[g], onDisk'[g])
    BY Zenon, <2>1, NothingWritten, NoClaim
  <2> QED BY Zenon, <2>1, <2>2, ClaimsStep
<1>2. CASE SaveContinuation
  <2>0. 1 \in Generations
    BY ContinuationAssumption DEF Generations
  <2>1. /\ onDisk[1] = NotStored /\ UNCHANGED resume
        /\ \/ UNCHANGED <<onDisk, inMemory>>
           \/ /\ onDisk' = [onDisk EXCEPT ![1] = Unclaimed]
              /\ inMemory' = [inMemory EXCEPT ![1] = Unclaimed]
    BY Zenon, <1>2 DEF SaveContinuation, Persists, PersistFails, Remembers
  <2>2. CASE UNCHANGED <<onDisk, inMemory>>
    <3>1. ClaimsGoForward /\ \A g \in Generations : SameClaim(inMemory'[g], onDisk'[g])
      BY Zenon, <2>2, NothingWritten DEF ClaimsAgree
    <3> QED BY Zenon, <2>1, <3>1, ClaimsStep
  <2>3. CASE onDisk' = [onDisk EXCEPT ![1] = Unclaimed] /\ inMemory' = [inMemory EXCEPT ![1] = Unclaimed]
    <3>1. /\ onDisk'[1] = Unclaimed /\ inMemory'[1] = Unclaimed
          /\ \A h \in Generations \ {1} : onDisk'[h] = onDisk[h] /\ inMemory'[h] = inMemory[h]
      BY Zenon, <2>0, <2>3 DEF ContinuationInv, ContinuationTypeOK
    <3>2. onDisk[1].claim # "completed" /\ onDisk'[1].claim # "absent" /\ SameClaim(onDisk[1], onDisk'[1])
      BY Zenon, <2>1, <3>1, NoClaim
    <3>3. ClaimsGoForward
      BY Zenon, <2>0, <3>1, <3>2, WriteForward
    <3>4. \A g \in Generations : SameClaim(inMemory'[g], onDisk'[g])
      BY Zenon, <3>1, NoClaim DEF ClaimsAgree
    <3> QED BY Zenon, <2>1, <3>3, <3>4, ClaimsStep
  <2> QED BY Zenon, <2>1, <2>2, <2>3
<1> QED BY Zenon, <1>1, <1>2

\* No step goes back on a claim.
LEMMA ClaimsNext ==
    ContinuationInv /\ ClaimsAgree /\ [ContinuationNext]_continuationVars => ClaimsGoForward /\ ClaimsAgree'
<1> SUFFICES ASSUME ContinuationInv, ClaimsAgree, [ContinuationNext]_continuationVars
             PROVE  ClaimsGoForward /\ ClaimsAgree'
    BY Zenon
<1>1. CASE UNCHANGED continuationVars
  <2>1. UNCHANGED <<onDisk, inMemory, resume>>
    BY Zenon, <1>1 DEF continuationVars
  <2> QED BY Zenon, <2>1, NothingWritten DEF ClaimsAgree
<1>2. CASE ContinuationNext
  BY Zenon, <1>2, ClaimsWhenSavedOrRestarted, ClaimsWhenLoaded, ClaimsWhenClaimed, ClaimsWhenRepeated,
     ClaimsWhenMarked, ClaimsWhenExecuted, ClaimsWhenCommitted DEF ContinuationNext, ResumeStep
<1> QED BY Zenon, <1>1, <1>2

(***************************************************************************)
(* No write of the continuation store takes back a claim or a committed    *)
(* result (ClaimResume, MarkResumeRunning,                                 *)
(* CommitResumeResultWithSuccessor, persistRecord): the claim a call has,  *)
(* and the one memory has, is that of the file.                            *)
(***************************************************************************)
THEOREM ContinuationClaims == ContinuationSpec => [][ClaimsGoForward]_continuationVars
<1>1. ContinuationInit => ClaimsAgree
  <2> SUFFICES ASSUME ContinuationInit PROVE ClaimsAgree
      BY Zenon
  <2>1. /\ \A g \in Generations : inMemory[g] = NotStored
        /\ \A c \in Resumers : resume[c].at \notin Past
    BY Zenon, NoClaim DEF ContinuationInit, Past
  <2> QED BY Zenon, <2>1, NoClaim DEF ClaimsAgree
<1> QED BY <1>1, ContinuationInitInv, ContinuationStepInv, ClaimsNext, PTL DEF ContinuationSpec
=============================================================================
