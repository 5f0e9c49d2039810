------------------------- MODULE ArchiveGuardProofs -------------------------
(***************************************************************************)
(* Theorems of the archive guard, for every layout of the cache, both       *)
(* systems, every set of failures and foreign changes and every bound: type *)
(* correctness, that each rule is accounted for by the receipt, that what   *)
(* was moved away stays recorded, that a healthy verdict lasts, and that     *)
(* commands leave the entries of others alone in every list that nobody      *)
(* changes between check and change.                                        *)
(***************************************************************************)
EXTENDS ArchiveGuard, SequenceTheorems, FiniteSetTheorems, TLAPS

USE PathAssumption, BoundAssumption
-----------------------------------------------------------------------------
(* The inductive invariant. *)

Rules == {"own", "inherited"}
Node == [inode : 0..MaxInodes, acl : Acl]
Recorded == [inode : 1..MaxInodes, rule : Rules, before : Acl]

\* Recorded changes are a function on paths; they begin with the root, and none
\* of them found a rule in the list that it remembers.
AreRecorded(f) ==
    /\ f \in [DOMAIN f -> Recorded] /\ DOMAIN f \subseteq Path
    /\ DOMAIN f # {} => Root \in DOMAIN f /\ f[Root].rule = "own"
    /\ \A p \in DOMAIN f : Listed(f[p].before) \cap Rules = {}

NodeTypes ==
    /\ platform \in Platform
    /\ fs \in [Path -> Node] /\ away \in [Path -> Node]
    /\ tampered \in BOOLEAN /\ verdict \in {"none", "healthy"}
    /\ budget \in [inodes : 0..MaxInodes, enables : 0..MaxEnables,
                   faults : 0..MaxFaults, kills : 0..MaxKills]
CommandTypes ==
    /\ cmd = [pc |-> cmd.pc, op |-> cmd.op, changes |-> cmd.changes, todo |-> cmd.todo,
              next |-> cmd.next, at |-> cmd.at, creates |-> cmd.creates]
    /\ cmd.pc \in {"idle", "prepare", "mkdir", "list", "record", "check", "chmod", "verify",
                   "finish", "disabling", "sweep", "remove"}
    /\ cmd.op \in {"none", "enable", "disable"} /\ AreRecorded(cmd.changes)
    /\ cmd.todo \subseteq DOMAIN cmd.changes
    /\ cmd.at \in IF cmd.pc \in {"chmod", "verify"} THEN cmd.todo ELSE {None}
    /\ cmd.pc \notin {"check", "chmod", "verify"} => cmd.todo = {}
    /\ cmd.next \in {"idle", "finish", "sweep", "remove"} /\ cmd.creates \in BOOLEAN
ReceiptTypes ==
    /\ receipt = [phase |-> receipt.phase, changes |-> receipt.changes]
    /\ receipt.phase \in Phase \cup {"none"} /\ AreRecorded(receipt.changes)
    /\ receipt.phase \in {"none", "preparing"} => receipt.changes = NoChanges
    /\ receipt.phase \in {"enabling", "enabled"} =>
          \A p \in DOMAIN receipt.changes : receipt.changes[p].rule = "own"

\* The cache is a tree, what was moved away is not in its place as well, and
\* only a workspace inherits.
Tree(f) ==
    /\ \A p \in Path : f[Root] = Absent => f[p] = Absent
    /\ \A a \in Artifact : f[WorkspaceOf[a]] = Absent => f[a] = Absent
Layout ==
    /\ \A p \in Path : \A n \in {fs[p], away[p]} :
          n.inode <= budget.inodes /\ (n.inode = 0 => n = Absent)
    /\ \A p \in Path : away[p] # Absent => fs[p].inode # away[p].inode /\ p # Root /\ platform = "windows"
    /\ Tree(fs)
    /\ \A p \in Path : "inherited" \notin Listed(away[p].acl)
                       /\ ("inherited" \in Entries(p) => p \in Workspace)

Applying == cmd.pc \in {"check", "chmod", "verify"}

\* Where a command is, and what the receipt says meanwhile.
Phases ==
    /\ cmd.pc = "idle" => cmd = Idle
    /\ cmd.pc # "idle" => cmd.op # "none"
    /\ cmd.pc = "prepare" => cmd.op = "enable" /\ receipt.phase = "none"
    /\ cmd.pc \in {"mkdir", "list"} => cmd.op = "enable"
    /\ cmd.op = "enable" /\ cmd.pc \in {"mkdir", "list", "record"} => receipt.phase = "preparing"
    /\ cmd.op = "enable" => \A p \in DOMAIN cmd.changes : cmd.changes[p].rule = "own"
    /\ Applying => \/ cmd.next = "finish" /\ cmd.op = "enable"
                   \/ cmd.next \in {"sweep", "remove"} /\ cmd.op = "disable"
    /\ cmd.pc = "finish" => cmd.op = "enable"
    /\ cmd.op = "enable" /\ (Applying \/ cmd.pc = "finish") =>
          receipt.phase = "enabling" /\ receipt.changes = cmd.changes
    /\ cmd.pc \in {"disabling", "sweep", "remove"} => cmd.op = "disable"
    /\ cmd.pc = "disabling" => receipt.phase \notin {"none", "preparing"}
    /\ cmd.op = "disable" /\ cmd.pc \notin {"disabling", "remove"} => receipt.phase = "disabling"
    /\ cmd.op = "disable" /\ cmd.pc # "record" => receipt.changes = cmd.changes
    /\ cmd.op = "disable" /\ cmd.pc # "remove" => Root \in DOMAIN cmd.changes
    /\ cmd.op = "disable" /\ Applying /\ cmd.next = "sweep" => cmd.todo \subseteq {Root}

\* A path with a rule, in its place or moved away.
Ruled(p) == Entries(p) \cap Rules # {} \/ "own" \in Listed(away[p].acl)

\* No rule before a receipt names its path; on windows the receipt also has the
\* identity of what has the rule.
Named ==
    /\ receipt.phase \in {"none", "preparing"} => \A p \in Path : ~Ruled(p)
    /\ \A p \in Path : "own" \in Entries(p) =>
          /\ p \in DOMAIN receipt.changes
          /\ platform = "windows" => receipt.changes[p].inode = fs[p].inode
    /\ MovedStaysRecorded
    /\ Applying /\ cmd.at # None /\ platform = "windows" => fs[cmd.at].inode = cmd.changes[cmd.at].inode

\* How far a disable has come: the root is without its rule, and then what is
\* left is what is still to be done.
RootDone == \/ cmd.pc \in {"sweep", "record", "remove"} \/ cmd.next = "remove"
            \/ (Applying /\ cmd.next = "sweep" /\ Root \notin cmd.todo)
Swept ==
    cmd.op = "disable" =>
        /\ RootDone => "own" \notin Entries(Root)
        /\ cmd.pc = "record" => \A p \in Path : Ruled(p) =>
              /\ p \in DOMAIN cmd.changes
              /\ p \in DOMAIN receipt.changes => cmd.changes[p] = receipt.changes[p]
        /\ Applying /\ cmd.next = "remove" => \A p \in Path : Ruled(p) => p \in cmd.todo
        /\ cmd.pc = "remove" => \A p \in Path : ~Ruled(p)

\* An inspection that nobody disturbed: what it has passed is guarded, or it will
\* stop at something that is not.
Guarded(p) == Entries(p) \cap Rules # {}
Watched ==
    /\ insp.pc \in {"idle", "list", "node"}
    /\ insp = [pc |-> insp.pc, changes |-> insp.changes, todo |-> insp.todo]
    /\ insp.pc = "idle" => insp = Resting
    /\ insp.changes \in [DOMAIN insp.changes -> Recorded] /\ DOMAIN insp.changes \subseteq Path
    /\ insp.todo \subseteq DOMAIN insp.changes
    /\ insp.pc # "idle" => verdict = "none" /\ Root \in DOMAIN insp.changes
                           /\ insp.changes[Root].rule = "own"
    /\ (insp.pc # "idle" \/ verdict = "healthy") /\ ~tampered =>
          cmd = Idle /\ receipt.phase = "enabled"
    /\ (insp.pc = "node" \/ verdict = "healthy") /\ ~tampered => fs[Root] # Absent
    /\ insp.pc = "node" /\ ~tampered => \A p \in Present \ insp.todo :
          \/ Guarded(p)
          \/ p \in Workspace /\ Root \in insp.todo /\ "own" \notin Entries(Root)
          \/ p \in Artifact /\ ~Guarded(WorkspaceOf[p])
    /\ HealthyMeansGuarded

\* Whether the change in hand was raced is a plain Boolean.
RaceTypes == raced \in BOOLEAN

IInv == RaceTypes /\ NodeTypes /\ CommandTypes /\ ReceiptTypes /\ Layout /\ Phases /\ Named /\ Swept /\ Watched

-----------------------------------------------------------------------------
(* Lists of access entries. *)

Ace == {"own", "inherited", "other"}

\* Lists of no entry and of one.
LEMMA ShortLists ==
    /\ <<>> \in Acl /\ Listed(<<>>) = {}
    /\ \A e \in Ace : <<e>> \in Acl /\ Listed(<<e>>) = {e} /\ <<e>> # <<>>
<1>1. Acl = Seq(Ace)
  BY DEF Acl, Ace
<1> QED BY <1>1 DEF Listed

\* What an entry in front, at the end, or taken away makes of a list.
LEMMA Lists ==
    ASSUME NEW acl \in Acl, NEW e \in Ace
    PROVE  /\ <<e>> \o acl \in Acl /\ Listed(<<e>> \o acl) = {e} \cup Listed(acl)
           /\ Append(acl, e) \in Acl /\ Listed(Append(acl, e)) = Listed(acl) \cup {e}
           /\ acl # <<>> => Tail(acl) \in Acl /\ Listed(Tail(acl)) \subseteq Listed(acl)
<1>1. Acl = Seq(Ace) /\ acl \in Seq(Ace)
  BY DEF Acl, Ace
<1>2. <<e>> \o acl \in Acl
  BY <1>1
<1>3. Listed(<<e>> \o acl) = {e} \cup Listed(acl)
  <2>1. Len(<<e>> \o acl) = Len(acl) + 1 /\ (<<e>> \o acl)[1] = e
        /\ \A n \in 1..Len(acl) : (<<e>> \o acl)[n + 1] = acl[n]
    <3>1. <<e>> \in Seq(Ace) /\ Len(<<e>>) = 1 /\ <<e>>[1] = e /\ Len(acl) \in Nat
      BY <1>1
    <3>2. /\ Len(<<e>> \o acl) = 1 + Len(acl)
          /\ \A i \in 1..1 + Len(acl) :
                (<<e>> \o acl)[i] = IF i <= 1 THEN <<e>>[i] ELSE acl[i - 1]
      BY <1>1, <3>1, ConcatProperties
    <3>3. ASSUME NEW n \in 1..Len(acl) PROVE (<<e>> \o acl)[n + 1] = acl[n]
      <4>1. n + 1 \in 1..1 + Len(acl) /\ ~(n + 1 <= 1) /\ (n + 1) - 1 = n
        BY <3>1
      <4> QED BY ONLY <3>2, <4>1
    <3>4. 1 \in 1..1 + Len(acl)
      BY <3>1
    <3>5. (<<e>> \o acl)[1] = e
      BY ONLY <3>1, <3>2, <3>4
    <3> QED BY <3>1, <3>2, <3>3, <3>5
  <2>2. Len(acl) \in Nat
    BY <1>1
  <2>3. \A n \in 1..(Len(acl) + 1) : n = 1 \/ (n - 1 \in 1..Len(acl) /\ n = (n - 1) + 1)
    BY <2>2
  <2> DEFINE s == <<e>> \o acl
  <2> HIDE DEF s
  <2>4. Len(s) = Len(acl) + 1 /\ s[1] = e /\ \A n \in 1..Len(acl) : s[n + 1] = acl[n]
    BY <2>1 DEF s
  <2>5. Listed(s) \subseteq {e} \cup Listed(acl)
    <3>1. ASSUME NEW n \in 1..Len(s) PROVE s[n] = e \/ \E m \in 1..Len(acl) : s[n] = acl[m]
      <4>1. n = 1 \/ (n - 1 \in 1..Len(acl) /\ n = (n - 1) + 1)
        BY <2>3, <2>4
      <4>2. CASE n = 1
        BY <2>4, <4>2
      <4>3. CASE n - 1 \in 1..Len(acl) /\ n = (n - 1) + 1
        <5>1. s[(n - 1) + 1] = acl[n - 1]
          BY <2>4, <4>3
        <5> QED BY <4>3, <5>1
      <4> QED BY <4>1, <4>2, <4>3
    <3> QED BY <3>1 DEF Listed
  <2>6. e \in Listed(s)
    BY <2>2, <2>4 DEF Listed
  <2>7. ASSUME NEW n \in 1..Len(acl) PROVE acl[n] \in Listed(s)
    <3>1. n + 1 \in 1..Len(s) /\ s[n + 1] = acl[n]
      BY <2>2, <2>4
    <3> QED BY <3>1 DEF Listed
  <2> QED BY <2>5, <2>6, <2>7 DEF s, Listed
<1>4. Append(acl, e) \in Acl /\ Listed(Append(acl, e)) = Listed(acl) \cup {e}
  <2>1. Append(acl, e) \in Acl
    BY <1>1
  <2>2. Len(Append(acl, e)) = Len(acl) + 1 /\ Append(acl, e)[Len(acl) + 1] = e
        /\ \A n \in 1..Len(acl) : Append(acl, e)[n] = acl[n]
    BY <1>1
  <2>3. Len(acl) \in Nat
    BY <1>1
  <2> QED BY <2>1, <2>2, <2>3 DEF Listed
<1>5. ASSUME acl # <<>> PROVE Tail(acl) \in Acl /\ Listed(Tail(acl)) \subseteq Listed(acl)
  <2>1. Tail(acl) \in Acl /\ Len(acl) \in Nat
    BY <1>1, <1>5
  <2>2. Len(Tail(acl)) = Len(acl) - 1 /\ \A n \in 1..(Len(acl) - 1) : Tail(acl)[n] = acl[n + 1]
    BY <1>1, <1>5
  <2>3. \A n \in 1..(Len(acl) - 1) : n + 1 \in 1..Len(acl)
    BY <2>1
  <2> QED BY <2>1, <2>2, <2>3 DEF Listed
<1> QED BY <1>2, <1>3, <1>4, <1>5

\* The explicit part of a list is a list of its entries.
LEMMA ExplicitList ==
    ASSUME NEW acl \in Acl
    PROVE  Explicit(acl) \in Acl /\ Listed(Explicit(acl)) \subseteq Listed(acl)
<1>1. acl \in Seq(Ace) /\ Len(acl) \in Nat /\ Acl = Seq(Ace)
  BY DEF Acl, Ace
<1>2. CASE Len(acl) = 0
  <2>1. Explicit(acl) = <<>>
    BY <1>1, <1>2 DEF Explicit
  <2> QED BY <1>1, <2>1 DEF Listed
<1>3. CASE Len(acl) # 0
  <2>1. Len(acl) - 1 \in 0..Len(acl)
    BY <1>1, <1>3
  <2>2. Explicit(acl) \in Seq(Ace) /\ Len(Explicit(acl)) = Len(acl) - 1
        /\ \A n \in 1..(Len(acl) - 1) : Explicit(acl)[n] = acl[n]
    <3>1. 1 \in Int /\ Len(acl) - 1 \in Int /\ \A i \in 1..Len(acl) - 1 : acl[i] \in Ace
      BY <1>1, <2>1
    <3>2. /\ Explicit(acl) \in Seq(Ace)
          /\ Len(Explicit(acl)) = IF 1 <= Len(acl) - 1 THEN Len(acl) - 1 - 1 + 1 ELSE 0
          /\ \A i \in 1..Len(acl) - 1 - 1 + 1 : Explicit(acl)[i] = acl[1 + i - 1]
      BY <3>1, SubSeqProperties DEF Explicit
    <3>3. Len(Explicit(acl)) = Len(acl) - 1
      <4> DEFINE k == Len(acl)
      <4>1. k \in Nat /\ k # 0
        BY <1>1, <1>3
      <4> HIDE DEF k
      <4>2. (IF 1 <= k - 1 THEN k - 1 - 1 + 1 ELSE 0) = k - 1
        BY ONLY <4>1
      <4> QED BY <3>2, <4>2 DEF k
    <3>4. ASSUME NEW n \in 1..Len(acl) - 1 PROVE Explicit(acl)[n] = acl[n]
      <4>1. n \in 1..Len(acl) - 1 - 1 + 1
        BY <1>1
      <4>2. n \in Int
        OBVIOUS
      <4>3. Explicit(acl)[n] = acl[1 + n - 1]
        BY ONLY <3>2, <4>1
      <4> QED BY ONLY <4>2, <4>3
    <3> QED BY <3>2, <3>3, <3>4
  <2> QED BY <1>1, <2>1, <2>2 DEF Listed
<1> QED BY <1>2, <1>3

-----------------------------------------------------------------------------
(* What the client and others do to a path. *)

\* Paths below a path: a removed parent takes its children along.
LEMMA WithinPath ==
    ASSUME NEW p \in Path
    PROVE  /\ p \in Within(p) /\ Within(p) \subseteq Path
           /\ Root \in Within(p) => p = Root
           /\ Root = p => Within(p) = Path
           /\ \A a \in Artifact : WorkspaceOf[a] \in Within(p) => a \in Within(p)
           /\ \A q \in Within(p) : Tree(fs) /\ fs[p] = Absent => fs[q] = Absent
BY DEF Within, Path, Tree

Stays(p)  == fs'[p] = fs[p] /\ away'[p] = away[p]
Leaves(p) == /\ fs'[p] = Absent /\ away'[p] = away[p] /\ ~Pinned(p)
             /\ p = Root => tampered'
Arrives(p) ==
    /\ fs[p] = Absent /\ away'[p] = away[p] /\ budget'.inodes = budget.inodes + 1
    /\ fs'[p].inode = budget'.inodes /\ "own" \notin Listed(fs'[p].acl)
    /\ "inherited" \in Listed(fs'[p].acl) => p \in Workspace /\ "own" \in Entries(Root)
    /\ p = Root \/ fs[Root] # Absent
    /\ p \in Artifact => fs[WorkspaceOf[p]] # Absent
    /\ ~tampered' => /\ p \in Artifact => ~Guarded(WorkspaceOf[p])
                     /\ p \in Workspace /\ "own" \in Entries(Root) => "inherited" \in Listed(fs'[p].acl)
IsEdited(p) ==
    /\ fs[p] # Absent /\ fs'[p].inode = fs[p].inode /\ fs'[p] # Absent /\ away'[p] = away[p]
    /\ Listed(fs'[p].acl) \subseteq Entries(p) \cup {"other"} /\ tampered'
MovesAway(p) ==
    /\ platform = "windows" /\ p # Root /\ away[p] = Absent /\ ~Pinned(p)
    /\ "inherited" \notin Entries(p)
    /\ away'[p] = fs[p] /\ fs'[p] = Absent
MovesBack(p) == fs[p] = Absent /\ fs'[p] = away[p] /\ away'[p] = Absent /\ tampered'
PathStep(p) == Stays(p) \/ Leaves(p) \/ Arrives(p) \/ IsEdited(p) \/ MovesAway(p) \/ MovesBack(p)

NodeMap == [Path -> Node]
BudgetType == [inodes : 0..MaxInodes, enables : 0..MaxEnables, faults : 0..MaxFaults, kills : 0..MaxKills]

\* The effect of a step on the cache, path by path.
PathsStep ==
    /\ fs' \in NodeMap /\ away' \in NodeMap /\ Tree(fs)'
    /\ budget' \in BudgetType /\ budget.inodes <= budget'.inodes
    /\ \A p \in Path : PathStep(p)

\* A directory that is made is new to the cache.
LEMMA MakeStep ==
    ASSUME NodeTypes, Layout, NEW p \in Path, NEW acl \in {<<>>, <<"other">>, <<"inherited">>},
           fs[p] = Absent, budget.inodes < MaxInodes, budget' \in BudgetType,
           budget'.inodes = budget.inodes + 1,
           fs' = [fs EXCEPT ![p] = [inode |-> budget'.inodes, acl |-> acl]], away' = away,
           acl = <<"inherited">> => p \in Workspace /\ "own" \in Entries(Root),
           p = Root \/ fs[Root] # Absent, p \in Artifact => fs[WorkspaceOf[p]] # Absent,
           ~tampered' => /\ p \in Artifact => ~Guarded(WorkspaceOf[p])
                         /\ p \in Workspace /\ "own" \in Entries(Root) => acl = <<"inherited">>
    PROVE  PathsStep
<1>1. /\ acl \in Acl /\ "own" \notin Listed(acl)
      /\ acl = <<"inherited">> => "inherited" \in Listed(acl)
      /\ "inherited" \in Listed(acl) => acl = <<"inherited">>
  <2>1. /\ <<>> \in Acl /\ Listed(<<>>) = {}
        /\ <<"other">> \in Acl /\ Listed(<<"other">>) = {"other"}
        /\ <<"inherited">> \in Acl /\ Listed(<<"inherited">>) = {"inherited"}
    BY ShortLists DEF Ace
  <2> QED BY <2>1
<1>2. budget.inodes \in 0..MaxInodes /\ budget'.inodes \in 1..MaxInodes
  BY DEF NodeTypes, BudgetType
<1>3. fs' \in NodeMap /\ away' \in NodeMap
  BY <1>1, <1>2 DEF NodeTypes, NodeMap, Node
<1>4. fs'[p] = [inode |-> budget'.inodes, acl |-> acl] /\ \A q \in Path \ {p} : fs'[q] = fs[q]
  BY DEF NodeTypes
<1>5. fs'[p] # Absent
  BY <1>2, <1>4 DEF Absent
<1>6. Tree(fs)'
  BY <1>4, <1>5 DEF Layout, Tree, Path
<1>7. Arrives(p)
  BY <1>1, <1>4 DEF Arrives
<1>8. \A q \in Path \ {p} : Stays(q)
  BY <1>4 DEF Stays
<1> QED BY <1>2, <1>3, <1>6, <1>7, <1>8 DEF PathsStep, PathStep

\* A path that is removed takes along what is below it.
LEMMA EraseStep ==
    ASSUME NodeTypes, Layout, NEW p \in Path, Erase(p)
    PROVE  /\ fs' \in NodeMap /\ Tree(fs)'
           /\ \A q \in Within(p) : fs'[q] = Absent
           /\ \A q \in Path \ Within(p) : fs'[q] = fs[q]
<1>1. Absent \in Node
  BY ShortLists DEF Absent, Node
<1>2. /\ fs' \in NodeMap
      /\ \A q \in Within(p) : fs'[q] = Absent
      /\ \A q \in Path \ Within(p) : fs'[q] = fs[q]
  BY <1>1, WithinPath DEF Erase, NodeTypes, NodeMap
<1>3. \A q \in Path : fs'[Root] = Absent => fs'[q] = Absent
  <2>1. CASE Root \in Within(p)
    BY <1>2, <2>1, WithinPath
  <2>2. CASE Root \notin Within(p)
    BY <1>2, <2>2 DEF Path, Layout, Tree
  <2> QED BY <2>1, <2>2
<1>4. \A a \in Artifact : fs'[WorkspaceOf[a]] = Absent => fs'[a] = Absent
  <2> SUFFICES ASSUME NEW a \in Artifact, fs'[WorkspaceOf[a]] = Absent
               PROVE  fs'[a] = Absent
    OBVIOUS
  <2>1. WorkspaceOf[a] \in Path /\ a \in Path
    BY DEF Path
  <2>2. CASE WorkspaceOf[a] \in Within(p)
    BY <1>2, <2>2, WithinPath
  <2>3. CASE WorkspaceOf[a] \notin Within(p)
    BY <1>2, <2>1, <2>3 DEF Layout, Tree
  <2> QED BY <2>2, <2>3
<1> QED BY <1>2, <1>3, <1>4 DEF Tree

\* Counting keeps the type of the budget.
LEMMA CountStep ==
    ASSUME NodeTypes, NEW what \in {"inodes", "enables", "faults", "kills"}, NEW bound,
           bound = CASE what = "inodes" -> MaxInodes [] what = "enables" -> MaxEnables
                     [] what = "faults" -> MaxFaults [] OTHER -> MaxKills,
           Count(what, bound)
    PROVE  /\ budget' \in BudgetType /\ budget[what] < bound /\ budget'[what] = budget[what] + 1
           /\ what # "inodes" => budget'.inodes = budget.inodes
BY DEF NodeTypes, Count, BudgetType

\* What users and the client do: each path changes in one of the ways above.
LEMMA EnvironmentStep ==
    ASSUME NodeTypes, Layout, Environment
    PROVE  /\ PathsStep
           /\ platform' = platform /\ receipt' = receipt /\ cmd' = cmd /\ insp' = insp
           /\ verdict' = verdict /\ (tampered' = tampered \/ tampered' = TRUE)
<1>0. budget \in BudgetType /\ budget.inodes \in Nat /\ away \in NodeMap /\ fs \in NodeMap
  BY DEF NodeTypes, BudgetType, NodeMap
<1>1. /\ platform' = platform /\ receipt' = receipt /\ cmd' = cmd /\ insp' = insp
      /\ verdict' = verdict /\ (tampered' = tampered \/ tampered' = TRUE)
  BY DEF Environment, MakeRoot, Discard, MakeArtifact, MakeWorkspace, Import, Remove, Edit, Move,
         MoveBack, outside
<1>2. CASE MakeRoot
  <2>1. Count("inodes", MaxInodes) /\ fs[Root] = Absent /\ away' = away
        /\ fs' = [fs EXCEPT ![Root] = [inode |-> budget'.inodes, acl |-> <<>>]]
    BY <1>2 DEF MakeRoot, Make, outside
  <2>2. Root \in Path /\ Root \notin Artifact /\ Root \notin Workspace
    BY DEF Path
  <2>3. budget.inodes < MaxInodes /\ budget' \in BudgetType /\ budget'.inodes = budget.inodes + 1
    BY <2>1, CountStep
  <2>4. <<>> # <<"inherited">>
    BY ShortLists DEF Ace
  <2> QED BY <1>1, <2>1, <2>2, <2>3, <2>4, MakeStep
<1>3. ASSUME NEW w \in Workspace, MakeWorkspace(w) PROVE PathsStep
  <2> DEFINE acl == IF "own" \in Entries(Root) THEN <<"inherited">> ELSE <<>>
  <2>1. Count("inodes", MaxInodes) /\ fs[w] = Absent /\ away' = away /\ fs[Root] # Absent
        /\ fs' = [fs EXCEPT ![w] = [inode |-> budget'.inodes, acl |-> acl]]
    BY <1>3 DEF MakeWorkspace, Make, outside
  <2>2. w \in Path /\ w \notin Artifact
    BY DEF Path
  <2>3. /\ acl \in {<<>>, <<"inherited">>}
        /\ acl = <<"inherited">> => "own" \in Entries(Root)
        /\ "own" \in Entries(Root) => acl = <<"inherited">>
    BY ShortLists DEF Ace
  <2> HIDE DEF acl
  <2> QED BY <2>1, <2>2, <2>3, CountStep, MakeStep
<1>4. ASSUME NEW a \in Artifact, MakeArtifact(a) PROVE PathsStep
  <2>1. Count("inodes", MaxInodes) /\ fs[a] = Absent /\ away' = away /\ fs[WorkspaceOf[a]] # Absent
        /\ fs' = [fs EXCEPT ![a] = [inode |-> budget'.inodes, acl |-> <<>>]]
        /\ ~Guarded(WorkspaceOf[a])
    BY <1>4 DEF MakeArtifact, Make, outside, Guarded, Rules
  <2>2. a \in Path /\ a \notin Workspace /\ fs[Root] # Absent
    BY <2>1 DEF Path, Layout, Tree
  <2>3. <<>> # <<"inherited">>
    BY ShortLists DEF Ace
  <2> QED BY <2>1, <2>2, <2>3, CountStep, MakeStep
<1>5. ASSUME NEW w \in Workspace, Import(w) PROVE PathsStep
  <2>1. budget.inodes < MaxInodes /\ fs[w] = Absent /\ away' = away /\ fs[Root] # Absent /\ tampered'
    BY <1>5 DEF Import, outside
  <2>2. budget' \in BudgetType /\ budget'.inodes = budget.inodes + 1
    <3>1. budget.faults < MaxFaults /\ budget.inodes < MaxInodes
          /\ budget' = [budget EXCEPT !.faults = budget.faults + 1, !.inodes = budget.inodes + 1]
      BY <1>5 DEF Import
    <3>2. budget.faults + 1 \in 0..MaxFaults /\ budget.inodes + 1 \in 0..MaxInodes
      BY <1>0, <3>1 DEF BudgetType
    <3> QED BY <1>0, <3>1, <3>2 DEF BudgetType
  <2>3. PICK acl \in {<<>>, <<"other">>} : fs' = [fs EXCEPT ![w] = [inode |-> budget'.inodes, acl |-> acl]]
    BY <1>5 DEF Import
  <2>4. w \in Path /\ w \notin Artifact /\ acl # <<"inherited">>
    BY ShortLists DEF Path, Ace
  <2> QED BY <2>1, <2>2, <2>3, <2>4, MakeStep
<1>6. ASSUME NEW p \in Path, Remove(p) PROVE PathsStep
  <2>1. Erase(p) /\ p # Root /\ ~Pinned(p) /\ away' = away /\ budget' = budget
    BY <1>6 DEF Remove, outside
  <2>2. \A q \in Within(p) : q # Root /\ ~Pinned(q)
    BY <2>1 DEF Within, Pinned, Path
  <2> QED BY <1>0, <2>1, <2>2, EraseStep, WithinPath DEF PathsStep, PathStep, Leaves, Stays
<1>7. CASE Discard
  <2>1. Erase(Root) /\ ~Pinned(Root) /\ away' = away /\ Count("faults", MaxFaults) /\ tampered'
    BY <1>7 DEF Discard, outside, Fails
  <2>2. Root \in Path /\ \A q \in Path : q \in Within(Root) /\ ~Pinned(q)
    BY <2>1 DEF Within, Pinned, Path
  <2>3. /\ budget' \in BudgetType /\ budget'.inodes = budget.inodes
        /\ fs' \in NodeMap /\ Tree(fs)' /\ \A q \in Path : fs'[q] = Absent
    BY <2>1, <2>2, EraseStep, CountStep
  <2>4. \A q \in Path : Leaves(q)
    BY <2>1, <2>2, <2>3 DEF Leaves
  <2>5. away' \in NodeMap /\ budget.inodes <= budget'.inodes
    BY <1>0, <2>1, <2>3
  <2> QED BY <1>1, <2>3, <2>4, <2>5 DEF PathsStep, PathStep
<1>8. ASSUME NEW p \in Path, Move(p) PROVE PathsStep
  <2>1. Erase(p) /\ p # Root /\ ~Pinned(p) /\ Count("faults", MaxFaults) /\ platform = "windows"
        /\ \A q \in Within(p) : away[q] = Absent /\ "inherited" \notin Entries(q)
    BY <1>8 DEF Move, Fails
  <2>2. away' \in NodeMap /\ \A q \in Path : away'[q] = IF q \in Within(p) THEN fs[q] ELSE away[q]
    BY <1>0, <1>8 DEF Move, NodeMap
  <2>3. \A q \in Within(p) : q # Root /\ ~Pinned(q)
    BY <2>1 DEF Within, Pinned, Path
  <2> QED BY <1>0, <2>1, <2>2, <2>3, EraseStep, CountStep, WithinPath
          DEF PathsStep, PathStep, MovesAway, Stays
<1>9. ASSUME NEW p \in Path, MoveBack(p) PROVE PathsStep
  <2>1. fs[p] = Absent /\ away[p] # Absent /\ budget' = budget /\ tampered'
        /\ fs[IF p \in Workspace THEN Root ELSE WorkspaceOf[p]] # Absent
    BY <1>9 DEF MoveBack
  <2>2. Absent \in Node
    BY ShortLists DEF Absent, Node
  <2>3. /\ fs' \in NodeMap /\ \A q \in Path : fs'[q] = IF q \in Within(p) THEN away[q] ELSE fs[q]
        /\ away' \in NodeMap /\ \A q \in Path : away'[q] = IF q \in Within(p) THEN Absent ELSE away[q]
    BY <1>0, <1>9, <2>2 DEF MoveBack, NodeMap
  <2>4. \A q \in Within(p) : fs[q] = Absent
    BY <2>1, WithinPath DEF Layout
  <2>5. p # Root
    BY <2>1 DEF Layout
  <2>6. Root \notin Within(p) /\ fs[Root] # Absent
    BY <2>1, <2>5, WithinPath DEF Layout, Tree, Path
  <2>7. \A a \in Artifact : fs'[WorkspaceOf[a]] = Absent => fs'[a] = Absent
    <3> SUFFICES ASSUME NEW a \in Artifact, fs'[WorkspaceOf[a]] = Absent
                 PROVE  fs'[a] = Absent
      OBVIOUS
    <3>1. WorkspaceOf[a] \in Path /\ a \in Path /\ WorkspaceOf[a] \in Workspace /\ a \notin Workspace
      BY DEF Path
    <3>2. CASE WorkspaceOf[a] \in Within(p)
      <4>1. WorkspaceOf[a] = p
        BY <2>5, <3>1, <3>2 DEF Within, Path
      <4> QED BY <2>1, <2>3, <3>1, <3>2, <4>1
    <3>3. CASE WorkspaceOf[a] \notin Within(p)
      <4>1. fs[WorkspaceOf[a]] = Absent
        BY <2>3, <3>1, <3>3
      <4>2. fs[a] = Absent
        BY <4>1 DEF Layout, Tree
      <4>3. a \notin Within(p)
        <5>1. CASE a = p
          BY <2>1, <3>1, <4>1, <5>1
        <5>2. CASE a # p
          BY <2>5, <3>3, <5>2, WithinPath DEF Within, Path
        <5> QED BY <5>1, <5>2
      <4> QED BY <2>3, <3>1, <4>2, <4>3
    <3> QED BY <3>2, <3>3
  <2>8. Tree(fs)'
    BY <2>3, <2>6, <2>7 DEF Tree, Path
  <2> QED BY <1>0, <2>1, <2>3, <2>4, <2>8 DEF PathsStep, PathStep, MovesBack, Stays
<1>10. ASSUME NEW p \in Path, Edit(p) PROVE PathsStep
  <2>1. fs[p] # Absent /\ Count("faults", MaxFaults) /\ tampered' /\ away' = away
    BY <1>10 DEF Edit, Fails, outside
  <2>2. fs[p].acl \in Acl /\ fs[p] = [inode |-> fs[p].inode, acl |-> fs[p].acl] /\ fs[p].inode \in 1..MaxInodes
    BY <1>0, <2>1 DEF NodeMap, Node, Layout
  <2>3. \E acl \in Acl : Listed(acl) \subseteq Entries(p) \cup {"other"}
                         /\ fs' = [fs EXCEPT ![p] = [inode |-> fs[p].inode, acl |-> acl]]
    <3>1. CASE fs' = [fs EXCEPT ![p].acl = <<"other">> \o @]
      <4>1. fs' = [fs EXCEPT ![p] = [inode |-> fs[p].inode, acl |-> <<"other">> \o fs[p].acl]]
        <5> DEFINE acl == <<"other">> \o fs[p].acl
        <5>1. fs' = [fs EXCEPT ![p] = [fs[p] EXCEPT !.acl = acl]]
          BY <3>1
        <5> HIDE DEF acl
        <5>2. [fs[p] EXCEPT !.acl = acl] = [inode |-> fs[p].inode, acl |-> acl]
          BY <2>2
        <5> QED BY <5>1, <5>2 DEF acl
      <4>2. <<"other">> \o fs[p].acl \in Acl /\ Listed(<<"other">> \o fs[p].acl) = {"other"} \cup Entries(p)
        BY <2>2, Lists DEF Ace, Entries
      <4> QED BY <4>1, <4>2
    <3>2. CASE fs[p].acl # <<>> /\ fs' = [fs EXCEPT ![p].acl = Tail(@)]
      <4>1. fs' = [fs EXCEPT ![p] = [inode |-> fs[p].inode, acl |-> Tail(fs[p].acl)]]
        <5> DEFINE acl == Tail(fs[p].acl)
        <5>1. fs' = [fs EXCEPT ![p] = [fs[p] EXCEPT !.acl = acl]]
          BY <3>2
        <5> HIDE DEF acl
        <5>2. [fs[p] EXCEPT !.acl = acl] = [inode |-> fs[p].inode, acl |-> acl]
          BY <2>2
        <5> QED BY <5>1, <5>2 DEF acl
      <4>2. Tail(fs[p].acl) \in Acl /\ Listed(Tail(fs[p].acl)) \subseteq Entries(p)
        BY <2>2, <3>2, Lists DEF Ace, Entries
      <4> QED BY <4>1, <4>2
    <3> QED BY <1>10, <3>1, <3>2 DEF Edit
  <2>4. PICK acl \in Acl : Listed(acl) \subseteq Entries(p) \cup {"other"}
                         /\ fs' = [fs EXCEPT ![p] = [inode |-> fs[p].inode, acl |-> acl]]
    BY <2>3
  <2>5. fs'[p] = [inode |-> fs[p].inode, acl |-> acl] /\ \A q \in Path \ {p} : fs'[q] = fs[q]
    BY <1>0, <2>4 DEF NodeMap
  <2>6. fs' \in NodeMap
    BY <1>0, <2>2, <2>4 DEF NodeMap, Node
  <2>7. fs'[p] # Absent /\ IsEdited(p)
    BY <2>1, <2>2, <2>4, <2>5 DEF Absent, IsEdited
  <2>8. Tree(fs)'
    BY <2>1, <2>5, <2>7 DEF Layout, Tree, Path
  <2>9. \A q \in Path \ {p} : Stays(q)
    BY <2>1, <2>5 DEF Stays
  <2> QED BY <1>0, <2>1, <2>6, <2>7, <2>8, <2>9, CountStep DEF PathsStep, PathStep
<1> QED BY <1>1, <1>2, <1>3, <1>4, <1>5, <1>6, <1>7, <1>8, <1>9, <1>10 DEF Environment

-----------------------------------------------------------------------------
(* What a command does to the cache. *)

AddedRule == IF cmd.op = "enable" THEN {"own"} ELSE {}

\* One rule is added or removed where the command is; the object stays.
LEMMA ChangeStep ==
    ASSUME NodeTypes, CommandTypes, Layout, Phases, Named, Change
    PROVE  /\ cmd.at \in cmd.todo /\ cmd.at \in DOMAIN cmd.changes /\ cmd.at \in Path
           /\ fs' \in NodeMap /\ \A q \in Path \ {cmd.at} : fs'[q] = fs[q]
           /\ fs'[cmd.at].inode = fs[cmd.at].inode /\ (fs'[cmd.at] = Absent <=> fs[cmd.at] = Absent)
           /\ Listed(fs'[cmd.at].acl) \cap Rules \subseteq Entries(cmd.at) \cup AddedRule
           /\ away' = away /\ platform' = platform /\ receipt' = receipt
           /\ insp' = insp /\ verdict' = verdict /\ tampered' = tampered
           /\ budget' \in BudgetType /\ budget'.inodes = budget.inodes
           /\ cmd' = Idle \/ cmd' = [cmd EXCEPT !.pc = "verify"]
<1> DEFINE p == cmd.at
           c == cmd.changes[cmd.at]
<1>1. cmd.pc = "chmod" /\ p \in cmd.todo /\ p \in DOMAIN cmd.changes /\ p \in Path /\ p # None /\ Applying
  BY DEF Change, CommandTypes, AreRecorded, Applying
<1>2. away' = away /\ platform' = platform /\ receipt' = receipt
      /\ insp' = insp /\ verdict' = verdict /\ tampered' = tampered
  BY DEF Change, outside
<1>3. budget' \in BudgetType /\ budget'.inodes = budget.inodes
  <2>1. budget' = budget \/ Count("faults", MaxFaults)
    BY DEF Change, Fails
  <2> QED BY <2>1, CountStep DEF NodeTypes, BudgetType
<1>4. cmd' = Idle \/ cmd' = [cmd EXCEPT !.pc = "verify"]
  BY DEF Change, Goto
<1>5. c \in Recorded /\ Listed(c.before) \cap Rules = {} /\ (cmd.op = "enable" => c.rule = "own")
      /\ (cmd.op = "enable" \/ cmd.op = "disable")
  BY <1>1 DEF CommandTypes, AreRecorded, Phases, Applying
<1>6. /\ fs \in NodeMap /\ fs[p] \in Node /\ fs[p].inode \in Nat /\ fs[p].acl \in Acl
      /\ fs[p] = [inode |-> fs[p].inode, acl |-> fs[p].acl]
      /\ c.before \in Acl
  BY <1>1, <1>5 DEF NodeTypes, NodeMap, Node, Recorded
<1>7. fs' = fs \/ (platform = "darwin" /\ Chmod(p)) \/ (platform = "windows" /\ SetDACL(p))
  BY DEF Change, NodeTypes
<1>8. ASSUME NEW acl \in Acl, fs' = [fs EXCEPT ![p].acl = acl], fs[p] # Absent,
             Listed(acl) \cap Rules \subseteq Entries(p) \cup AddedRule
      PROVE  /\ fs' \in NodeMap /\ \A q \in Path \ {p} : fs'[q] = fs[q]
             /\ fs'[p].inode = fs[p].inode /\ fs'[p] # Absent
             /\ Listed(fs'[p].acl) \cap Rules \subseteq Entries(p) \cup AddedRule
  <2>1. fs' = [fs EXCEPT ![p] = [inode |-> fs[p].inode, acl |-> acl]]
    <3>1. fs' = [fs EXCEPT ![p] = [fs[p] EXCEPT !.acl = acl]]
      BY <1>8
    <3>2. [fs[p] EXCEPT !.acl = acl] = [inode |-> fs[p].inode, acl |-> acl]
      BY <1>6
    <3> QED BY <3>1, <3>2
  <2>2. fs'[p] = [inode |-> fs[p].inode, acl |-> acl] /\ \A q \in Path \ {p} : fs'[q] = fs[q]
    BY <1>1, <1>6, <2>1 DEF NodeMap
  <2>3. fs[p].inode \in 1..MaxInodes
    BY <1>1, <1>6, <1>8 DEF Layout, Node
  <2>4. fs' \in NodeMap
    BY <1>1, <1>6, <2>1 DEF NodeMap, Node
  <2> QED BY <1>8, <2>2, <2>3, <2>4 DEF Absent
<1>9. CASE platform = "darwin" /\ Chmod(p)
  <2>1. CASE cmd.op = "enable"
    <3>1. fs[p] # Absent /\ fs' = [fs EXCEPT ![p].acl = <<"own">> \o fs[p].acl]
      BY <1>5, <1>9, <2>1 DEF Chmod
    <3>2. <<"own">> \o fs[p].acl \in Acl /\ Listed(<<"own">> \o fs[p].acl) = {"own"} \cup Entries(p)
      BY <1>6, Lists DEF Ace, Entries
    <3>3. Listed(<<"own">> \o fs[p].acl) \cap Rules \subseteq Entries(p) \cup AddedRule
      BY <2>1, <3>2 DEF AddedRule
    <3> QED BY <1>1, <1>2, <1>3, <1>4, <1>8, <3>1, <3>2, <3>3
  <2>2. CASE cmd.op # "enable"
    <3>1. fs[p].acl # <<>> /\ fs' = [fs EXCEPT ![p].acl = Tail(fs[p].acl)]
      BY <1>9, <2>2 DEF Chmod
    <3>2. Tail(fs[p].acl) \in Acl /\ Listed(Tail(fs[p].acl)) \subseteq Entries(p) /\ fs[p] # Absent
      BY <1>6, <3>1, Lists DEF Ace, Entries, Absent
    <3> QED BY <1>1, <1>2, <1>3, <1>4, <1>8, <3>1, <3>2
  <2> QED BY <2>1, <2>2
<1>10. CASE platform = "windows" /\ SetDACL(p)
  <2>1. fs[p] # Absent
    BY <1>1, <1>5, <1>10 DEF Named, Recorded, Absent
  <2>2. CASE cmd.op = "enable"
    <3>1. fs' = [fs EXCEPT ![p].acl = <<"own">> \o c.before]
      BY <1>5, <1>10, <2>2 DEF SetDACL, Expected
    <3>2. <<"own">> \o c.before \in Acl /\ Listed(<<"own">> \o c.before) = {"own"} \cup Listed(c.before)
      BY <1>6, Lists DEF Ace
    <3>3. Listed(<<"own">> \o c.before) \cap Rules \subseteq Entries(p) \cup AddedRule
      BY <1>5, <2>2, <3>2 DEF AddedRule
    <3> QED BY <1>1, <1>2, <1>3, <1>4, <1>8, <2>1, <3>1, <3>2, <3>3
  <2>3. CASE cmd.op # "enable"
    <3>1. fs' = [fs EXCEPT ![p].acl = c.before]
      BY <1>10, <2>3 DEF SetDACL
    <3> QED BY <1>1, <1>2, <1>3, <1>4, <1>5, <1>6, <1>8, <2>1, <3>1
  <2> QED BY <2>2, <2>3
<1>11. CASE fs' = fs
  BY <1>1, <1>2, <1>3, <1>4, <1>6, <1>11 DEF Entries
<1> QED BY <1>7, <1>9, <1>10, <1>11

\* Every other step of a command leaves the cache as it is; only the missing
\* root is made.
LEMMA MakeCacheStep ==
    ASSUME NodeTypes, Layout, MakeCache
    PROVE  /\ away' = away /\ platform' = platform /\ receipt' = receipt
           /\ insp' = insp /\ verdict' = verdict /\ tampered' = tampered
           /\ PathsStep
           /\ \A q \in Path : Stays(q) \/ (q = Root /\ Arrives(q))
           /\ cmd' = Idle \/ cmd' = [cmd EXCEPT !.pc = "list"]
<1>1. /\ away' = away /\ platform' = platform /\ receipt' = receipt
      /\ insp' = insp /\ verdict' = verdict /\ tampered' = tampered
      /\ cmd' = Idle \/ cmd' = [cmd EXCEPT !.pc = "list"]
  BY DEF MakeCache, outside, Goto
<1>2. CASE fs' = fs /\ budget' = budget
  BY <1>1, <1>2 DEF NodeTypes, Layout, Tree, PathsStep, PathStep, Stays, NodeMap, BudgetType
<1>3. CASE Make(Root, <<>>)
  <2>1. Count("inodes", MaxInodes) /\ fs[Root] = Absent
        /\ fs' = [fs EXCEPT ![Root] = [inode |-> budget'.inodes, acl |-> <<>>]]
    BY <1>3 DEF Make
  <2>2. Root \in Path /\ Root \notin Artifact /\ Root \notin Workspace
    BY DEF Path
  <2>3. budget.inodes < MaxInodes /\ budget' \in BudgetType /\ budget'.inodes = budget.inodes + 1
    BY <2>1, CountStep
  <2>4. <<>> # <<"inherited">>
    BY ShortLists DEF Ace
  <2>5. PathsStep
    BY <1>1, <2>1, <2>2, <2>3, <2>4, MakeStep
  <2>6. \A q \in Path \ {Root} : Stays(q)
    BY <1>1, <2>1 DEF NodeTypes, Stays
  <2>7. Stays(Root) \/ Arrives(Root)
    <3>1. fs'[Root] = [inode |-> budget'.inodes, acl |-> <<>>]
      BY <2>1, <2>2 DEF NodeTypes
    <3> QED BY <1>1, <2>1, <2>2, <2>3, <3>1, ShortLists DEF Arrives
  <2> QED BY <1>1, <2>5, <2>6, <2>7
<1> QED BY <1>2, <1>3 DEF MakeCache

\* A save succeeds, or ends the command with or without the new receipt.
LEMMA SaveStep ==
    ASSUME NodeTypes, NEW r, NEW next, SaveThen(r, next)
    PROVE  /\ \/ receipt' = r /\ cmd' = next
              \/ receipt' \in {receipt, r} /\ cmd' = Idle
           /\ budget' \in BudgetType /\ budget'.inodes = budget.inodes
           /\ platform' = platform /\ away' = away /\ fs' = fs /\ insp' = insp /\ verdict' = verdict
<1>1. budget' = budget \/ Count("faults", MaxFaults)
  BY DEF SaveThen, Fails
<1>2. budget' \in BudgetType /\ budget'.inodes = budget.inodes
  BY <1>1, CountStep DEF NodeTypes, BudgetType
<1>3. \/ receipt' = r /\ cmd' = next
      \/ receipt' \in {receipt, r} /\ cmd' = Idle
  BY DEF SaveThen
<1> QED BY <1>2, <1>3 DEF SaveThen, outside

\* Steps that save the receipt, and those that only place the command.
Saving == Prepare \/ Record \/ FinishEnable \/ SaveDisabling \/ RecordSweep \/ RemoveReceipt
Thinking == BeginEnable \/ ListCache \/ BeginDisable \/ Sweep \/ Check \/ Verify \/ CheckedAll \/ Kill

\* Neither touches a path or an inspection.
LEMMA QuietStep ==
    ASSUME NodeTypes, Saving \/ Thinking
    PROVE  /\ budget' \in BudgetType /\ budget'.inodes = budget.inodes
           /\ platform' = platform /\ away' = away /\ fs' = fs /\ insp' = insp /\ verdict' = verdict
           /\ tampered' = tampered \/ (BeginDisable /\ tampered' = TRUE)
<1>1. CASE Saving
  <2>1. tampered' = tampered
    BY <1>1 DEF Saving, Prepare, Record, FinishEnable, SaveDisabling, RecordSweep, RemoveReceipt
  <2>2. \E r, next : SaveThen(r, next)
    BY <1>1 DEF Saving, Prepare, Record, FinishEnable, SaveDisabling, RecordSweep, RemoveReceipt
  <2> QED BY <2>1, <2>2, SaveStep
<1>2. CASE Thinking
  <2>1. platform' = platform /\ away' = away /\ fs' = fs /\ insp' = insp /\ verdict' = verdict
        /\ (tampered' = tampered \/ (BeginDisable /\ tampered' = TRUE))
    BY <1>2 DEF Thinking, BeginEnable, ListCache, BeginDisable, Sweep, Check, Verify, CheckedAll, Kill, outside
  <2>2. budget' = budget \/ Count("enables", MaxEnables) \/ Count("kills", MaxKills)
    BY <1>2 DEF Thinking, BeginEnable, ListCache, BeginDisable, Sweep, Check, Verify, CheckedAll, Kill
  <2>3. budget' \in BudgetType /\ budget'.inodes = budget.inodes
    BY <2>2, CountStep DEF NodeTypes, BudgetType
  <2> QED BY <2>1, <2>3
<1> QED BY <1>1, <1>2

\* The empty record of changes.
LEMMA NoChangesAreRecorded ==
    AreRecorded(NoChanges) /\ DOMAIN NoChanges = {}
BY DEF AreRecorded, NoChanges

\* Between commands.
LEMMA IdleTypes ==
    ASSUME cmd' = Idle
    PROVE  CommandTypes'
BY NoChangesAreRecorded DEF CommandTypes, Idle

\* What a new workspace inherited is recorded with a list that has no rule.
LEMMA InheritedIsRecorded ==
    ASSUME NodeTypes, Layout, NEW w \in Path, HasInherited(w)
    PROVE  InheritedChange(w) \in Recorded /\ InheritedChange(w).rule = "inherited"
<1>1. fs[w] \in Node /\ fs[w].acl \in Acl /\ fs[w] # Absent
  BY ShortLists DEF NodeTypes, Node, HasInherited, Entries, Absent
<1>2. fs[w].inode \in 1..MaxInodes
  BY <1>1 DEF Layout, Node
<1>3. (IF platform = "darwin" THEN <<>> ELSE Explicit(fs[w].acl)) \in Acl
  BY <1>1, ShortLists, ExplicitList
<1> QED BY <1>2, <1>3 DEF InheritedChange, Recorded, Rules

\* The recorded changes of a sweep.
LEMMA SweepRecords ==
    ASSUME NodeTypes, CommandTypes, Layout, Phases, Named, Sweep, cmd' # Idle
    PROVE  /\ cmd' = [cmd EXCEPT !.pc = "record", !.changes = cmd'.changes]
           /\ AreRecorded(cmd'.changes)
           /\ \A p \in DOMAIN cmd.changes : p = Root \/ fs[p] # Absent \/ platform = "windows" =>
                 p \in DOMAIN cmd'.changes /\ cmd'.changes[p] = cmd.changes[p]
           /\ \A p \in DOMAIN cmd.changes : p \in DOMAIN cmd'.changes =>
                 cmd'.changes[p] = cmd.changes[p]
           /\ \A w \in Workspace : HasInherited(w) => w \in DOMAIN cmd'.changes
<1> DEFINE known == {p \in DOMAIN cmd.changes : p = Root \/ fs[p] # Absent \/ platform = "windows"}
           new   == {w \in Workspace \ known : HasInherited(w)}
           f     == [p \in known \cup new |-> IF p \in known THEN cmd.changes[p] ELSE InheritedChange(p)]
<1>1. cmd.pc = "sweep" /\ (\A w \in new : ~Unclear(w)) /\ cmd' = [cmd EXCEPT !.pc = "record", !.changes = f]
  BY DEF Sweep
<1>2. cmd'.changes = f
  BY <1>1 DEF CommandTypes
<1>3. cmd.op = "disable" /\ receipt.changes = cmd.changes /\ Root \in DOMAIN cmd.changes
      /\ AreRecorded(cmd.changes)
  BY <1>1 DEF Phases, CommandTypes
<1>4. ASSUME NEW w \in new PROVE f[w] \in Recorded /\ Listed(f[w].before) \cap Rules = {} /\ w \in Path
  <2>1. f[w] = InheritedChange(w) /\ w \in Path /\ HasInherited(w) /\ ~Unclear(w)
    BY <1>1, <1>4 DEF Path
  <2>2. InheritedChange(w) \in Recorded /\ fs[w].acl \in Acl /\ fs[w] # Absent
    BY <2>1, InheritedIsRecorded, ShortLists DEF NodeTypes, Node, HasInherited, Entries, Absent
  <2>3. "own" \notin Entries(w)
    BY <1>3, <1>4, <2>1, <2>2 DEF Named
  <2>4. "inherited" \notin Listed(InheritedChange(w).before)
    BY <2>1 DEF Unclear
  <2>5. InheritedChange(w).before \in {<<>>, Explicit(fs[w].acl)}
    BY DEF InheritedChange
  <2>6. Listed(InheritedChange(w).before) \subseteq Entries(w)
    BY <2>2, <2>5, ShortLists, ExplicitList DEF Entries
  <2> QED BY <2>1, <2>2, <2>3, <2>4, <2>6 DEF Rules
<1>5. ASSUME NEW p \in known PROVE f[p] = cmd.changes[p] /\ f[p] \in Recorded
                                   /\ Listed(f[p].before) \cap Rules = {} /\ p \in Path
  BY <1>3, <1>5 DEF AreRecorded
<1>6. DOMAIN f = known \cup new /\ f = [p \in DOMAIN f |-> f[p]] /\ Root \in known
  BY <1>3
<1> HIDE DEF f
<1>7. AreRecorded(f)
  <2>1. f \in [DOMAIN f -> Recorded] /\ DOMAIN f \subseteq Path
    BY <1>4, <1>5, <1>6
  <2>2. Root \in DOMAIN f /\ f[Root].rule = "own"
    BY <1>3, <1>5, <1>6 DEF AreRecorded
  <2>3. \A p \in DOMAIN f : Listed(f[p].before) \cap Rules = {}
    BY <1>4, <1>5, <1>6
  <2> QED BY <2>1, <2>2, <2>3 DEF AreRecorded
<1>8. \A p \in DOMAIN cmd.changes : p \in DOMAIN f => f[p] = cmd.changes[p]
  <2> SUFFICES ASSUME NEW p \in DOMAIN cmd.changes, p \in DOMAIN f, p \notin known
               PROVE  f[p] = cmd.changes[p]
    BY <1>5
  <2>1. p \in new /\ fs[p] = Absent
    BY <1>6
  <2> QED BY <2>1, ShortLists DEF HasInherited, Entries, Absent
<1>9. \A w \in Workspace : HasInherited(w) => w \in DOMAIN f
  BY <1>6
<1>10. \A p \in DOMAIN cmd.changes : p = Root \/ fs[p] # Absent \/ platform = "windows" =>
          p \in DOMAIN f /\ f[p] = cmd.changes[p]
  BY <1>5, <1>6
<1> QED BY <1>1, <1>2, <1>7, <1>8, <1>9, <1>10

\* What an enable records: every present path, with its entries.
LEMMA ListRecords ==
    ASSUME NodeTypes, CommandTypes, Layout, Phases, Named, ListCache, cmd' # Idle
    PROVE  /\ cmd' = [cmd EXCEPT !.pc = "record", !.changes = cmd'.changes]
           /\ AreRecorded(cmd'.changes) /\ \A p \in DOMAIN cmd'.changes : cmd'.changes[p].rule = "own"
<1> DEFINE f == [p \in Present |-> [inode |-> fs[p].inode, rule |-> "own", before |-> fs[p].acl]]
<1>1. cmd.pc = "list" /\ cmd' = [cmd EXCEPT !.pc = "record", !.changes = f]
  BY DEF ListCache
<1>2. cmd'.changes = f
  BY <1>1 DEF CommandTypes
<1>3. receipt.phase = "preparing"
  BY <1>1 DEF Phases
<1>4. ASSUME NEW p \in Present
      PROVE  f[p] \in Recorded /\ Listed(f[p].before) \cap Rules = {} /\ p \in Path /\ f[p].rule = "own"
  <2>1. p \in Path /\ fs[p] \in Node /\ fs[p] # Absent
    BY <1>4 DEF Present, NodeTypes
  <2>2. fs[p].inode \in 1..MaxInodes /\ fs[p].acl \in Acl
    BY <2>1 DEF Layout, Node
  <2>3. Entries(p) \cap Rules = {}
    BY <1>3, <2>1 DEF Named, Ruled
  <2> QED BY <2>1, <2>2, <2>3 DEF Recorded, Rules, Entries
<1>5. DOMAIN f = Present /\ f = [p \in DOMAIN f |-> f[p]]
  OBVIOUS
<1>6. Present # {} => Root \in Present
  BY DEF Present, Layout, Tree, Path
<1> HIDE DEF f
<1>7. AreRecorded(f)
  BY <1>4, <1>5, <1>6 DEF AreRecorded
<1> QED BY <1>1, <1>2, <1>4, <1>5, <1>7

-----------------------------------------------------------------------------
(* Where a command is, and what its receipt says. *)

Control == CommandTypes /\ ReceiptTypes /\ Phases

\* A command that ends leaves control in order.
LEMMA IdleControl ==
    ASSUME cmd' = Idle, ReceiptTypes'
    PROVE  Control'
<1>1. Phases'
  BY NoChangesAreRecorded DEF Phases, Idle, Applying
<1> QED BY <1>1, IdleTypes DEF Control

\* So does a step that touches neither the command nor the receipt.
LEMMA ControlStays ==
    ASSUME Control, cmd' = cmd, receipt' = receipt
    PROVE  Control'
BY DEF Control, CommandTypes, ReceiptTypes, Phases, Applying

\* A receipt without changes, and one with those of a command.
LEMMA ReceiptMade ==
    ASSUME NEW r, NEW phase, NEW f,
           r = [phase |-> phase, changes |-> f], receipt' = r, AreRecorded(f),
           \/ phase = "preparing" /\ f = NoChanges
           \/ phase \in {"enabling", "enabled"} /\ \A p \in DOMAIN f : f[p].rule = "own"
           \/ phase = "disabling"
    PROVE  ReceiptTypes' /\ receipt'.phase = phase /\ receipt'.changes = f
BY DEF ReceiptTypes, Phase

\* A removed receipt has no phase and no changes.
LEMMA ReceiptGone ==
    ASSUME receipt' = NoReceipt
    PROVE  ReceiptTypes' /\ receipt'.phase = "none" /\ receipt'.changes = NoChanges
BY NoChangesAreRecorded DEF ReceiptTypes, NoReceipt

\* An enable records what it is about to do before it does it.
LEMMA EnableControl ==
    ASSUME NodeTypes, Control, Layout, Named, Enable
    PROVE  Control'
<1> USE DEF Control
<1>1. CASE BeginEnable
  <2>1. cmd' = [Idle EXCEPT !.pc = "prepare", !.op = "enable", !.creates = fs[Root] = Absent]
        /\ receipt' = receipt /\ receipt.phase = "none"
    BY <1>1 DEF BeginEnable
  <2>2. cmd' = [pc |-> "prepare", op |-> "enable", changes |-> NoChanges, todo |-> {}, next |-> "idle",
                at |-> None, creates |-> fs[Root] = Absent]
    BY <2>1 DEF Idle
  <2>3. CommandTypes'
    BY <2>2, NoChangesAreRecorded DEF CommandTypes
  <2>4. ReceiptTypes'
    BY <2>1 DEF ReceiptTypes
  <2>5. Phases'
    <3>1. cmd'.pc = "prepare" /\ cmd'.op = "enable" /\ cmd'.changes = NoChanges
      BY <2>2
    <3>2. \A p \in DOMAIN cmd'.changes : cmd'.changes[p].rule = "own"
      BY <3>1, NoChangesAreRecorded
    <3> QED BY <2>1, <3>1, <3>2 DEF Phases, Applying
  <2> QED BY <2>3, <2>4, <2>5
<1>2. CASE Prepare
  <2> DEFINE r == [phase |-> "preparing", changes |-> NoChanges]
  <2>1. cmd.pc = "prepare" /\ SaveThen(r, [cmd EXCEPT !.pc = "mkdir"])
    BY <1>2 DEF Prepare
  <2>2. \/ receipt' = r /\ cmd' = [cmd EXCEPT !.pc = "mkdir"]
        \/ receipt' \in {receipt, r} /\ cmd' = Idle
    BY <2>1, SaveStep
  <2>3. receipt' = r => ReceiptTypes' /\ receipt'.phase = "preparing" /\ receipt'.changes = NoChanges
    BY ReceiptMade, NoChangesAreRecorded
  <2>4. receipt' = receipt => ReceiptTypes'
    BY DEF ReceiptTypes
  <2>5. CASE cmd' = Idle
    BY <2>2, <2>3, <2>4, <2>5, IdleControl
  <2>6. CASE receipt' = r /\ cmd' = [cmd EXCEPT !.pc = "mkdir"]
    <3>1. cmd' = [pc |-> "mkdir", op |-> "enable", changes |-> cmd.changes, todo |-> {}, next |-> cmd.next,
                  at |-> None, creates |-> cmd.creates]
      BY <2>1, <2>6 DEF CommandTypes, Phases
    <3>2. CommandTypes'
      BY <3>1, <2>1 DEF CommandTypes
    <3>3. Phases'
      BY <2>1, <3>1, <2>3, <2>6 DEF Phases, Applying
    <3> QED BY <2>3, <2>6, <3>2, <3>3
  <2> QED BY <2>2, <2>5, <2>6
<1>3. CASE MakeCache
  <2>1. receipt' = receipt /\ cmd.pc = "mkdir" /\ (cmd' = Idle \/ cmd' = [cmd EXCEPT !.pc = "list"])
    BY <1>3, MakeCacheStep DEF MakeCache
  <2>2. ReceiptTypes'
    BY <2>1 DEF ReceiptTypes
  <2>3. CASE cmd' = [cmd EXCEPT !.pc = "list"]
    <3>1. cmd' = [pc |-> "list", op |-> "enable", changes |-> cmd.changes, todo |-> {}, next |-> cmd.next,
                  at |-> None, creates |-> cmd.creates]
      BY <2>1, <2>3 DEF CommandTypes, Phases
    <3>2. CommandTypes'
      BY <3>1 DEF CommandTypes
    <3>3. Phases'
      BY <2>1, <3>1 DEF Phases, Applying
    <3> QED BY <2>2, <3>2, <3>3
  <2> QED BY <2>1, <2>2, <2>3, IdleControl
<1>4. CASE ListCache
  <2>1. receipt' = receipt /\ cmd.pc = "list"
    BY <1>4 DEF ListCache
  <2>2. ReceiptTypes'
    BY <2>1 DEF ReceiptTypes
  <2>3. CASE cmd' # Idle
    <3>1. cmd' = [pc |-> "record", op |-> "enable", changes |-> cmd'.changes, todo |-> {}, next |-> cmd.next,
                  at |-> None, creates |-> cmd.creates]
      <4>1. cmd' = [cmd EXCEPT !.pc = "record", !.changes = cmd'.changes]
        BY <1>4, <2>3, ListRecords
      <4> QED BY <2>1, <4>1 DEF CommandTypes, Phases
    <3>2. AreRecorded(cmd'.changes) /\ \A p \in DOMAIN cmd'.changes : cmd'.changes[p].rule = "own"
      BY <1>4, <2>3, ListRecords
    <3> DEFINE f == cmd'.changes
    <3> HIDE DEF f
    <3>3. CommandTypes'
      BY <3>1, <3>2 DEF CommandTypes
    <3>4. Phases'
      BY <2>1, <3>1, <3>2 DEF Phases, Applying
    <3> QED BY <2>2, <3>3, <3>4
  <2> QED BY <2>2, <2>3, IdleControl
<1>5. CASE Record
  <2> DEFINE r == [phase |-> "enabling", changes |-> cmd.changes]
             next == [cmd EXCEPT !.pc = "check", !.todo = DOMAIN cmd.changes, !.next = "finish"]
  <2>1. cmd.pc = "record" /\ cmd.op = "enable" /\ SaveThen(r, next)
    BY <1>5 DEF Record
  <2>2. (receipt' = r /\ cmd' = next) \/ (receipt' \in {receipt, r} /\ cmd' = Idle)
    BY <2>1, SaveStep
  <2>3. receipt' = r => ReceiptTypes' /\ receipt'.phase = "enabling" /\ receipt'.changes = cmd.changes
    BY <2>1, ReceiptMade DEF CommandTypes, Phases
  <2>4. receipt' = receipt => ReceiptTypes'
    BY DEF ReceiptTypes
  <2>5. CASE cmd' = Idle
    BY <2>2, <2>3, <2>4, <2>5, IdleControl
  <2>6. CASE receipt' = r /\ cmd' = next
    <3>1. cmd' = [pc |-> "check", op |-> "enable", changes |-> cmd.changes, todo |-> DOMAIN cmd.changes,
                  next |-> "finish", at |-> None, creates |-> cmd.creates]
      BY <2>1, <2>6 DEF CommandTypes
    <3>2. CommandTypes'
      BY <3>1 DEF CommandTypes
    <3>3. Phases'
      BY <2>1, <2>3, <2>6, <3>1 DEF Phases, Applying
    <3> QED BY <2>3, <2>6, <3>2, <3>3
  <2> QED BY <2>2, <2>5, <2>6
<1>6. CASE FinishEnable
  <2> DEFINE r == [phase |-> "enabled", changes |-> cmd.changes]
  <2>1. cmd.pc = "finish" /\ SaveThen(r, Idle)
    BY <1>6 DEF FinishEnable
  <2>2. receipt' \in {receipt, r} /\ cmd' = Idle
    BY <2>1, SaveStep
  <2>3. receipt' = r => ReceiptTypes'
    BY <2>1, ReceiptMade DEF CommandTypes, Phases
  <2>4. receipt' = receipt => ReceiptTypes'
    BY DEF ReceiptTypes
  <2> QED BY <2>2, <2>3, <2>4, IdleControl
<1> QED BY <1>1, <1>2, <1>3, <1>4, <1>5, <1>6 DEF Enable

\* A disable keeps the receipt in step with what it is about to undo.
LEMMA DisableControl ==
    ASSUME NodeTypes, Control, Layout, Named, Disable
    PROVE  Control'
<1> USE DEF Control
<1>1. CASE BeginDisable
  <2> DEFINE pc == IF receipt.phase = "preparing" THEN "remove" ELSE "disabling"
  <2>1. receipt.phase # "none" /\ Loadable(receipt) /\ receipt' = receipt
        /\ cmd' = [Idle EXCEPT !.op = "disable", !.changes = receipt.changes, !.pc = pc]
    BY <1>1 DEF BeginDisable
  <2>2. cmd' = [pc |-> pc, op |-> "disable", changes |-> receipt.changes, todo |-> {}, next |-> "idle",
                at |-> None, creates |-> FALSE]
    BY <2>1 DEF Idle
  <2>3. AreRecorded(receipt.changes) /\ receipt' = receipt /\ ReceiptTypes'
    BY <2>1 DEF ReceiptTypes
  <2>4. CommandTypes'
    BY <2>2, <2>3 DEF CommandTypes
  <2>5. receipt.phase # "preparing" => Root \in DOMAIN receipt.changes
    <3> SUFFICES ASSUME receipt.phase # "preparing", DOMAIN receipt.changes = {}
                 PROVE  FALSE
      BY <2>3 DEF AreRecorded
    <3>1. receipt.changes # NoChanges
      BY <2>1 DEF Loadable
    <3>2. receipt.changes = [p \in DOMAIN receipt.changes |-> receipt.changes[p]]
      BY <2>3 DEF AreRecorded
    <3>3. receipt.changes = NoChanges
      BY <3>2 DEF NoChanges
    <3> QED BY <3>1, <3>3
  <2>6. Phases'
    BY <2>1, <2>2, <2>5 DEF Phases, Applying
  <2> QED BY <2>3, <2>4, <2>6
<1>2. CASE SaveDisabling
  <2> DEFINE r == [phase |-> "disabling", changes |-> cmd.changes]
             next == [cmd EXCEPT !.pc = "check", !.todo = {Root}, !.next = "sweep"]
  <2>1. cmd.pc = "disabling" /\ SaveThen(r, next)
    BY <1>2 DEF SaveDisabling
  <2>2. (receipt' = r /\ cmd' = next) \/ (receipt' \in {receipt, r} /\ cmd' = Idle)
    BY <2>1, SaveStep
  <2>3. receipt' = r => ReceiptTypes' /\ receipt'.phase = "disabling" /\ receipt'.changes = cmd.changes
    BY <2>1, ReceiptMade DEF CommandTypes
  <2>4. receipt' = receipt => ReceiptTypes'
    BY DEF ReceiptTypes
  <2>5. CASE cmd' = Idle
    BY <2>2, <2>3, <2>4, <2>5, IdleControl
  <2>6. CASE receipt' = r /\ cmd' = next
    <3>1. cmd' = [pc |-> "check", op |-> "disable", changes |-> cmd.changes, todo |-> {Root},
                  next |-> "sweep", at |-> None, creates |-> cmd.creates]
      BY <2>1, <2>6 DEF CommandTypes, Phases
    <3>2. Root \in DOMAIN cmd.changes
      BY <2>1 DEF Phases
    <3>3. CommandTypes'
      BY <3>1, <3>2 DEF CommandTypes
    <3>4. Phases'
      BY <2>1, <2>3, <2>6, <3>1, <3>2 DEF Phases, Applying
    <3> QED BY <2>3, <2>6, <3>3, <3>4
  <2> QED BY <2>2, <2>5, <2>6
<1>3. CASE Sweep
  <2>1. receipt' = receipt /\ cmd.pc = "sweep"
    BY <1>3 DEF Sweep
  <2>2. ReceiptTypes'
    BY <2>1 DEF ReceiptTypes
  <2>3. CASE cmd' # Idle
    <3>1. cmd.op = "disable" /\ Root \in DOMAIN cmd.changes /\ receipt.phase = "disabling"
      BY <2>1 DEF Phases
    <3>2. cmd' = [pc |-> "record", op |-> "disable", changes |-> cmd'.changes, todo |-> {}, next |-> cmd.next,
                  at |-> None, creates |-> cmd.creates]
      <4>1. cmd' = [cmd EXCEPT !.pc = "record", !.changes = cmd'.changes]
        BY <1>3, <2>3, SweepRecords
      <4> QED BY <2>1, <3>1, <4>1 DEF CommandTypes
    <3>3. AreRecorded(cmd'.changes) /\ Root \in DOMAIN cmd'.changes
      BY <1>3, <2>3, <3>1, SweepRecords
    <3> DEFINE f == cmd'.changes
    <3> HIDE DEF f
    <3>4. CommandTypes'
      BY <3>2, <3>3 DEF CommandTypes
    <3>5. Phases'
      BY <2>1, <3>1, <3>2, <3>3 DEF Phases, Applying
    <3> QED BY <2>2, <3>4, <3>5
  <2> QED BY <2>2, <2>3, IdleControl
<1>4. CASE RecordSweep
  <2> DEFINE r == [phase |-> "disabling", changes |-> cmd.changes]
             next == [cmd EXCEPT !.pc = "check", !.todo = DOMAIN cmd.changes \ {Root}, !.next = "remove"]
  <2>1. cmd.pc = "record" /\ cmd.op = "disable" /\ SaveThen(r, next)
    BY <1>4 DEF RecordSweep
  <2>2. (receipt' = r /\ cmd' = next) \/ (receipt' \in {receipt, r} /\ cmd' = Idle)
    BY <2>1, SaveStep
  <2>3. receipt' = r => ReceiptTypes' /\ receipt'.phase = "disabling" /\ receipt'.changes = cmd.changes
    BY <2>1, ReceiptMade DEF CommandTypes
  <2>4. receipt' = receipt => ReceiptTypes'
    BY DEF ReceiptTypes
  <2>5. CASE cmd' = Idle
    BY <2>2, <2>3, <2>4, <2>5, IdleControl
  <2>6. CASE receipt' = r /\ cmd' = next
    <3>1. cmd' = [pc |-> "check", op |-> "disable", changes |-> cmd.changes, todo |-> DOMAIN cmd.changes \ {Root},
                  next |-> "remove", at |-> None, creates |-> cmd.creates]
      BY <2>1, <2>6 DEF CommandTypes
    <3>2. Root \in DOMAIN cmd.changes
      BY <2>1 DEF Phases
    <3>3. CommandTypes'
      BY <3>1 DEF CommandTypes
    <3>4. Phases'
      BY <2>1, <2>3, <2>6, <3>1, <3>2 DEF Phases, Applying
    <3> QED BY <2>3, <2>6, <3>3, <3>4
  <2> QED BY <2>2, <2>5, <2>6
<1>5. CASE RemoveReceipt
  <2>1. cmd.pc = "remove" /\ SaveThen(NoReceipt, Idle)
    BY <1>5 DEF RemoveReceipt
  <2>2. receipt' \in {receipt, NoReceipt} /\ cmd' = Idle
    BY <2>1, SaveStep
  <2>3. receipt' = NoReceipt => ReceiptTypes'
    BY ReceiptGone
  <2>4. receipt' = receipt => ReceiptTypes'
    BY DEF ReceiptTypes
  <2> QED BY <2>2, <2>3, <2>4, IdleControl
<1> QED BY <1>1, <1>2, <1>3, <1>4, <1>5 DEF Disable

\* What a path that is done is: it has no rule in its place (disable).
LEMMA PlainHasNoRule ==
    ASSUME NodeTypes, CommandTypes, NEW p \in DOMAIN cmd.changes, cmd.op = "disable",
           NothingToDo(State(p, cmd.changes[p]))
    PROVE  /\ Entries(p) \cap Rules = {}
           /\ \/ fs[p] = Absent /\ platform = "darwin"
              \/ fs[p].inode = cmd.changes[p].inode
<1>1. Listed(cmd.changes[p].before) \cap Rules = {}
  BY DEF CommandTypes, AreRecorded
<1>2. State(p, cmd.changes[p]) \in {"missing", "plain"}
      /\ (State(p, cmd.changes[p]) = "missing" => platform = "darwin")
  BY DEF NothingToDo, Wanted
<1>3. State(p, cmd.changes[p]) = "missing" => fs[p] = Absent
  BY DEF State
<1>4. State(p, cmd.changes[p]) = "plain" => fs[p].acl = cmd.changes[p].before
                                           /\ fs[p].inode = cmd.changes[p].inode
  BY DEF State
<1> QED BY <1>1, <1>2, <1>3, <1>4, ShortLists DEF Entries, Absent

\* The command goes over its paths one by one.
Ticks(p) == p \in cmd.todo /\ NothingToDo(State(p, cmd.changes[p])) /\ Done(p)
Picks(p) == p \in cmd.todo /\ cmd' = [cmd EXCEPT !.pc = "chmod", !.at = p]

\* A check ends the command, ticks a path off, or picks one to change.
LEMMA CheckStep ==
    ASSUME CommandTypes, Phases, Check \/ Verify
    PROVE  cmd' = Idle \/ \E p \in cmd.todo : Ticks(p) \/ Picks(p)
<1>1. CASE Check
  BY <1>1 DEF Check, Ticks, Picks
<1>2. CASE Verify
  <2>1. cmd.pc = "verify" /\ cmd.at \in cmd.todo
    BY <1>2 DEF Verify, CommandTypes
  <2>2. cmd' # Idle => State(cmd.at, cmd.changes[cmd.at]) = Wanted /\ Done(cmd.at)
    BY <1>2 DEF Verify
  <2> QED BY <2>1, <2>2 DEF Ticks, NothingToDo
<1> QED BY <1>1, <1>2

\* The rules are changed while the receipt says that they may be.
LEMMA ApplyControl ==
    ASSUME NodeTypes, Control, Layout, Named, Apply
    PROVE  Control'
<1> USE DEF Control
<1>1. receipt' = receipt /\ ReceiptTypes'
  <2>1. receipt' = receipt
    BY DEF Apply, Check, Change, Verify, CheckedAll
  <2> QED BY <2>1 DEF ReceiptTypes
<1>2. CASE cmd' = Idle
  BY <1>1, <1>2, IdleControl
<1>3. ASSUME NEW p \in cmd.todo, Applying, Picks(p) PROVE Control'
  <2>1. cmd' = [pc |-> "chmod", op |-> cmd.op, changes |-> cmd.changes, todo |-> cmd.todo,
                next |-> cmd.next, at |-> p, creates |-> cmd.creates]
    BY <1>3 DEF Picks, CommandTypes
  <2>2. CommandTypes'
    BY <1>3, <2>1 DEF CommandTypes
  <2>3. Phases'
    BY <1>1, <1>3, <2>1 DEF Phases, Applying
  <2> QED BY <1>1, <2>2, <2>3
<1>4. ASSUME NEW p \in cmd.todo, Applying, Ticks(p) PROVE Control'
  <2>1. cmd' = [pc |-> "check", op |-> cmd.op, changes |-> cmd.changes, todo |-> cmd.todo \ {p},
                next |-> cmd.next, at |-> None, creates |-> cmd.creates]
    BY <1>4 DEF Ticks, Done, CommandTypes
  <2>2. CommandTypes'
    BY <1>4, <2>1 DEF CommandTypes
  <2>3. Phases'
    BY <1>1, <1>4, <2>1 DEF Phases, Applying
  <2> QED BY <1>1, <2>2, <2>3
<1>5. CASE Check \/ Verify
  <2>1. Applying
    BY <1>5 DEF Check, Verify, Applying
  <2> QED BY <1>2, <1>3, <1>4, <1>5, <2>1, CheckStep
<1>6. CASE Change /\ cmd' # Idle
  <2>1. cmd.pc = "chmod" /\ cmd' = [cmd EXCEPT !.pc = "verify"]
    BY <1>6, ChangeStep DEF Change
  <2>2. cmd' = [pc |-> "verify", op |-> cmd.op, changes |-> cmd.changes, todo |-> cmd.todo,
                next |-> cmd.next, at |-> cmd.at, creates |-> cmd.creates]
    BY <2>1 DEF CommandTypes
  <2>3. CommandTypes'
    BY <2>1, <2>2 DEF CommandTypes
  <2>4. Phases'
    BY <1>1, <2>1, <2>2 DEF Phases, Applying
  <2> QED BY <1>1, <2>3, <2>4
<1>7. CASE CheckedAll
  <2>1. cmd.pc = "check" /\ cmd.todo = {} /\ cmd' = [cmd EXCEPT !.pc = cmd.next] /\ Applying
    BY <1>7 DEF CheckedAll, Goto, Applying
  <2>2. cmd' = [pc |-> cmd.next, op |-> cmd.op, changes |-> cmd.changes, todo |-> {},
                next |-> cmd.next, at |-> None, creates |-> cmd.creates]
    BY <2>1 DEF CommandTypes
  <2>3. cmd.next \in {"finish", "sweep", "remove"}
    BY <2>1 DEF Phases
  <2>4. CommandTypes'
    BY <2>2, <2>3 DEF CommandTypes
  <2>5. Phases'
    BY <1>1, <2>1, <2>2, <2>3 DEF Phases, Applying
  <2> QED BY <1>1, <2>4, <2>5
<1> QED BY <1>2, <1>5, <1>6, <1>7 DEF Apply

\* Every step keeps the command and the receipt in order.
LEMMA ControlStep ==
    ASSUME IInv, [Next]_vars
    PROVE  Control'
<1> USE DEF IInv
<1>1. Control /\ NodeTypes /\ Layout /\ Named
  BY DEF Control
<1>2. CASE Environment
  BY <1>1, <1>2, EnvironmentStep, ControlStays
<1>3. CASE Enable
  BY <1>1, <1>3, EnableControl
<1>4. CASE Disable
  BY <1>1, <1>4, DisableControl
<1>5. CASE Apply
  BY <1>1, <1>5, ApplyControl
<1>6. CASE Kill
  <2>1. cmd' = Idle /\ receipt' = receipt
    BY <1>6 DEF Kill
  <2> QED BY <1>1, <2>1, IdleControl DEF ReceiptTypes, Control
<1>7. CASE Inspect \/ UNCHANGED vars
  <2>1. cmd' = cmd /\ receipt' = receipt
    BY <1>7 DEF Inspect, InspectLoad, InspectList, InspectNode, vars
  <2> QED BY <1>1, <2>1, ControlStays
<1> QED BY <1>2, <1>3, <1>4, <1>5, <1>6, <1>7 DEF Next

-----------------------------------------------------------------------------
(* The cache. *)

\* What a step leaves alone, for the steps of a command other than Change.
LEMMA PathsTypes ==
    ASSUME NodeTypes, PathsStep, platform' = platform, tampered' \in BOOLEAN,
           verdict' \in {"none", "healthy"}
    PROVE  NodeTypes'
BY DEF NodeTypes, PathsStep, NodeMap, BudgetType

\* However the paths change, a denied directory stays empty and identities differ.
LEMMA PathsLayout ==
    ASSUME NodeTypes, Layout, PathsStep, platform' = platform
    PROVE  Layout'
<1>1. \A p \in Path : fs[p] \in Node /\ away[p] \in Node /\ fs'[p] \in Node /\ away'[p] \in Node
  BY DEF NodeTypes, PathsStep, NodeMap
<1>2. budget.inodes \in Nat /\ budget'.inodes \in Nat /\ budget.inodes <= budget'.inodes
  BY DEF NodeTypes, PathsStep, BudgetType
<1>3. Absent.inode = 0 /\ "inherited" \notin Listed(Absent.acl) /\ "own" \notin Listed(Absent.acl)
  BY ShortLists DEF Absent
<1>4. ASSUME NEW p \in Path
      PROVE  /\ fs'[p].inode <= budget'.inodes /\ (fs'[p].inode = 0 => fs'[p] = Absent)
             /\ away'[p].inode <= budget'.inodes /\ (away'[p].inode = 0 => away'[p] = Absent)
             /\ away'[p] # Absent => fs'[p].inode # away'[p].inode /\ p # Root /\ platform' = "windows"
             /\ "inherited" \notin Listed(away'[p].acl)
             /\ "inherited" \in Listed(fs'[p].acl) => p \in Workspace
  <2>1. /\ fs[p].inode \in Nat /\ away[p].inode \in Nat /\ fs'[p].inode \in Nat /\ away'[p].inode \in Nat
        /\ fs[p].inode <= budget.inodes /\ (fs[p].inode = 0 => fs[p] = Absent)
        /\ away[p].inode <= budget.inodes /\ (away[p].inode = 0 => away[p] = Absent)
        /\ away[p] # Absent => fs[p].inode # away[p].inode /\ p # Root /\ platform = "windows"
        /\ "inherited" \notin Listed(away[p].acl)
        /\ "inherited" \in Listed(fs[p].acl) => p \in Workspace
    BY <1>1 DEF Layout, Node, Entries
  <2>2. CASE Stays(p)
    BY <1>2, <2>1, <2>2 DEF Stays
  <2>3. CASE Leaves(p)
    BY <1>2, <1>3, <2>1, <2>3 DEF Leaves
  <2>4. CASE Arrives(p)
    BY <1>2, <1>3, <2>1, <2>4 DEF Arrives
  <2>5. CASE IsEdited(p)
    BY <1>2, <2>1, <2>5 DEF IsEdited, Entries
  <2>6. CASE MovesAway(p)
    BY <1>2, <1>3, <2>1, <2>6 DEF MovesAway, Entries
  <2>7. CASE MovesBack(p)
    BY <1>2, <1>3, <2>1, <2>7 DEF MovesBack
  <2>8. PathStep(p)
    BY DEF PathsStep
  <2> QED BY <2>2, <2>3, <2>4, <2>5, <2>6, <2>7, <2>8 DEF PathStep
<1>5. Tree(fs)'
  BY DEF PathsStep
<1> QED BY <1>4, <1>5 DEF Layout, Entries

\* Steps that leave the cache as it is.
LEMMA SameCache ==
    ASSUME NodeTypes, Layout, fs' = fs, away' = away, platform' = platform,
           budget' \in BudgetType, budget'.inodes = budget.inodes,
           tampered' \in BOOLEAN, verdict' \in {"none", "healthy"}
    PROVE  PathsStep /\ NodeTypes' /\ Layout' /\ \A p \in Path : Stays(p)
<1>1. PathsStep /\ \A p \in Path : Stays(p)
  BY DEF PathsStep, PathStep, Stays, NodeTypes, NodeMap, Layout, Tree, BudgetType
<1> QED BY <1>1, PathsTypes, PathsLayout

\* The kinds of steps that the proofs tell apart.
LEMMA NextCases ==
    ASSUME [Next]_vars
    PROVE  Environment \/ MakeCache \/ Change \/ Saving \/ Thinking \/ Inspect \/ UNCHANGED vars
BY DEF Next, Enable, Disable, Apply, Saving, Thinking

\* An inspection writes only its own state and the verdict.
LEMMA InspectStep ==
    ASSUME NodeTypes, Inspect \/ UNCHANGED vars
    PROVE  /\ fs' = fs /\ away' = away /\ platform' = platform /\ budget' = budget
           /\ budget' \in BudgetType /\ receipt' = receipt /\ cmd' = cmd
           /\ tampered' \in BOOLEAN /\ verdict' \in {"none", "healthy"}
<1>1. CASE UNCHANGED vars
  BY <1>1 DEF vars, outside, NodeTypes, BudgetType
<1>2. CASE InspectLoad
  BY <1>2 DEF InspectLoad, outside, NodeTypes, BudgetType
<1>3. CASE InspectList
  BY <1>3 DEF InspectList, outside, NodeTypes, BudgetType
<1>4. CASE InspectNode
  BY <1>4 DEF InspectNode, outside, NodeTypes, BudgetType
<1> QED BY <1>1, <1>2, <1>3, <1>4 DEF Inspect

\* Every step keeps the types and the layout of the cache.
LEMMA CacheStep ==
    ASSUME IInv, [Next]_vars
    PROVE  NodeTypes' /\ Layout'
<1> USE DEF IInv
<1>0. tampered \in BOOLEAN /\ verdict \in {"none", "healthy"}
  BY DEF NodeTypes
<1>1. CASE Environment
  BY <1>0, <1>1, EnvironmentStep, PathsTypes, PathsLayout
<1>2. CASE MakeCache
  BY <1>0, <1>2, MakeCacheStep, PathsTypes, PathsLayout
<1>3. CASE Saving \/ Thinking
  BY <1>0, <1>3, QuietStep, SameCache
<1>4. CASE Inspect \/ UNCHANGED vars
  BY <1>4, InspectStep, SameCache
<1>5. CASE Change
  <2> DEFINE p == cmd.at
  <2>1. /\ p \in DOMAIN cmd.changes /\ p \in Path /\ cmd.changes[p].rule \in Rules
        /\ cmd.op = "enable" => cmd.changes[p].rule = "own"
    BY <1>5, ChangeStep DEF CommandTypes, AreRecorded, Recorded, Phases
  <2>2. /\ fs' \in NodeMap /\ \A q \in Path \ {p} : fs'[q] = fs[q]
        /\ fs'[p].inode = fs[p].inode /\ (fs'[p] = Absent <=> fs[p] = Absent)
        /\ Listed(fs'[p].acl) \cap Rules \subseteq Entries(p) \cup AddedRule
        /\ away' = away /\ platform' = platform /\ verdict' = verdict /\ tampered' = tampered
        /\ budget' \in BudgetType /\ budget'.inodes = budget.inodes
    BY <1>5, ChangeStep
  <2>3. NodeTypes'
    BY <2>2 DEF NodeTypes, NodeMap, BudgetType
  <2>4. Tree(fs)'
    BY <2>1, <2>2 DEF Layout, Tree, Path
  <2>5. "inherited" \in Listed(fs'[p].acl) => "inherited" \in Entries(p)
    BY <2>2 DEF AddedRule, Rules
  <2>6. ASSUME NEW q \in Path
        PROVE  /\ fs'[q].inode = fs[q].inode /\ (fs'[q] = Absent <=> fs[q] = Absent)
               /\ "inherited" \in Listed(fs'[q].acl) => "inherited" \in Entries(q)
    BY <2>2, <2>5 DEF Entries
  <2>7. Layout'
    BY <2>2, <2>4, <2>6 DEF Layout, Entries
  <2> QED BY <2>3, <2>7
<1> QED BY <1>1, <1>2, <1>3, <1>4, <1>5, NextCases

-----------------------------------------------------------------------------
(* Rules and receipt. *)

\* Nobody but a command adds the rule; it follows its object.
LEMMA PathRules ==
    ASSUME NodeTypes, Layout, NEW p \in Path, PathStep(p)
    PROVE  /\ "own" \in Listed(fs'[p].acl) =>
                 \/ "own" \in Entries(p) /\ fs'[p].inode = fs[p].inode
                 \/ "own" \in Listed(away[p].acl) /\ fs'[p].inode = away[p].inode
           /\ "own" \in Listed(away'[p].acl) =>
                 \/ "own" \in Listed(away[p].acl) /\ away'[p].inode = away[p].inode
                 \/ "own" \in Entries(p) /\ away'[p].inode = fs[p].inode /\ platform = "windows"
           /\ "inherited" \in Listed(fs'[p].acl) =>
                 "inherited" \in Entries(p) \/ "own" \in Entries(Root)
<1>1. "own" \notin Listed(Absent.acl) /\ "inherited" \notin Listed(Absent.acl)
  BY ShortLists DEF Absent
<1>2. "inherited" \notin Listed(away[p].acl)
  BY DEF Layout
<1> QED BY <1>1, <1>2 DEF PathStep, Stays, Leaves, Arrives, IsEdited, MovesAway, MovesBack, Entries

\* A rule that appears on a path comes with the rule on the root.
LEMMA RuledBefore ==
    ASSUME NodeTypes, Layout, NEW p \in Path, PathStep(p), Ruled(p)'
    PROVE  Ruled(p) \/ "own" \in Entries(Root)
BY PathRules DEF Ruled, Rules, Entries

\* The object at a pinned path stays.
LEMMA PinnedStays ==
    ASSUME NodeTypes, Layout, NEW p \in Path, PathStep(p), Pinned(p), fs[p] # Absent
    PROVE  fs'[p].inode = fs[p].inode
BY DEF PathStep, Stays, Leaves, Arrives, IsEdited, MovesAway, MovesBack

\* Names, when the receipt stays.
LEMMA NamedStays ==
    ASSUME IInv, PathsStep, platform' = platform, receipt' = receipt, cmd' = cmd
    PROVE  Named'
<1> USE DEF IInv
<1>1. ASSUME receipt'.phase \in {"none", "preparing"}, NEW p \in Path, Ruled(p)' PROVE FALSE
  <2>1. "own" \notin Entries(Root) /\ ~Ruled(p)
    BY <1>1 DEF Named, Ruled, Path, Rules
  <2>2. PathStep(p)
    BY DEF PathsStep
  <2> QED BY <1>1, <2>1, <2>2, RuledBefore
<1>2. ASSUME NEW p \in Path, "own" \in Listed(fs'[p].acl)
      PROVE  /\ p \in DOMAIN receipt.changes
             /\ platform = "windows" => receipt.changes[p].inode = fs'[p].inode
  BY <1>2, PathRules DEF Named, MovedStaysRecorded, PathsStep
<1>3. ASSUME NEW p \in Path, "own" \in Listed(away'[p].acl)
      PROVE  p \in DOMAIN receipt.changes /\ receipt.changes[p].inode = away'[p].inode
  BY <1>3, PathRules DEF Named, MovedStaysRecorded, PathsStep
<1>4. ASSUME Applying, cmd.at # None, platform = "windows"
      PROVE  fs'[cmd.at].inode = cmd.changes[cmd.at].inode
  <2>1. cmd.at \in Path /\ cmd.changes[cmd.at].inode \in 1..MaxInodes
    BY <1>4 DEF CommandTypes, AreRecorded, Recorded
  <2>2. fs[cmd.at].inode = cmd.changes[cmd.at].inode
    BY <1>4 DEF Named
  <2>3. fs[cmd.at] # Absent /\ Pinned(cmd.at)
    BY <1>4, <2>1, <2>2, WithinPath DEF Absent, Pinned
  <2>4. PathStep(cmd.at)
    BY <2>1 DEF PathsStep
  <2> QED BY <2>1, <2>2, <2>3, <2>4, PinnedStays
<1> QED BY <1>1, <1>2, <1>3, <1>4 DEF Named, MovedStaysRecorded, Applying, Entries

\* A receipt that is saved names every rule, and with its identity.
Names(r) ==
    /\ r.phase \in {"none", "preparing"} => \A p \in Path : ~Ruled(p)
    /\ \A p \in Path : "own" \in Entries(p) =>
          /\ p \in DOMAIN r.changes
          /\ platform = "windows" => r.changes[p].inode = fs[p].inode
    /\ \A p \in Path : "own" \in Listed(away[p].acl) =>
          p \in DOMAIN r.changes /\ r.changes[p].inode = away[p].inode

\* A receipt that a command saves names every rule in the cache.
LEMMA SavedNames ==
    ASSUME IInv, Saving
    PROVE  Names(receipt')
<1> USE DEF IInv
<1>1. Names(receipt)
  BY DEF Names, Named, MovedStaysRecorded
<1>2. ASSUME NEW r, NEW next, SaveThen(r, next), r.changes = receipt.changes,
             r.phase \notin {"none", "preparing"} \/ receipt.phase \in {"none", "preparing"}
      PROVE  Names(receipt')
  <2>1. receipt' \in {receipt, r}
    BY <1>2, SaveStep
  <2>2. Names(r)
    BY <1>1, <1>2 DEF Names
  <2> QED BY <1>1, <2>1, <2>2
<1>3. CASE Prepare
  <2>1. receipt.phase = "none" /\ receipt.changes = NoChanges
    BY <1>3 DEF Prepare, Phases, ReceiptTypes
  <2> QED BY <1>2, <1>3, <2>1 DEF Prepare
<1>4. CASE FinishEnable
  <2>1. receipt.changes = cmd.changes
    BY <1>4 DEF FinishEnable, Phases
  <2> QED BY <1>2, <1>4, <2>1 DEF FinishEnable
<1>5. CASE SaveDisabling
  <2>1. receipt.changes = cmd.changes
    BY <1>5 DEF SaveDisabling, Phases
  <2> QED BY <1>2, <1>5, <2>1 DEF SaveDisabling
<1>6. CASE Record
  <2> DEFINE r == [phase |-> "enabling", changes |-> cmd.changes]
  <2>1. receipt.phase = "preparing"
    BY <1>6 DEF Record, Phases
  <2>2. \A p \in Path : ~Ruled(p)
    BY <2>1 DEF Named
  <2>3. receipt' \in {receipt, r}
    BY <1>6, SaveStep DEF Record
  <2> QED BY <1>1, <2>2, <2>3 DEF Names, Ruled, Rules
<1>7. CASE RecordSweep
  <2> DEFINE r == [phase |-> "disabling", changes |-> cmd.changes]
  <2>1. cmd.pc = "record" /\ cmd.op = "disable"
    BY <1>7 DEF RecordSweep
  <2>2. \A p \in Path : Ruled(p) => /\ p \in DOMAIN cmd.changes
                                    /\ p \in DOMAIN receipt.changes => cmd.changes[p] = receipt.changes[p]
    BY <2>1 DEF Swept
  <2>3. receipt' \in {receipt, r}
    BY <1>7, SaveStep DEF RecordSweep
  <2>4. Names(r)
    BY <1>1, <2>2 DEF Names, Ruled, Rules
  <2> QED BY <1>1, <2>3, <2>4
<1>8. CASE RemoveReceipt
  <2>1. cmd.pc = "remove" /\ cmd.op = "disable"
    BY <1>8 DEF RemoveReceipt, Phases
  <2>2. \A p \in Path : ~Ruled(p)
    BY <2>1 DEF Swept
  <2>3. receipt' \in {receipt, NoReceipt}
    BY <1>8, SaveStep DEF RemoveReceipt
  <2> QED BY <1>1, <2>2, <2>3 DEF Names, Ruled, Rules
<1> QED BY <1>3, <1>4, <1>5, <1>6, <1>7, <1>8 DEF Saving

\* Names, where the command is not at a path, or just comes there.
LEMMA NamedFrom ==
    ASSUME Names(receipt)', Applying' /\ cmd'.at # None /\ platform' = "windows" =>
                               fs'[cmd'.at].inode = cmd'.changes[cmd'.at].inode
    PROVE  Named'
BY DEF Names, Named, MovedStaysRecorded, Applying, Entries

\* Every step leaves the rules named by the receipt.
LEMMA NamedStep ==
    ASSUME IInv, [Next]_vars, Control'
    PROVE  Named'
<1> USE DEF IInv
<1>0. CommandTypes' /\ Names(receipt)
  BY DEF Control, Names, Named, MovedStaysRecorded
<1>1. CASE Environment
  BY <1>1, EnvironmentStep, NamedStays
<1>2. CASE Inspect \/ UNCHANGED vars
  <2>1. PathsStep
    <3>1. NodeTypes /\ budget'.inodes = budget.inodes
      BY <1>2, InspectStep
    <3> QED BY <1>2, <3>1, InspectStep, SameCache
  <2> QED BY <1>2, <2>1, InspectStep, NamedStays
<1>3. CASE Saving
  <2>1. fs' = fs /\ away' = away /\ platform' = platform
    BY <1>3, QuietStep
  <2>2. Names(receipt)'
    BY <1>3, <2>1, SavedNames DEF Names, Ruled, Entries
  <2>3. cmd'.at = None
    <3>1. cmd' = Idle => cmd'.at = None
      BY DEF Idle
    <3>2. cmd.pc \notin {"chmod", "verify"} => cmd.at = None
      BY DEF CommandTypes
    <3>3. cmd' # Idle => cmd.pc \notin {"chmod", "verify"} /\ cmd'.at = cmd.at
      BY <1>3 DEF Saving, Prepare, Record, FinishEnable, SaveDisabling, RecordSweep, RemoveReceipt,
                  SaveThen, CommandTypes
    <3> QED BY <3>1, <3>2, <3>3
  <2> QED BY <2>2, <2>3, NamedFrom
<1>4. CASE MakeCache
  <2>1. PathsStep /\ platform' = platform /\ receipt' = receipt /\ receipt.phase = "preparing"
    BY <1>4, MakeCacheStep DEF MakeCache, Phases
  <2>2. \A p \in Path : ~Ruled(p)
    BY <2>1 DEF Named
  <2>3. \A p \in Path : ~Ruled(p)'
    <3>1. "own" \notin Entries(Root)
      BY <2>2 DEF Ruled, Path, Rules
    <3> QED BY <2>1, <2>2, <3>1, RuledBefore DEF PathsStep
  <2>4. Names(receipt)'
    BY <2>3 DEF Names, Ruled, Rules
  <2>5. ~Applying'
    BY <1>4, MakeCacheStep DEF Applying, Idle, CommandTypes
  <2> QED BY <2>4, <2>5, NamedFrom
<1>5. CASE Change
  <2> DEFINE p == cmd.at
  <2>1. /\ p \in DOMAIN cmd.changes /\ p \in Path /\ p \in cmd.todo
        /\ \A q \in Path \ {p} : fs'[q] = fs[q]
        /\ fs'[p].inode = fs[p].inode
        /\ Listed(fs'[p].acl) \cap Rules \subseteq Entries(p) \cup AddedRule
        /\ away' = away /\ platform' = platform /\ receipt' = receipt
        /\ cmd' = Idle \/ cmd' = [cmd EXCEPT !.pc = "verify"]
    BY <1>5, ChangeStep
  <2>2. cmd.pc = "chmod" /\ Applying /\ p # None
    BY <1>5, <2>1 DEF Change, Applying
  <2>3. receipt.phase \notin {"none", "preparing"} /\ receipt.changes = cmd.changes
    BY <2>2 DEF Phases, Applying
  <2>4. platform = "windows" => fs[p].inode = cmd.changes[p].inode
    BY <2>2 DEF Named
  <2>5. \A q \in Path : "own" \in Listed(fs'[q].acl) => q = p \/ "own" \in Entries(q)
    BY <2>1 DEF Entries
  <2>6. Names(receipt)'
    <3>1. receipt'.phase \notin {"none", "preparing"}
      BY <2>1, <2>3
    <3>2. \A q \in Path : "own" \in Listed(fs'[q].acl) =>
             q \in DOMAIN receipt'.changes
             /\ (platform' = "windows" => receipt'.changes[q].inode = fs'[q].inode)
      BY <1>0, <2>1, <2>3, <2>4, <2>5 DEF Names
    <3>3. \A q \in Path : "own" \in Listed(away'[q].acl) =>
             q \in DOMAIN receipt'.changes /\ receipt'.changes[q].inode = away'[q].inode
      BY <1>0, <2>1 DEF Names
    <3> QED BY <3>1, <3>2, <3>3 DEF Names, Entries
  <2>7. cmd' # Idle => cmd'.at = p /\ cmd'.changes = cmd.changes
    BY <2>1 DEF CommandTypes
  <2>8. cmd' = Idle => cmd'.at = None
    BY DEF Idle
  <2> QED BY <2>1, <2>4, <2>6, <2>7, <2>8, NamedFrom
<1>6. CASE Thinking
  <2>1. fs' = fs /\ away' = away /\ platform' = platform
    BY <1>6, QuietStep
  <2>2. receipt' = receipt
    BY <1>6 DEF Thinking, BeginEnable, ListCache, BeginDisable, Sweep, Check, Verify, CheckedAll, Kill
  <2>3. Names(receipt)'
    BY <1>0, <2>1, <2>2 DEF Names, Ruled, Entries
  <2>4. CASE cmd'.at = None
    BY <2>3, <2>4, NamedFrom
  <2>5. CASE cmd'.at # None
    <3>1. cmd'.pc \in {"chmod", "verify"}
      BY <1>0, <2>5 DEF CommandTypes
    <3>2. Check
      <4> DEFINE old == cmd
      <4>0. old = [pc |-> old.pc, op |-> old.op, changes |-> old.changes, todo |-> old.todo,
                   next |-> old.next, at |-> old.at, creates |-> old.creates]
        BY DEF CommandTypes
      <4>1. Idle.pc = "idle" /\ Idle.at = None
        BY DEF Idle
      <4>2. ~BeginEnable /\ ~BeginDisable
        <5>1. BeginEnable => cmd'.pc = "prepare"
          BY DEF BeginEnable, Idle
        <5>2. BeginDisable => cmd'.pc \in {"remove", "disabling"}
          BY DEF BeginDisable, Idle
        <5> QED BY <3>1, <5>1, <5>2
      <4>3. ~ListCache /\ ~Sweep /\ ~Kill
        <5>1. Kill => cmd' = Idle
          BY DEF Kill
        <5>2. ListCache \/ Sweep => cmd' = Idle \/ cmd'.pc = "record"
          BY <4>0 DEF ListCache, Sweep
        <5> QED BY <3>1, <4>1, <5>1, <5>2
      <4>4. ~CheckedAll
        <5>1. CheckedAll => cmd'.pc = cmd.next /\ cmd.next \in {"finish", "sweep", "remove"}
          BY <4>0 DEF CheckedAll, Goto, Phases, Applying
        <5> QED BY <3>1, <5>1
      <4>5. ~Verify
        <5>1. Verify => cmd' = Idle \/ cmd'.pc = "check"
          BY <4>0 DEF Verify, Done
        <5> QED BY <3>1, <4>1, <5>1
      <4> QED BY <1>6, <4>2, <4>3, <4>4, <4>5 DEF Thinking
    <3>3. PICK p \in cmd.todo : /\ State(p, cmd.changes[p]) \notin {"refused", "missing"}
                                /\ cmd' = [cmd EXCEPT !.pc = "chmod", !.at = p]
      <4>1. Idle.at = None /\ \A p : Done(p) => cmd'.at = None
        BY DEF Idle, Done, CommandTypes
      <4> QED BY <2>5, <3>2, <4>1 DEF Check
    <3>4. cmd'.at = p /\ cmd'.changes = cmd.changes
      BY <3>3 DEF CommandTypes
    <3>5. fs[p].inode = cmd.changes[p].inode
      BY <3>3 DEF State
    <3> QED BY <2>1, <2>3, <3>4, <3>5, NamedFrom
  <2> QED BY <2>4, <2>5
<1> QED BY <1>1, <1>2, <1>3, <1>4, <1>5, <1>6, NextCases

-----------------------------------------------------------------------------
(* How far a disable has come. *)

\* The root has been done before the others are.
LEMMA SweptStays ==
    ASSUME IInv, PathsStep, cmd' = cmd, receipt' = receipt
    PROVE  Swept'
<1> USE DEF IInv
<1>1. CASE cmd.op = "disable" /\ RootDone
  <2>1. "own" \notin Entries(Root) /\ Root \in Path
    BY <1>1 DEF Swept, Path
  <2>2. "own" \notin Listed(away[Root].acl)
    BY <2>1, ShortLists DEF Layout, Absent
  <2>3. "own" \notin Listed(fs'[Root].acl)
    BY <2>1, <2>2, PathRules DEF PathsStep
  <2>4. \A p \in Path : Ruled(p)' => Ruled(p)
    BY <2>1, RuledBefore DEF PathsStep
  <2> QED BY <1>1, <2>3, <2>4 DEF Swept, RootDone, Applying, Entries
<1>2. CASE ~(cmd.op = "disable" /\ RootDone)
  BY <1>2 DEF Swept, RootDone, Applying
<1> QED BY <1>1, <1>2

\* A path that is done has no rule, not even where it was moved to.
LEMMA DoneHasNoRule ==
    ASSUME IInv, NEW p \in cmd.todo, cmd.op = "disable", Applying,
           NothingToDo(State(p, cmd.changes[p]))
    PROVE  ~Ruled(p)
<1> USE DEF IInv
<1>1. p \in DOMAIN cmd.changes /\ p \in Path /\ cmd.changes = receipt.changes
  BY DEF CommandTypes, AreRecorded, Phases, Applying
<1>2. Entries(p) \cap Rules = {}
      /\ ((fs[p] = Absent /\ platform = "darwin") \/ fs[p].inode = cmd.changes[p].inode)
  BY <1>1, PlainHasNoRule
<1>3. ASSUME "own" \in Listed(away[p].acl) PROVE FALSE
  <2>1. away[p] # Absent
    BY <1>3, ShortLists DEF Absent
  <2>2. receipt.changes[p].inode = away[p].inode
    BY <1>1, <1>3 DEF Named, MovedStaysRecorded
  <2>3. fs[p].inode # away[p].inode /\ platform = "windows"
    BY <1>1, <2>1 DEF Layout
  <2> QED BY <1>1, <1>2, <2>2, <2>3
<1> QED BY <1>2, <1>3 DEF Ruled

\* The cache is as it was: what a command that goes on must show.
SweptBy(c) ==
    /\ (c.pc \in {"sweep", "record", "remove"} \/ c.next = "remove"
        \/ (c.pc \in {"check", "chmod", "verify"} /\ c.next = "sweep" /\ Root \notin c.todo)) =>
          "own" \notin Entries(Root)
    /\ c.pc = "record" => \A p \in Path : Ruled(p) =>
          /\ p \in DOMAIN c.changes
          /\ p \in DOMAIN receipt.changes => c.changes[p] = receipt.changes[p]
    /\ c.pc \in {"check", "chmod", "verify"} /\ c.next = "remove" =>
          \A p \in Path : Ruled(p) => p \in c.todo
    /\ c.pc = "remove" => \A p \in Path : ~Ruled(p)

\* A step that changes no path only has to place the command.
LEMMA SweptHere ==
    ASSUME fs' = fs, away' = away, receipt' = receipt \/ cmd'.pc # "record",
           cmd'.op = "disable" => SweptBy(cmd')
    PROVE  Swept'
<1>1. CASE cmd'.op = "disable"
  <2>1. SweptBy(cmd')
    BY <1>1
  <2>2. \A p \in Path : Ruled(p)' <=> Ruled(p)
    BY DEF Ruled, Entries
  <2>3. Entries(Root)' = Entries(Root)
    BY DEF Entries
  <2>4. RootDone' => "own" \notin Entries(Root)'
    BY <2>1, <2>3 DEF SweptBy, RootDone, Applying
  <2>5. cmd'.pc = "record" => \A p \in Path : Ruled(p)' =>
          /\ p \in DOMAIN cmd'.changes
          /\ p \in DOMAIN receipt'.changes => cmd'.changes[p] = receipt'.changes[p]
    BY <2>1, <2>2 DEF SweptBy
  <2>6. Applying' /\ cmd'.next = "remove" => \A p \in Path : Ruled(p)' => p \in cmd'.todo
    BY <2>1, <2>2 DEF SweptBy, Applying
  <2>7. cmd'.pc = "remove" => \A p \in Path : ~Ruled(p)'
    BY <2>1, <2>2 DEF SweptBy
  <2> QED BY <2>4, <2>5, <2>6, <2>7 DEF Swept
<1>2. CASE cmd'.op # "disable"
  BY <1>2 DEF Swept
<1> QED BY <1>1, <1>2

\* The steps of a disable that change no path.
LEMMA SweptByDisable ==
    ASSUME IInv, BeginDisable \/ SaveDisabling \/ Sweep \/ RecordSweep \/ Check \/ Verify \/ CheckedAll,
           cmd'.op = "disable"
    PROVE  SweptBy(cmd')
<1> USE DEF IInv
<1>0. Idle.op = "none" /\ cmd' # Idle
  BY DEF Idle
<1>1. CASE BeginDisable
  <2>1. cmd'.pc = (IF receipt.phase = "preparing" THEN "remove" ELSE "disabling") /\ cmd'.next = "idle"
    BY <1>1 DEF BeginDisable, Idle
  <2>2. receipt.phase = "preparing" => \A p \in Path : ~Ruled(p)
    BY DEF Named
  <2> QED BY <2>1, <2>2 DEF SweptBy, Ruled, Rules, Path
<1>2. CASE SaveDisabling
  <2>1. cmd' = [cmd EXCEPT !.pc = "check", !.todo = {Root}, !.next = "sweep"]
    BY <1>0, <1>2, SaveStep DEF SaveDisabling
  <2>2. cmd'.pc = "check" /\ cmd'.next = "sweep" /\ cmd'.todo = {Root}
    BY <2>1 DEF CommandTypes
  <2> QED BY <2>2 DEF SweptBy
<1>3. CASE Sweep
  <2>1. /\ cmd' = [cmd EXCEPT !.pc = "record", !.changes = cmd'.changes]
        /\ \A p \in DOMAIN cmd.changes : p = Root \/ fs[p] # Absent \/ platform = "windows" =>
              p \in DOMAIN cmd'.changes /\ cmd'.changes[p] = cmd.changes[p]
        /\ \A p \in DOMAIN cmd.changes : p \in DOMAIN cmd'.changes => cmd'.changes[p] = cmd.changes[p]
        /\ \A w \in Workspace : HasInherited(w) => w \in DOMAIN cmd'.changes
    BY <1>0, <1>3, SweepRecords
  <2>2. cmd.pc = "sweep" /\ cmd.op = "disable" /\ receipt.changes = cmd.changes
    BY <1>3 DEF Sweep, Phases
  <2>3. cmd'.pc = "record"
    BY <2>1 DEF CommandTypes
  <2>4. "own" \notin Entries(Root)
    BY <2>2 DEF Swept, RootDone
  <2>5. ASSUME NEW p \in Path, "own" \in Entries(p) \/ "own" \in Listed(away[p].acl)
        PROVE  p \in DOMAIN cmd'.changes
    <3>1. p \in DOMAIN cmd.changes
      BY <2>2, <2>5 DEF Named, MovedStaysRecorded
    <3>2. "own" \in Entries(p) => fs[p] # Absent
      BY ShortLists DEF Entries, Absent
    <3>3. "own" \in Listed(away[p].acl) => platform = "windows"
      BY ShortLists DEF Layout, Absent
    <3> QED BY <2>1, <2>5, <3>1, <3>2, <3>3
  <2>6. ASSUME NEW p \in Path, "inherited" \in Entries(p) PROVE p \in DOMAIN cmd'.changes
    BY <2>1, <2>6 DEF Layout, HasInherited
  <2> QED BY <2>1, <2>2, <2>3, <2>4, <2>5, <2>6 DEF SweptBy, Ruled, Rules
<1>4. CASE RecordSweep
  <2>1. cmd' = [cmd EXCEPT !.pc = "check", !.todo = DOMAIN cmd.changes \ {Root}, !.next = "remove"]
        /\ cmd.pc = "record" /\ cmd.op = "disable"
    BY <1>0, <1>4, SaveStep DEF RecordSweep
  <2>2. cmd'.pc = "check" /\ cmd'.next = "remove" /\ cmd'.todo = DOMAIN cmd.changes \ {Root}
    BY <2>1 DEF CommandTypes
  <2>3. "own" \notin Entries(Root) /\ \A p \in Path : Ruled(p) => p \in DOMAIN cmd.changes
    BY <2>1 DEF Swept, RootDone
  <2>4. ~Ruled(Root)
    BY <2>3, ShortLists DEF Ruled, Rules, Layout, Path, Absent
  <2> QED BY <2>2, <2>3, <2>4 DEF SweptBy
<1>5. CASE Check \/ Verify
  <2>0. Applying
    BY <1>5 DEF Check, Verify, Applying
  <2>1. PICK p \in cmd.todo : Ticks(p) \/ Picks(p)
    BY <1>0, <1>5, CheckStep
  <2>2. CASE Picks(p)
    <3>1. cmd.op = "disable" /\ cmd'.pc = "chmod" /\ cmd'.next = cmd.next /\ cmd'.todo = cmd.todo
      BY <2>2 DEF Picks, CommandTypes
    <3> QED BY <2>0, <3>1 DEF SweptBy, Swept, RootDone, Applying
  <2>3. CASE Ticks(p)
    <3>1. cmd.op = "disable" /\ cmd'.pc = "check" /\ cmd'.next = cmd.next /\ cmd'.todo = cmd.todo \ {p}
      BY <2>3 DEF Ticks, Done, CommandTypes
    <3>2. ~Ruled(p)
      BY <2>0, <2>3, <3>1, DoneHasNoRule DEF Ticks
    <3>3. p = Root => "own" \notin Entries(Root)
      BY <3>2 DEF Ruled, Rules
    <3> QED BY <2>0, <3>1, <3>2, <3>3 DEF SweptBy, Swept, RootDone, Applying
  <2> QED BY <2>1, <2>2, <2>3
<1>6. CASE CheckedAll
  <2>1. cmd.pc = "check" /\ cmd.todo = {} /\ cmd'.pc = cmd.next /\ cmd'.next = cmd.next
        /\ cmd.op = "disable" /\ Applying
    BY <1>6 DEF CheckedAll, Goto, CommandTypes, Applying
  <2>2. cmd.next \in {"sweep", "remove"}
    BY <2>1 DEF Phases
  <2> QED BY <2>1, <2>2 DEF SweptBy, Swept, RootDone, Applying
<1> QED BY <1>1, <1>2, <1>3, <1>4, <1>5, <1>6

\* A change of a disable brings no rule back.
LEMMA SweptByChange ==
    ASSUME IInv, Change
    PROVE  Swept'
<1> USE DEF IInv
<1> DEFINE p == cmd.at
<1>1. /\ p \in DOMAIN cmd.changes /\ p \in Path /\ p \in cmd.todo
      /\ \A q \in Path \ {p} : fs'[q] = fs[q]
      /\ Listed(fs'[p].acl) \cap Rules \subseteq Entries(p) \cup AddedRule
      /\ away' = away /\ receipt' = receipt
      /\ cmd' = Idle \/ cmd' = [cmd EXCEPT !.pc = "verify"]
  BY ChangeStep
<1>2. CASE cmd' = Idle
  BY <1>2 DEF Swept, Idle
<1>3. CASE cmd' = [cmd EXCEPT !.pc = "verify"] /\ cmd.op = "disable"
  <2>1. cmd'.pc = "verify" /\ cmd'.next = cmd.next /\ cmd'.todo = cmd.todo /\ cmd.pc = "chmod"
    BY <1>3 DEF Change, CommandTypes
  <2>2. \A q \in Path : Listed(fs'[q].acl) \cap Rules \subseteq Entries(q)
    BY <1>1, <1>3 DEF AddedRule, Entries
  <2>3. \A q \in Path : Ruled(q)' => Ruled(q)
    BY <1>1, <2>2 DEF Ruled, Entries
  <2>4. "own" \notin Entries(Root) => "own" \notin Listed(fs'[Root].acl)
    BY <2>2 DEF Path, Rules
  <2> QED BY <1>3, <2>1, <2>3, <2>4 DEF Swept, RootDone, Applying, Entries
<1>4. CASE cmd' = [cmd EXCEPT !.pc = "verify"] /\ cmd.op # "disable"
  BY <1>4 DEF Swept, CommandTypes
<1> QED BY <1>1, <1>2, <1>3, <1>4

\* Every step keeps what a disable has done.
LEMMA SweptStep ==
    ASSUME IInv, [Next]_vars
    PROVE  Swept'
<1> USE DEF IInv
<1>0. Idle.op = "none"
  BY DEF Idle
<1>1. CASE Environment
  BY <1>1, EnvironmentStep, SweptStays
<1>2. CASE Inspect \/ UNCHANGED vars
  <2>1. NodeTypes /\ budget'.inodes = budget.inodes
    BY <1>2, InspectStep
  <2> QED BY <1>2, <2>1, InspectStep, SameCache, SweptStays
<1>3. CASE Change
  BY <1>3, SweptByChange
<1>4. CASE Kill \/ RemoveReceipt \/ FinishEnable \/ BeginEnable \/ MakeCache \/ Prepare \/ Record \/ ListCache
  <2>1. CASE Kill \/ RemoveReceipt \/ FinishEnable
    <3>1. cmd' = Idle
      BY <2>1, SaveStep DEF Kill, RemoveReceipt, FinishEnable
    <3> QED BY <1>0, <3>1 DEF Swept
  <2>2. CASE BeginEnable
    <3>1. cmd'.op = "enable"
      BY <2>2 DEF BeginEnable, Idle
    <3> QED BY <3>1 DEF Swept
  <2>3. CASE MakeCache \/ Prepare \/ Record \/ ListCache
    <3>1. cmd.op = "enable"
      BY <2>3 DEF MakeCache, Prepare, Record, ListCache, Phases
    <3>2. cmd' = Idle \/ cmd'.op = cmd.op
      BY <2>3 DEF MakeCache, Prepare, Record, ListCache, SaveThen, Goto, CommandTypes
    <3> QED BY <1>0, <3>1, <3>2 DEF Swept
  <2> QED BY <1>4, <2>1, <2>2, <2>3
<1>5. CASE BeginDisable \/ SaveDisabling \/ Sweep \/ RecordSweep \/ Check \/ Verify \/ CheckedAll
  <2>1. fs' = fs /\ away' = away
    BY <1>5, QuietStep DEF Saving, Thinking
  <2>2. receipt' = receipt \/ SaveDisabling \/ RecordSweep
    BY <1>5 DEF BeginDisable, Sweep, Check, Verify, CheckedAll
  <2>3. SaveDisabling \/ RecordSweep => cmd' = Idle \/ cmd'.pc = "check"
    BY DEF SaveDisabling, RecordSweep, SaveThen, CommandTypes
  <2>4. Idle.pc = "idle"
    BY DEF Idle
  <2> QED BY <1>5, <2>1, <2>2, <2>3, <2>4, SweptByDisable, SweptHere
<1> QED BY <1>1, <1>2, <1>3, <1>4, <1>5, NextCases DEF Saving, Thinking

-----------------------------------------------------------------------------
(* The inspection. *)

\* An installed path is guarded.
LEMMA InstalledIsGuarded ==
    ASSUME NEW p \in Path, NEW c \in Recorded, State(p, c) = "installed"
    PROVE  c.rule \in Entries(p) /\ Guarded(p) /\ fs[p] # Absent
<1>1. fs[p] # Absent /\ fs[p].acl = Expected(c)
  BY DEF State
<1>2. c.before \in Acl /\ c.rule \in Rules /\ c.rule \in Ace /\ "inherited" \in Ace /\ "own" \in Ace
  BY DEF Recorded, Rules, Ace
<1>3. /\ Listed(<<"own">> \o c.before) = {"own"} \cup Listed(c.before)
      /\ Listed(Append(c.before, "inherited")) = Listed(c.before) \cup {"inherited"}
  BY <1>2, Lists
<1>4. c.rule \in Listed(Expected(c))
  BY <1>2, <1>3 DEF Expected, Rules
<1> QED BY <1>1, <1>2, <1>4 DEF Entries, Guarded

\* What an undisturbed inspection has not to look at any more.
Passed(p) ==
    \/ Guarded(p)
    \/ p \in Workspace /\ Root \in insp.todo /\ "own" \notin Entries(Root)
    \/ p \in Artifact /\ ~Guarded(WorkspaceOf[p])

\* Without discard, import, edit or disable the root stays, and what was made
\* meanwhile is guarded if its parent is.
LEMMA PassedStays ==
    ASSUME IInv, PathsStep, platform' = platform, insp' = insp, ~tampered',
           fs[Root] # Absent, NEW p \in Path, fs'[p] # Absent,
           fs[p] # Absent => Passed(p),
           Root \notin insp.todo => Guarded(Root)
    PROVE  Passed(p)'
<1> USE DEF IInv
<1>0. Root \in Path /\ away[Root] = Absent /\ (platform' = "windows" <=> platform = "windows")
  BY DEF Path, Layout
<1>1. Stays(Root)
  BY <1>0 DEF PathsStep, PathStep, Leaves, Arrives, IsEdited, MovesAway, MovesBack
<1>2. Entries(Root)' = Entries(Root) /\ Guarded(Root)' = Guarded(Root)
  BY <1>1 DEF Stays, Entries, Guarded
<1>3. Stays(p) \/ (Arrives(p) /\ p # Root)
  BY <1>0, <1>1 DEF PathsStep, PathStep, Leaves, Arrives, IsEdited, MovesAway, MovesBack, Stays, Absent
<1>4. CASE Stays(p)
  <2>1. Passed(p) /\ Entries(p)' = Entries(p) /\ fs[p] # Absent
    BY <1>4 DEF Stays, Entries
  <2>2. CASE Guarded(p)
    BY <2>1, <2>2 DEF Guarded, Passed
  <2>3. CASE p \in Workspace /\ Root \in insp.todo /\ "own" \notin Entries(Root)
    BY <1>2, <2>3 DEF Passed
  <2>4. CASE p \in Artifact /\ ~Guarded(WorkspaceOf[p])
    <3> DEFINE w == WorkspaceOf[p]
    <3>1. w \in Path /\ w \in Workspace /\ fs[w] # Absent
      BY <2>1, <2>4 DEF Path, Layout, Tree
    <3>2. fs'[w] # Absent
      BY <2>4 DEF PathsStep, Tree
    <3>3. Stays(w)
      BY <3>1, <3>2 DEF PathsStep, PathStep, Leaves, Arrives, IsEdited, MovesAway, MovesBack, Stays
    <3>4. ~Guarded(w)'
      BY <2>4, <3>3 DEF Guarded, Stays, Entries
    <3> QED BY <2>4, <3>4 DEF Passed
  <2> QED BY <2>1, <2>2, <2>3, <2>4 DEF Passed
<1>5. CASE Arrives(p) /\ p \in Workspace
  <2>1. CASE "own" \in Entries(Root)
    <3>1. "inherited" \in Listed(fs'[p].acl)
      BY <1>5, <2>1 DEF Arrives
    <3> QED BY <3>1 DEF Passed, Guarded, Entries, Rules
  <2>2. CASE "own" \notin Entries(Root)
    <3>1. ~Guarded(Root)
      BY <1>0, <2>2 DEF Guarded, Rules, Layout
    <3> QED BY <1>2, <1>5, <2>2, <3>1 DEF Passed
  <2> QED BY <2>1, <2>2
<1>6. CASE Arrives(p) /\ p \in Artifact
  <2> DEFINE w == WorkspaceOf[p]
  <2>1. ~Guarded(w) /\ w \in Path
    BY <1>6 DEF Arrives, Path
  <2>2. fs'[w] # Absent
    BY <1>6 DEF PathsStep, Tree
  <2>3. CASE Guarded(w)'
    <3>1. ~Stays(w)
      BY <2>1, <2>3 DEF Guarded, Stays, Entries
    <3>2. Arrives(w)
      BY <2>1, <2>2, <3>1 DEF PathsStep, PathStep, Leaves, Arrives, IsEdited, MovesAway, MovesBack
    <3> QED BY <1>6, <3>2 DEF Arrives
  <2>4. CASE ~Guarded(w)'
    BY <1>6, <2>4 DEF Passed
  <2> QED BY <2>3, <2>4
<1> QED BY <1>3, <1>4, <1>5, <1>6 DEF Path

\* Users and the client do not disturb a verdict without a trace.
LEMMA WatchedByOthers ==
    ASSUME IInv, Environment
    PROVE  Watched'
<1> USE DEF IInv
<1>1. /\ PathsStep
      /\ platform' = platform /\ receipt' = receipt /\ cmd' = cmd /\ insp' = insp
      /\ verdict' = verdict /\ (tampered' = tampered \/ tampered' = TRUE)
  BY EnvironmentStep
<1>2. CASE tampered' = TRUE
  BY <1>1, <1>2 DEF Watched, HealthyMeansGuarded
<1>3. CASE tampered' = tampered
  <2>0. Root \in Path /\ away[Root] = Absent
    BY DEF Path, Layout
  <2>1. ~tampered' /\ fs[Root] # Absent => fs'[Root] # Absent
    BY <2>0, <1>1 DEF PathsStep, PathStep, Stays, Leaves, Arrives, IsEdited, MovesAway, MovesBack
  <2>2. ASSUME insp.pc = "node", ~tampered' PROVE \A p \in Present' \ insp.todo : Passed(p)'
    <3>1. fs[Root] # Absent /\ \A p \in Present \ insp.todo : Passed(p)
      BY <1>3, <2>2 DEF Watched, Passed
    <3>2. Root \notin insp.todo => Guarded(Root)
      BY <2>0, <3>1 DEF Passed, Present, Path
    <3> SUFFICES ASSUME NEW p \in Present', p \notin insp.todo
                 PROVE  Passed(p)'
      OBVIOUS
    <3>3. p \in Path /\ fs'[p] # Absent
      BY DEF Present
    <3>4. fs[p] # Absent => Passed(p)
      BY <3>1, <3>3 DEF Present
    <3> QED BY <1>1, <2>2, <3>1, <3>2, <3>3, <3>4, PassedStays
  <2>3. ASSUME verdict' = "healthy", ~tampered', NEW p \in Path, fs'[p] # Absent PROVE Guarded(p)'
    <3>1. fs[Root] # Absent /\ \A q \in Present : Guarded(q)
      BY <1>1, <1>3, <2>3 DEF Watched, HealthyMeansGuarded, Guarded, Rules
    <3>2. "own" \in Entries(Root)
      BY <2>0, <3>1 DEF Present, Guarded, Rules, Layout
    <3>3. Stays(p) \/ Arrives(p)
      BY <2>3 , <1>1 DEF PathsStep, PathStep, Leaves, IsEdited, MovesAway, MovesBack
    <3>4. CASE Stays(p)
      BY <2>3, <3>1, <3>4 DEF Stays, Present, Guarded, Entries
    <3>5. CASE Arrives(p)
      <4>1. p # Root
        BY <3>1, <3>5 DEF Arrives
      <4>2. CASE p \in Workspace
        BY <2>3, <3>2, <3>5, <4>2 DEF Arrives, Guarded, Entries, Rules
      <4>3. CASE p \in Artifact
        BY <2>3, <3>1, <3>5, <4>3 DEF Arrives, Present, Path
      <4> QED BY <4>1, <4>2, <4>3 DEF Path
    <3> QED BY <3>3, <3>4, <3>5
  <2>4. HealthyMeansGuarded'
    BY <2>3 DEF HealthyMeansGuarded, Present, Guarded, Rules, Entries
  <2>5. insp'.pc = "node" /\ ~tampered' => \A p \in Present' \ insp'.todo :
          \/ Guarded(p)'
          \/ p \in Workspace /\ Root \in insp'.todo /\ "own" \notin Entries(Root)'
          \/ p \in Artifact /\ ~Guarded(WorkspaceOf[p])'
    BY <1>1, <2>2 DEF Passed
  <2>6. (insp'.pc = "node" \/ verdict' = "healthy") /\ ~tampered' => fs'[Root] # Absent
    BY <1>1, <1>3, <2>1 DEF Watched
  <2> QED BY <1>1, <1>3, <2>4, <2>5, <2>6 DEF Watched
<1> QED BY <1>1, <1>2, <1>3

\* While a command runs, nobody relies on the verdict.
LEMMA WatchedByCommand ==
    ASSUME IInv, Enable \/ Disable \/ Apply \/ Kill
    PROVE  Watched'
<1> USE DEF IInv
<1>1. insp' = insp /\ verdict' = verdict /\ (tampered' = tampered \/ tampered' = TRUE)
  <2>1. CASE Change
    BY <2>1, ChangeStep
  <2>2. CASE MakeCache
    BY <2>2, MakeCacheStep
  <2>3. CASE Saving \/ Thinking
    BY <2>3, QuietStep
  <2> QED BY <2>1, <2>2, <2>3 DEF Enable, Disable, Apply, Saving, Thinking
<1>2. CASE tampered' = TRUE
  BY <1>1, <1>2 DEF Watched, HealthyMeansGuarded
<1>3. CASE tampered' = tampered /\ ~tampered
  <2>1. cmd # Idle \/ receipt.phase = "none" \/ BeginDisable
    <3>1. Idle.pc = "idle"
      BY DEF Idle
    <3>2. Prepare \/ MakeCache \/ ListCache \/ Record \/ FinishEnable => cmd.pc # "idle"
      BY DEF Prepare, MakeCache, ListCache, Record, FinishEnable
    <3>3. SaveDisabling \/ Sweep \/ RecordSweep \/ RemoveReceipt => cmd.pc # "idle"
      BY DEF SaveDisabling, Sweep, RecordSweep, RemoveReceipt
    <3>4. Check \/ Change \/ Verify \/ CheckedAll => cmd.pc # "idle"
      BY DEF Check, Change, Verify, CheckedAll
    <3>5. BeginEnable => receipt.phase = "none"
      BY DEF BeginEnable
    <3>6. Kill => cmd # Idle
      BY DEF Kill
    <3> QED BY <3>1, <3>2, <3>3, <3>4, <3>5, <3>6 DEF Enable, Disable, Apply
  <2>2. ~BeginDisable
    BY <1>3 DEF BeginDisable
  <2>3. insp.pc = "idle" /\ verdict # "healthy"
    BY <1>3, <2>1, <2>2 DEF Watched
  <2> QED BY <1>1, <2>3 DEF Watched, HealthyMeansGuarded
<1> QED BY <1>1, <1>2, <1>3 DEF NodeTypes

\* The inspection passes only what is guarded.
LEMMA WatchedByInspect ==
    ASSUME IInv, Inspect
    PROVE  Watched'
<1> USE DEF IInv
<1>1. fs' = fs /\ cmd' = cmd /\ receipt' = receipt
  BY InspectStep
<1>2. Present' = Present /\ \A p \in Path : Guarded(p)' = Guarded(p) /\ Entries(p)' = Entries(p)
  BY <1>1 DEF Present, Guarded, Entries
<1>3. Root \in Path /\ \A a \in Artifact : WorkspaceOf[a] \in Path
  BY DEF Path
<1>4. CASE InspectLoad
  <2>1. insp' = [pc |-> "list", changes |-> receipt.changes, todo |-> {}] /\ verdict' = "none"
        /\ tampered' = (cmd # Idle) /\ receipt.phase = "enabled" /\ Loadable(receipt)
    BY <1>4 DEF InspectLoad
  <2>2. AreRecorded(receipt.changes) /\ \A p \in DOMAIN receipt.changes : receipt.changes[p].rule = "own"
    BY <2>1 DEF ReceiptTypes
  <2>3. Root \in DOMAIN receipt.changes
    <3> SUFFICES ASSUME DOMAIN receipt.changes = {} PROVE FALSE
      BY <2>2 DEF AreRecorded
    <3>1. receipt.changes = [p \in DOMAIN receipt.changes |-> receipt.changes[p]]
      BY <2>2 DEF AreRecorded
    <3>2. receipt.changes = NoChanges
      BY <3>1 DEF NoChanges
    <3> QED BY <2>1, <3>2 DEF Loadable
  <2>4. ~tampered' => cmd' = Idle /\ receipt'.phase = "enabled"
    BY <1>1, <2>1
  <2> QED BY <2>1, <2>2, <2>3, <2>4 DEF Watched, AreRecorded, HealthyMeansGuarded
<1>5. CASE InspectList
  <2> DEFINE f == [p \in Present |-> IF p \in DOMAIN insp.changes THEN insp.changes[p] ELSE InheritedChange(p)]
  <2>1. insp.pc = "list" /\ verdict' = verdict /\ tampered' = tampered
        /\ insp' = IF fs[Root] = Absent \/ ~Supported \/ (Present \cap Artifact) \ DOMAIN insp.changes # {}
                   THEN Resting ELSE [pc |-> "node", todo |-> Present, changes |-> f]
    BY <1>5 DEF InspectList
  <2>2. CASE insp' = Resting
    <3>1. verdict' = "none"
      BY <2>1 DEF Watched
    <3> QED BY <2>2, <3>1 DEF Watched, Resting, NoChanges, HealthyMeansGuarded
  <2>3. CASE insp' = [pc |-> "node", todo |-> Present, changes |-> f] /\ fs[Root] # Absent
    <3>1. ASSUME NEW p \in Present PROVE f[p] \in Recorded
      <4>1. p \in DOMAIN insp.changes => insp.changes[p] \in Recorded
        BY DEF Watched
      <4>2. InheritedChange(p) \in Recorded
        <5>1. p \in Path /\ fs[p] # Absent /\ fs[p] \in Node
          BY DEF Present, NodeTypes
        <5>2. fs[p].inode \in 1..MaxInodes /\ fs[p].acl \in Acl
          BY <5>1 DEF Layout, Node
        <5>3. (IF platform = "darwin" THEN <<>> ELSE Explicit(fs[p].acl)) \in Acl
          BY <5>2, ShortLists, ExplicitList
        <5> QED BY <5>2, <5>3 DEF InheritedChange, Recorded, Rules
      <4> QED BY <4>1, <4>2
    <3>2. Root \in Present /\ Root \in DOMAIN insp.changes /\ insp.changes[Root].rule = "own"
      BY <1>3, <2>1, <2>3 DEF Watched, Present
    <3>3. DOMAIN f = Present /\ f[Root].rule = "own" /\ f \in [Present -> Recorded]
      BY <3>1, <3>2
    <3>4. insp'.pc = "node" /\ insp'.todo = Present /\ insp'.changes = f
      BY <2>3
    <3> HIDE DEF f
    <3>5. \A p \in Present' \ insp'.todo : FALSE
      BY <1>2, <3>4
    <3>6. Present \subseteq Path
      BY DEF Present
    <3> QED BY <1>1, <2>1, <2>3, <3>2, <3>3, <3>4, <3>5, <3>6 DEF Watched, HealthyMeansGuarded
  <2> QED BY <2>1, <2>2, <2>3
<1>6. CASE InspectNode
  <2>1. PICK p \in insp.todo :
          IF State(p, IF platform = "windows" /\ insp.changes[p].rule = "inherited"
                      THEN InheritedChange(p) ELSE insp.changes[p]) # "installed"
          THEN insp' = Resting /\ UNCHANGED verdict
          ELSE IF insp.todo = {p}
               THEN insp' = Resting /\ verdict' = "healthy"
               ELSE insp' = [insp EXCEPT !.todo = @ \ {p}] /\ UNCHANGED verdict
    BY <1>6 DEF InspectNode
  <2>2. insp.pc = "node" /\ tampered' = tampered /\ p \in Path /\ verdict = "none"
    BY <1>6 DEF InspectNode, Watched
  <2> DEFINE c == IF platform = "windows" /\ insp.changes[p].rule = "inherited"
                  THEN InheritedChange(p) ELSE insp.changes[p]
  <2>3. CASE State(p, c) # "installed"
    <3>1. insp' = Resting /\ verdict' = verdict
      BY <2>1, <2>3
    <3> QED BY <1>1, <2>2, <3>1 DEF Watched, Resting, NoChanges, HealthyMeansGuarded
  <2>4. CASE State(p, c) = "installed"
    <3>1. fs[p] # Absent /\ fs[p] \in Node
      BY <2>2, <2>4 DEF State, NodeTypes
    <3>2. c \in Recorded /\ (p = Root => c.rule = "own")
      <4>1. insp.changes[p] \in Recorded /\ (p = Root => insp.changes[p].rule = "own")
        BY <2>2 DEF Watched
      <4>2. InheritedChange(p) \in Recorded
        <5>1. fs[p].inode \in 1..MaxInodes /\ fs[p].acl \in Acl
          BY <2>2, <3>1 DEF Layout, Node
        <5>2. (IF platform = "darwin" THEN <<>> ELSE Explicit(fs[p].acl)) \in Acl
          BY <5>1, ShortLists, ExplicitList
        <5> QED BY <5>1, <5>2 DEF InheritedChange, Recorded, Rules
      <4> QED BY <4>1, <4>2
    <3> HIDE DEF c
    <3>3. Guarded(p) /\ (p = Root => "own" \in Entries(Root))
      BY <2>2, <2>4, <3>2, InstalledIsGuarded
    <3>4. ~tampered => \A q \in Present \ insp.todo : Passed(q)
      BY <2>2 DEF Watched, Passed
    <3>5. CASE insp.todo = {p}
      <4>1. insp' = Resting /\ verdict' = "healthy"
        BY <2>1, <2>4, <3>5 DEF c
      <4>2. ASSUME ~tampered, NEW q \in Present PROVE Guarded(q)
        <5>1. \A r \in Present : Guarded(r) \/ (r \in Artifact /\ ~Guarded(WorkspaceOf[r]))
          BY <3>3, <3>4, <3>5, <4>2 DEF Passed
        <5>2. CASE q \in Artifact /\ ~Guarded(WorkspaceOf[q])
          <6>1. WorkspaceOf[q] \in Present /\ WorkspaceOf[q] \notin Artifact
            BY <5>2 DEF Present, Layout, Tree, Path
          <6> QED BY <5>1, <5>2, <6>1
        <5> QED BY <5>1, <5>2
      <4>3. HealthyMeansGuarded'
        BY <1>2, <2>2, <4>2 DEF HealthyMeansGuarded, Guarded, Rules, Present
      <4>4. ~tampered => cmd = Idle /\ receipt.phase = "enabled" /\ fs[Root] # Absent
        BY <2>2 DEF Watched
      <4> QED BY <1>1, <2>2, <4>1, <4>3, <4>4 DEF Watched, Resting, NoChanges
    <3>6. CASE insp.todo # {p}
      <4>1. insp' = [insp EXCEPT !.todo = insp.todo \ {p}] /\ verdict' = verdict
        BY <2>1, <2>4, <3>6 DEF c
      <4>2. insp' = [pc |-> insp.pc, changes |-> insp.changes, todo |-> insp.todo \ {p}]
        BY <4>1 DEF Watched
      <4>3. ASSUME ~tampered, NEW q \in Present \ (insp.todo \ {p})
            PROVE  \/ Guarded(q)
                   \/ q \in Workspace /\ Root \in insp.todo \ {p} /\ "own" \notin Entries(Root)
                   \/ q \in Artifact /\ ~Guarded(WorkspaceOf[q])
        BY <3>3, <3>4, <4>3 DEF Passed
      <4>4. insp'.pc = "node" /\ insp'.todo = insp.todo \ {p} /\ insp'.changes = insp.changes
        BY <2>2, <4>2
      <4>5. ~tampered' => \A q \in Present' \ insp'.todo :
                   \/ Guarded(q)'
                   \/ q \in Workspace /\ Root \in insp'.todo /\ "own" \notin Entries(Root)'
                   \/ q \in Artifact /\ ~Guarded(WorkspaceOf[q])'
        BY <1>2, <1>3, <2>2, <4>3, <4>4 DEF Present
      <4> QED BY <1>1, <2>2, <4>1, <4>2, <4>4, <4>5 DEF Watched, HealthyMeansGuarded
    <3> QED BY <3>5, <3>6
  <2> QED BY <2>3, <2>4
<1> QED BY <1>4, <1>5, <1>6 DEF Inspect

\* Every step keeps the verdict true.
LEMMA WatchedStep ==
    ASSUME IInv, [Next]_vars
    PROVE  Watched'
<1>1. CASE UNCHANGED vars
  BY <1>1 DEF IInv, Watched, vars, outside, HealthyMeansGuarded, Present, Guarded, Entries, Passed
<1> QED BY <1>1, WatchedByOthers, WatchedByCommand, WatchedByInspect DEF Next

-----------------------------------------------------------------------------
(* The theorems. *)

\* Only a foreign change of the path in hand sets the flag, only the end of the
\* change resets it.
LEMMA RaceStep ==
    ASSUME RaceTypes, [Next]_vars
    PROVE  RaceTypes'
<1>1. CASE Environment
  <2>1. ASSUME NEW p \in Path, Edit(p) PROVE RaceTypes'
    BY <2>1 DEF Edit, Races, RaceTypes
  <2>2. ASSUME NEW w \in Workspace, Import(w) PROVE RaceTypes'
    BY <2>2 DEF Import, Races, RaceTypes
  <2>3. ASSUME NEW p \in Path, MoveBack(p) PROVE RaceTypes'
    BY <2>3 DEF MoveBack, Races, RaceTypes
  <2>4. ASSUME NEW p \in Path, Move(p) \/ Remove(p) PROVE raced' = raced
    BY <2>4 DEF Move, Remove, outside
  <2>5. MakeRoot \/ Discard => raced' = raced
    BY DEF MakeRoot, Discard, outside
  <2>6. \A a \in Artifact : MakeArtifact(a) => raced' = raced
    BY DEF MakeArtifact, outside
  <2>7. \A w \in Workspace : MakeWorkspace(w) => raced' = raced
    BY DEF MakeWorkspace, outside
  <2> QED BY <1>1, <2>1, <2>2, <2>3, <2>4, <2>5, <2>6, <2>7 DEF Environment, RaceTypes
<1>2. CASE Change \/ Kill
  BY <1>2 DEF Change, Kill, RaceTypes
<1>3. CASE MakeCache \/ Saving
  BY <1>3 DEF MakeCache, Saving, Prepare, Record, FinishEnable, SaveDisabling, RecordSweep,
          RemoveReceipt, SaveThen, outside, RaceTypes
<1>4. CASE Thinking /\ ~Kill
  BY <1>4 DEF Thinking, BeginEnable, BeginDisable, ListCache, Sweep, Check, Verify, CheckedAll,
          outside, RaceTypes
<1>5. CASE Inspect \/ UNCHANGED vars
  BY <1>5 DEF Inspect, InspectLoad, InspectList, InspectNode, vars, outside, RaceTypes
<1> QED BY <1>1, <1>2, <1>3, <1>4, <1>5, NextCases

\* The first state satisfies the invariant.
LEMMA InitIsGood ==
    ASSUME Init
    PROVE  IInv
<1>1. Listed(Absent.acl) = {} /\ Absent \in Node /\ Absent.inode = 0
  BY ShortLists DEF Absent, Node
<1>2. fs = [p \in Path |-> Absent] /\ away = [p \in Path |-> Absent] /\ receipt = NoReceipt
      /\ cmd = Idle /\ insp = Resting /\ verdict = "none" /\ tampered = FALSE
      /\ budget = [inodes |-> 0, enables |-> 0, faults |-> 0, kills |-> 0] /\ platform \in Platform
  BY DEF Init
<1>3. NodeTypes
  <2>1. fs \in [Path -> Node] /\ away \in [Path -> Node]
    BY <1>1, <1>2
  <2>2. 0 \in 0..MaxInodes /\ 0 \in 0..MaxEnables /\ 0 \in 0..MaxFaults /\ 0 \in 0..MaxKills
    OBVIOUS
  <2>3. budget \in [inodes : 0..MaxInodes, enables : 0..MaxEnables, faults : 0..MaxFaults, kills : 0..MaxKills]
    BY <1>2, <2>2
  <2> QED BY <1>2, <2>1, <2>3 DEF NodeTypes
<1>4. AreRecorded(NoChanges) /\ DOMAIN NoChanges = {}
  BY NoChangesAreRecorded
<1>5. CommandTypes /\ Phases /\ Swept
  BY <1>2, <1>4 DEF Idle, CommandTypes, Phases, Applying, Swept
<1>6. ReceiptTypes
  BY <1>2, <1>4 DEF ReceiptTypes, NoReceipt
<1>7. \A p \in Path : fs[p] = Absent /\ away[p] = Absent /\ Entries(p) = {} /\ ~Ruled(p)
  BY <1>1, <1>2 DEF Entries, Ruled
<1>8. Layout
  BY <1>1, <1>2, <1>7 DEF Layout, Tree, Path
<1>9. Named
  BY <1>1, <1>2, <1>7 DEF Named, MovedStaysRecorded, Applying, Idle, Ruled, Rules
<1>10. Watched
  BY <1>2, <1>4 DEF Watched, Resting, NoChanges, HealthyMeansGuarded
<1>11. RaceTypes
  BY DEF Init, RaceTypes
<1> QED BY <1>3, <1>5, <1>6, <1>8, <1>9, <1>10, <1>11 DEF IInv

\* The inductive invariant: receipt, rules, the state of a command and that of
\* an inspection agree, at every step of every process.
THEOREM GuardInvariant == Spec => []IInv
<1>1. Init => IInv
  BY InitIsGood
<1>2. IInv /\ [Next]_vars => IInv'
  <2> SUFFICES ASSUME IInv, [Next]_vars PROVE IInv'
    OBVIOUS
  <2>1. Control'
    BY ControlStep
  <2>2. RaceTypes'
    BY RaceStep DEF IInv
  <2> QED BY <2>1, <2>2, CacheStep, NamedStep, SweptStep, WatchedStep DEF IInv, Control
<1> QED BY <1>1, <1>2, PTL DEF Spec

\* Every recorded change has an inode, a rule and the entries found there, and a
\* command works on recorded paths only.
THEOREM TypeCorrect == Spec => []TypeOK
<1>1. IInv => TypeOK
  <2> SUFFICES ASSUME IInv PROVE TypeOK
    OBVIOUS
  <2>1. \A f : AreRecorded(f) => AreChanges(f)
    BY DEF AreRecorded, AreChanges, Recorded, Rules
  <2>2. /\ platform \in Platform /\ {fs, away} \subseteq [Path -> [inode : 0..MaxInodes, acl : Acl]]
        /\ verdict \in {"none", "healthy"} /\ tampered \in BOOLEAN /\ raced \in BOOLEAN
        /\ budget \in [inodes : 0..MaxInodes, enables : 0..MaxEnables,
                       faults : 0..MaxFaults, kills : 0..MaxKills]
    BY DEF IInv, NodeTypes, Node, RaceTypes
  <2>3. receipt.phase \in Phase \cup {"none"} /\ AreChanges(receipt.changes)
    BY <2>1 DEF IInv, ReceiptTypes
  <2>4. insp.pc \in {"idle", "list", "node"} /\ AreChanges(insp.changes)
        /\ insp.todo \subseteq DOMAIN insp.changes
    BY DEF IInv, Watched, AreChanges, Recorded, Rules
  <2>5. /\ cmd.pc \in {"idle", "prepare", "mkdir", "list", "record", "check", "chmod", "verify",
                       "finish", "disabling", "sweep", "remove"}
        /\ cmd.op \in {"none", "enable", "disable"} /\ AreChanges(cmd.changes)
        /\ cmd.todo \subseteq DOMAIN cmd.changes /\ cmd.at \in cmd.todo \cup {None}
        /\ cmd.next \in {"idle", "finish", "sweep", "remove"} /\ cmd.creates \in BOOLEAN
    BY <2>1 DEF IInv, CommandTypes
  <2> QED BY <2>2, <2>3, <2>4, <2>5 DEF TypeOK
<1> QED BY <1>1, GuardInvariant, PTL

\* A command that is killed or fails at any step leaves no rule that the receipt
\* does not account for: the guard's own by path, the inherited ones by there
\* being a receipt.
THEOREM RulesAccounted == Spec => []Accounted
<1>1. IInv => Accounted
  BY DEF IInv, Named, Accounted, Present, Ruled, Rules
<1> QED BY <1>1, GuardInvariant, PTL

\* What was moved out of the cache with its rule stays recorded under its
\* identity, until it is back and undone (windows).
THEOREM MovedRecorded == Spec => []MovedStaysRecorded
<1>1. IInv => MovedStaysRecorded
  BY DEF IInv, Named
<1> QED BY <1>1, GuardInvariant, PTL

\* A healthy verdict lasts through everything that the client does on its own,
\* although the inspection takes no lock.
THEOREM HealthyLasts == Spec => []HealthyMeansGuarded
<1>1. IInv => HealthyMeansGuarded
  BY DEF IInv, Watched
<1> QED BY <1>1, GuardInvariant, PTL
-----------------------------------------------------------------------------
(* The entries of others. *)

OtherAt(acl) == {n \in 1..Len(acl) : acl[n] = "other"}

\* An entry in front that is nobody else's moves the others by one place.
LEMMA ShiftedOthers ==
    ASSUME NEW s \in Acl, NEW t \in Acl, Len(t) = Len(s) + 1, t[1] # "other",
           \A n \in 1..Len(s) : t[n + 1] = s[n]
    PROVE  Others(t) = Others(s)
<1>1. Len(s) \in Nat
  BY DEF Acl
<1>2. IsFiniteSet(OtherAt(s))
  <2>1. IsFiniteSet(1..Len(s)) /\ OtherAt(s) \in SUBSET (1..Len(s))
    BY <1>1, FS_Interval DEF OtherAt
  <2> QED BY <2>1, FS_Subset
<1> DEFINE f == [n \in OtherAt(s) |-> n + 1]
<1>3. \A n \in OtherAt(s) : n \in Nat /\ n + 1 \in OtherAt(t)
  BY <1>1 DEF OtherAt
<1>4. \A m \in OtherAt(t) : m - 1 \in OtherAt(s) /\ m = (m - 1) + 1
  <2> SUFFICES ASSUME NEW m \in OtherAt(t) PROVE m - 1 \in OtherAt(s) /\ m = (m - 1) + 1
    OBVIOUS
  <2>1. m \in 1..(Len(s) + 1) /\ t[m] = "other" /\ m # 1
    BY DEF OtherAt
  <2>2. m - 1 \in 1..Len(s) /\ m = (m - 1) + 1
    BY <1>1, <2>1
  <2>3. t[(m - 1) + 1] = s[m - 1]
    BY <2>2
  <2> QED BY <2>1, <2>2, <2>3 DEF OtherAt
<1>5. f \in Bijection(OtherAt(s), OtherAt(t))
  <2>1. f \in [OtherAt(s) -> OtherAt(t)]
    BY <1>3
  <2>2. \A a, b \in OtherAt(s) : f[a] = f[b] => a = b
    BY <1>3
  <2>3. \A m \in OtherAt(t) : \E n \in OtherAt(s) : f[n] = m
    BY <1>4
  <2> QED BY <2>1, <2>2, <2>3 DEF Bijection, Injection, IsInjective, Surjection
<1>6. ExistsBijection(OtherAt(s), OtherAt(t))
  BY <1>5 DEF ExistsBijection
<1> QED BY <1>2, <1>6, FS_Bijection DEF Others, OtherAt

\* A rule that is put in front, at the end, or taken from the front leaves the
\* others as many as they were.
LEMMA RuleAmongOthers ==
    ASSUME NEW acl \in Acl, NEW e \in Rules
    PROVE  /\ Others(<<e>> \o acl) = Others(acl)
           /\ Others(Append(acl, e)) = Others(acl)
           /\ acl # <<>> /\ acl[1] # "other" => Others(Tail(acl)) = Others(acl)
<1>1. Acl = Seq(Ace) /\ acl \in Seq(Ace) /\ Len(acl) \in Nat /\ e \in Ace /\ e # "other"
  BY DEF Acl, Ace, Rules
<1>2. Others(<<e>> \o acl) = Others(acl)
  <2> DEFINE t == <<e>> \o acl
  <2>1. <<e>> \in Seq(Ace) /\ Len(<<e>>) = 1 /\ <<e>>[1] = e
    BY <1>1
  <2>2. /\ t \in Acl /\ Len(t) = 1 + Len(acl)
        /\ \A i \in 1..1 + Len(acl) : t[i] = IF i <= 1 THEN <<e>>[i] ELSE acl[i - 1]
    BY <1>1, <2>1, ConcatProperties
  <2> HIDE DEF t
  <2>3. ASSUME NEW n \in 1..Len(acl) PROVE t[n + 1] = acl[n]
    <3>1. n + 1 \in 1..1 + Len(acl) /\ ~(n + 1 <= 1) /\ (n + 1) - 1 = n
      BY <1>1
    <3> QED BY ONLY <2>2, <3>1
  <2>4. t[1] = e
    <3>1. 1 \in 1..1 + Len(acl)
      BY <1>1
    <3> QED BY ONLY <2>1, <2>2, <3>1
  <2>5. Len(t) = Len(acl) + 1
    BY <1>1, <2>2
  <2> QED BY <1>1, <2>2, <2>3, <2>4, <2>5, ShiftedOthers DEF t
<1>3. Others(Append(acl, e)) = Others(acl)
  <2>1. Len(Append(acl, e)) = Len(acl) + 1 /\ Append(acl, e)[Len(acl) + 1] = e
        /\ \A n \in 1..Len(acl) : Append(acl, e)[n] = acl[n]
    BY <1>1
  <2>2. OtherAt(Append(acl, e)) = OtherAt(acl)
    BY <1>1, <2>1 DEF OtherAt
  <2> QED BY <2>2 DEF Others, OtherAt
<1>4. ASSUME acl # <<>>, acl[1] # "other" PROVE Others(Tail(acl)) = Others(acl)
  <2>1. Tail(acl) \in Acl /\ Len(acl) = Len(Tail(acl)) + 1
    BY <1>1, <1>4
  <2>2. \A n \in 1..Len(Tail(acl)) : acl[n + 1] = Tail(acl)[n]
    BY <1>1, <1>4
  <2> QED BY <1>4, <2>1, <2>2, ShiftedOthers
<1> QED BY <1>2, <1>3, <1>4

\* With the rule or without it: the same entries of others.
LEMMA ExpectedOthers ==
    ASSUME NEW c \in Recorded
    PROVE  Others(Expected(c)) = Others(c.before)
BY RuleAmongOthers DEF Expected, Recorded, Rules
\* Where the next rule goes: on windows the recorded list, with its rule or
\* without, is in place; on darwin an entry that is taken away is nobody else's.
PlainInherited(f) ==
    platform = "darwin" =>
        \A p \in DOMAIN f : f[p].rule = "inherited" => f[p].before = <<>>
InPlace(p, c) ==
    IF platform = "windows" THEN fs[p] # Absent /\ fs[p].acl \in {Expected(c), c.before}
    ELSE cmd.op = "disable" => fs[p].acl = <<>> \/ fs[p].acl[1] # "other"
Careful ==
    /\ PlainInherited(cmd.changes) /\ PlainInherited(receipt.changes)
    /\ cmd.pc = "chmod" /\ ~raced => InPlace(cmd.at, cmd.changes[cmd.at])

\* The system does not change during a run, and changes come from the receipt, the
\* list of the cache or the sweep.
LEMMA PlainStep ==
    ASSUME IInv, Careful, [Next]_vars
    PROVE  platform' = platform /\ PlainInherited(cmd'.changes) /\ PlainInherited(receipt'.changes)
<1> USE DEF IInv
<1>0. PlainInherited(NoChanges) /\ Idle.changes = NoChanges /\ NoReceipt.changes = NoChanges
  BY NoChangesAreRecorded DEF PlainInherited, Idle, NoReceipt
<1>1. PlainInherited(cmd.changes) /\ PlainInherited(receipt.changes)
  BY DEF Careful
<1>2. CASE Environment
  BY <1>1, <1>2, EnvironmentStep
<1>3. CASE Inspect \/ UNCHANGED vars
  BY <1>1, <1>3, InspectStep
<1>4. CASE Change
  <2>1. cmd' = Idle \/ cmd' = [cmd EXCEPT !.pc = "verify"]
    BY <1>4, ChangeStep
  <2>2. cmd'.changes = NoChanges \/ cmd'.changes = cmd.changes
    BY <1>0, <2>1 DEF CommandTypes
  <2> QED BY <1>0, <1>1, <1>4, <2>2, ChangeStep
<1>5. CASE MakeCache
  <2>1. cmd' = Idle \/ cmd' = [cmd EXCEPT !.pc = "list"]
    BY <1>5, MakeCacheStep
  <2>2. cmd'.changes = NoChanges \/ cmd'.changes = cmd.changes
    BY <1>0, <2>1 DEF CommandTypes
  <2> QED BY <1>0, <1>1, <1>5, <2>2, MakeCacheStep
<1>6. CASE Saving
  <2>1. platform' = platform
    BY <1>6, QuietStep
  <2>2. ASSUME NEW r, NEW next, SaveThen(r, next), r.changes \in {NoChanges, cmd.changes},
               next.changes \in {NoChanges, cmd.changes}
        PROVE  PlainInherited(cmd'.changes) /\ PlainInherited(receipt'.changes)
    <3>1. \/ receipt' = r /\ cmd' = next
          \/ receipt' \in {receipt, r} /\ cmd' = Idle
      BY <2>2, SaveStep
    <3> QED BY <1>0, <1>1, <2>2, <3>1
  <2>3. /\ [cmd EXCEPT !.pc = "mkdir"].changes = cmd.changes
        /\ \A todo, next : [cmd EXCEPT !.pc = "check", !.todo = todo, !.next = next].changes = cmd.changes
    BY DEF CommandTypes
  <2>4. CASE Prepare
    <3>1. SaveThen([phase |-> "preparing", changes |-> NoChanges], [cmd EXCEPT !.pc = "mkdir"])
      BY <2>4 DEF Prepare
    <3> QED BY <2>1, <2>2, <2>3, <3>1
  <2>5. CASE Record
    <3>1. SaveThen([phase |-> "enabling", changes |-> cmd.changes],
                   [cmd EXCEPT !.pc = "check", !.todo = DOMAIN cmd.changes, !.next = "finish"])
      BY <2>5 DEF Record
    <3>2. PICK r, next : /\ r = [phase |-> r.phase, changes |-> cmd.changes]
                         /\ next.changes = cmd.changes /\ SaveThen(r, next)
      BY <2>3, <3>1
    <3> QED BY <2>1, <2>2, <3>2
  <2>7. CASE SaveDisabling
    <3>1. SaveThen([phase |-> "disabling", changes |-> cmd.changes],
                   [cmd EXCEPT !.pc = "check", !.todo = {Root}, !.next = "sweep"])
      BY <2>7 DEF SaveDisabling
    <3>2. PICK r, next : /\ r = [phase |-> r.phase, changes |-> cmd.changes]
                         /\ next.changes = cmd.changes /\ SaveThen(r, next)
      BY <2>3, <3>1
    <3> QED BY <2>1, <2>2, <3>2
  <2>8. CASE RecordSweep
    <3>1. SaveThen([phase |-> "disabling", changes |-> cmd.changes],
                   [cmd EXCEPT !.pc = "check", !.todo = DOMAIN cmd.changes \ {Root}, !.next = "remove"])
      BY <2>8 DEF RecordSweep
    <3>2. PICK r, next : /\ r = [phase |-> r.phase, changes |-> cmd.changes]
                         /\ next.changes = cmd.changes /\ SaveThen(r, next)
      BY <2>3, <3>1
    <3> QED BY <2>1, <2>2, <3>2
  <2>6. CASE FinishEnable \/ RemoveReceipt
    <3>1. \/ SaveThen([phase |-> "enabled", changes |-> cmd.changes], Idle)
          \/ SaveThen(NoReceipt, Idle)
      BY <2>6 DEF FinishEnable, RemoveReceipt
    <3> QED BY <1>0, <2>1, <2>2, <3>1
  <2> QED BY <1>6, <2>4, <2>5, <2>6, <2>7, <2>8 DEF Saving
<1>7. CASE Thinking
  <2>1. platform' = platform
    BY <1>7, QuietStep
  <2>2. receipt' = receipt
    <3>1. BeginEnable \/ BeginDisable \/ CheckedAll \/ Kill => receipt' = receipt
      BY DEF BeginEnable, BeginDisable, CheckedAll, Kill
    <3>2. ListCache \/ Sweep \/ Verify => receipt' = receipt
      BY DEF ListCache, Sweep, Verify
    <3>3. Check => receipt' = receipt
      BY DEF Check
    <3> QED BY <1>7, <3>1, <3>2, <3>3 DEF Thinking
  <2>3. PlainInherited(cmd'.changes)
    <3>1. CASE cmd' = Idle
      BY <1>0, <3>1
    <3>2. CASE ListCache /\ cmd' # Idle
      <4>1. \A p \in DOMAIN cmd'.changes : cmd'.changes[p].rule = "own"
        BY <3>2, ListRecords
      <4> QED BY <4>1 DEF PlainInherited
    <3>3. CASE Sweep /\ cmd' # Idle
      <4> DEFINE known == {p \in DOMAIN cmd.changes :
                              p = Root \/ fs[p] # Absent \/ platform = "windows"}
                 new == {w \in Workspace \ known : HasInherited(w)}
                 f == [p \in known \cup new |->
                          IF p \in known THEN cmd.changes[p] ELSE InheritedChange(p)]
      <4>1. cmd' = [cmd EXCEPT !.pc = "record", !.changes = f]
        BY <3>3 DEF Sweep
      <4>2. cmd'.changes = f
        BY <4>1 DEF CommandTypes
      <4>3. ASSUME platform = "darwin", NEW p \in DOMAIN f, f[p].rule = "inherited"
            PROVE  f[p].before = <<>>
        <5>1. CASE p \in known
          BY <1>1, <4>3, <5>1 DEF PlainInherited
        <5>2. CASE p \notin known
          BY <4>3, <5>2 DEF InheritedChange
        <5> QED BY <5>1, <5>2
      <4> QED BY <4>2, <4>3 DEF PlainInherited
    <3>4. CASE (BeginEnable \/ BeginDisable \/ Check \/ Verify \/ CheckedAll) /\ cmd' # Idle
      <4>1. cmd'.changes \in {cmd.changes, receipt.changes, NoChanges}
        <5>1. BeginEnable => cmd'.changes = NoChanges
          BY DEF BeginEnable, Idle
        <5>2. BeginDisable => cmd'.changes = receipt.changes
          BY DEF BeginDisable, Idle
        <5>3. CheckedAll => cmd'.changes = cmd.changes
          BY DEF CheckedAll, Goto, CommandTypes
        <5>4. ASSUME Check \/ Verify PROVE cmd'.changes = cmd.changes
          <6>1. \E p \in cmd.todo : Ticks(p) \/ Picks(p)
            BY <3>4, <5>4, CheckStep
          <6> QED BY <6>1 DEF Ticks, Picks, Done, CommandTypes
        <5> QED BY <3>4, <5>1, <5>2, <5>3, <5>4
      <4> QED BY <1>0, <1>1, <4>1
    <3>5. CASE Kill
      BY <1>0, <3>5 DEF Kill
    <3> QED BY <1>7, <3>1, <3>2, <3>3, <3>4, <3>5 DEF Thinking
  <2> QED BY <1>1, <2>1, <2>2, <2>3
<1> QED BY <1>2, <1>3, <1>4, <1>5, <1>6, <1>7, NextCases

\* While a command is about to change a list and nobody races with it, others can
\* only make what is absent, or take away what darwin names by its path.
LEMMA NobodyRaces ==
    ASSUME IInv, Environment, cmd.pc = "chmod", ~raced'
    PROVE  /\ ~raced
           /\ \/ fs'[cmd.at] = fs[cmd.at]
              \/ /\ fs'[cmd.at].acl \in {<<>>, <<"inherited">>}
                 /\ platform = "windows" => fs[cmd.at] = Absent
<1> USE DEF IInv
<1> DEFINE Kept == \/ fs'[cmd.at] = fs[cmd.at]
                   \/ /\ fs'[cmd.at].acl \in {<<>>, <<"inherited">>}
                      /\ platform = "windows" => fs[cmd.at] = Absent
<1>1. cmd.at \in Path /\ cmd.at # None /\ fs \in [Path -> Node] /\ away \in [Path -> Node]
  BY DEF CommandTypes, AreRecorded, NodeTypes
<1>2. ASSUME NEW q \in Path, NEW acl \in {<<>>, <<"inherited">>}, Make(q, acl)
      PROVE  \/ fs'[cmd.at] = fs[cmd.at]
             \/ fs'[cmd.at].acl = acl /\ fs[cmd.at] = Absent
  BY <1>1, <1>2 DEF Make
<1>3. CASE MakeRoot
  BY <1>2, <1>3 DEF MakeRoot, outside, Path
<1>4. CASE \E a \in Artifact : MakeArtifact(a)
  BY <1>2, <1>4 DEF MakeArtifact, outside, Path
<1>5. CASE \E w \in Workspace : MakeWorkspace(w)
  <2>1. PICK w \in Workspace : MakeWorkspace(w)
    BY <1>5
  <2>2. raced' = raced /\ \E acl \in {<<>>, <<"inherited">>} : Make(w, acl)
    BY <2>1 DEF MakeWorkspace, outside
  <2> QED BY <1>2, <2>2 DEF Path
<1>6. ASSUME NEW p \in Path, ~Pinned(p), Erase(p)
      PROVE  Kept
  <2>1. fs'[cmd.at] = IF cmd.at \in Within(p) THEN Absent ELSE fs[cmd.at]
    BY <1>1, <1>6 DEF Erase
  <2> QED BY <1>1, <1>6, <2>1 DEF Pinned, Absent
<1>7. CASE Discard \/ \E p \in Path : Remove(p) \/ Move(p)
  <2>1. Root \in Path
    BY DEF Path
  <2>2. raced' = raced /\ \E p \in Path : ~Pinned(p) /\ Erase(p)
    BY <1>7, <2>1 DEF Discard, Remove, Move, outside
  <2> QED BY <1>6, <2>2
<1>8. ASSUME NEW paths, Races(paths)
      PROVE  ~raced /\ cmd.at \notin paths
  BY <1>8 DEF Races
<1>9. CASE \E w \in Workspace : Import(w)
  <2>1. PICK w \in Workspace : Import(w)
    BY <1>9
  <2>2. ~raced /\ cmd.at # w
    BY <1>8, <2>1 DEF Import
  <2>3. fs'[cmd.at] = fs[cmd.at]
    BY <1>1, <2>1, <2>2 DEF Import
  <2> QED BY <2>2, <2>3
<1>10. CASE \E p \in Path : Edit(p)
  <2>1. PICK p \in Path : Edit(p)
    BY <1>10
  <2>2. ~raced /\ cmd.at # p
    BY <1>8, <2>1 DEF Edit
  <2>3. fs'[cmd.at] = fs[cmd.at]
    BY <1>1, <2>1, <2>2 DEF Edit
  <2> QED BY <2>2, <2>3
<1>11. CASE \E p \in Path : MoveBack(p)
  <2>1. PICK p \in Path : MoveBack(p)
    BY <1>11
  <2>2. ~raced /\ cmd.at \notin Within(p)
    BY <1>8, <2>1 DEF MoveBack
  <2>3. fs'[cmd.at] = fs[cmd.at]
    BY <1>1, <2>1, <2>2 DEF MoveBack
  <2> QED BY <2>2, <2>3
<1> QED BY <1>3, <1>4, <1>5, <1>7, <1>9, <1>10, <1>11 DEF Environment

\* What the check before a change establishes.
LEMMA CheckedIsInPlace ==
    ASSUME IInv, Careful, NEW p \in cmd.todo, cmd.pc = "check",
           State(p, cmd.changes[p]) \in {"installed", "plain"}, State(p, cmd.changes[p]) # Wanted
    PROVE  InPlace(p, cmd.changes[p])
<1> USE DEF IInv
<1> DEFINE c == cmd.changes[p]
<1>1. c \in Recorded /\ p \in DOMAIN cmd.changes /\ c.before \in Acl /\ c.rule \in Rules
  BY DEF CommandTypes, AreRecorded, Recorded
<1>2. fs[p] # Absent /\ fs[p].acl \in {Expected(c), c.before}
  BY DEF State
<1>3. ASSUME platform # "windows", cmd.op = "disable"
      PROVE  fs[p].acl[1] # "other"
  <2>1. fs[p].acl = Expected(c)
    BY <1>3 DEF State, Wanted
  <2>2. CASE c.rule = "own"
    <3>1. fs[p].acl = <<"own">> \o c.before /\ c.before \in Seq(Ace)
      BY <1>1, <2>1, <2>2 DEF Expected, Acl, Ace
    <3>2. <<"own">> \in Seq(Ace) /\ Len(<<"own">>) = 1 /\ <<"own">>[1] = "own" /\ Len(c.before) \in Nat
      BY <3>1 DEF Ace
    <3>3. \A i \in 1..1 + Len(c.before) :
             (<<"own">> \o c.before)[i] = IF i <= 1 THEN <<"own">>[i] ELSE c.before[i - 1]
      BY <3>1, <3>2, ConcatProperties
    <3>4. 1 \in 1..1 + Len(c.before)
      BY <3>2
    <3>5. (<<"own">> \o c.before)[1] = "own"
      BY ONLY <3>2, <3>3, <3>4
    <3> QED BY <3>1, <3>5
  <2>3. CASE c.rule = "inherited"
    <3>1. platform = "darwin" /\ c.before = <<>>
      BY <1>1, <1>3, <2>3 DEF Careful, PlainInherited, NodeTypes
    <3>2. fs[p].acl = Append(<<>>, "inherited")
      BY <2>1, <2>3, <3>1 DEF Expected
    <3> QED BY <3>2
  <2> QED BY <1>1, <2>2, <2>3 DEF Rules
<1> QED BY <1>2, <1>3 DEF InPlace

\* A change that nobody races with finds the list as the check left it.
LEMMA CarefulStep ==
    ASSUME IInv, Careful, [Next]_vars
    PROVE  Careful'
<1> USE DEF IInv
<1>1. platform' = platform /\ PlainInherited(cmd'.changes) /\ PlainInherited(receipt'.changes)
  BY PlainStep
<1>2. ASSUME cmd'.pc = "chmod", ~raced' PROVE InPlace(cmd.at, cmd.changes[cmd.at])'
  <2>1. CASE cmd' = cmd
    <3> DEFINE p == cmd.at
               c == cmd.changes[cmd.at]
    <3>0. cmd.pc = "chmod" /\ ~raced
      <4>1. CASE Environment
        BY <1>2, <2>1, <4>1, NobodyRaces
      <4>2. CASE ~Environment
        <5>1. ~Change /\ ~MakeCache /\ ~Kill /\ ~Saving
          BY <1>2, <2>1, ChangeStep DEF Idle, CommandTypes, MakeCache, Kill, Saving, Prepare, Record,
             FinishEnable, SaveDisabling, RecordSweep, RemoveReceipt, SaveThen
        <5>2. raced' = raced
          <6>1. Thinking /\ ~Kill => raced' = raced
            BY DEF Thinking, BeginEnable, BeginDisable, ListCache, Sweep, Check, Verify, CheckedAll, outside
          <6>2. Inspect \/ UNCHANGED vars => raced' = raced
            BY DEF Inspect, InspectLoad, InspectList, InspectNode, vars, outside
          <6> QED BY <4>2, <5>1, <6>1, <6>2, NextCases
        <5> QED BY <1>2, <2>1, <5>2
      <4> QED BY <4>1, <4>2
    <3>1. InPlace(p, c) /\ cmd.pc = "chmod"
      BY <3>0 DEF Careful
    <3>2. \/ fs'[p] = fs[p]
          \/ /\ fs'[p].acl \in {<<>>, <<"inherited">>}
             /\ platform = "windows" => fs[p] = Absent
      <4>1. CASE Environment
        BY <1>2, <3>1, <4>1, NobodyRaces
      <4>2. CASE ~Environment
        <5>1. fs' = fs
          <6>1. ~Change /\ ~MakeCache
            BY <2>1, <3>1, ChangeStep DEF Idle, CommandTypes, MakeCache
          <6> QED BY <4>2, <6>1, NextCases, QuietStep, InspectStep DEF vars
        <5> QED BY <5>1
      <4> QED BY <4>1, <4>2
    <3>3. <<"inherited">>[1] # "other"
      OBVIOUS
    <3>4. CASE platform = "windows"
      BY <1>1, <2>1, <3>1, <3>2, <3>4 DEF InPlace, Expected
    <3>5. CASE platform # "windows"
      <4>1. cmd.op = "disable" => fs'[p].acl = <<>> \/ fs'[p].acl[1] # "other"
        BY <3>1, <3>2, <3>3, <3>5 DEF InPlace
      <4> QED BY <1>1, <2>1, <3>5, <4>1 DEF InPlace
    <3> QED BY <3>4, <3>5
  <2>2. CASE cmd' # cmd
    <3>1. Check
      <4>1. cmd' # Idle
        BY <1>2 DEF Idle
      <4>2. ~Environment /\ ~Inspect /\ ~UNCHANGED vars
        BY <2>2, EnvironmentStep, InspectStep DEF vars
      <4>3. ~Change /\ ~MakeCache
        BY <1>2, <4>1, ChangeStep, MakeCacheStep DEF CommandTypes
      <4>4. ~Saving
        BY <1>2, <4>1 DEF Saving, Prepare, Record, FinishEnable, SaveDisabling, RecordSweep, RemoveReceipt,
                          SaveThen, CommandTypes
      <4>5. ~BeginEnable /\ ~BeginDisable /\ ~ListCache /\ ~Sweep /\ ~Kill
        BY <1>2, <4>1 DEF BeginEnable, BeginDisable, ListCache, Sweep, Kill, Idle, CommandTypes
      <4>6. ~Verify /\ ~CheckedAll
        BY <1>2, <4>1 DEF Verify, CheckedAll, Done, Goto, CommandTypes, Phases, Applying
      <4> QED BY <4>2, <4>3, <4>4, <4>5, <4>6, NextCases DEF Thinking
    <3>2. cmd' # Idle
      BY <1>2 DEF Idle
    <3>3. ASSUME NEW p PROVE ~Done(p)
      <4>1. Done(p) => cmd'.pc = "check"
        BY DEF Done, CommandTypes
      <4> QED BY <1>2, <4>1
    <3>4. PICK p \in cmd.todo :
             /\ cmd' = [cmd EXCEPT !.pc = "chmod", !.at = p]
             /\ State(p, cmd.changes[p]) \notin {"refused", "missing"}
             /\ ~NothingToDo(State(p, cmd.changes[p]))
      BY ONLY <3>1, <3>2, <3>3, ZenonT(30) DEF Check
    <3>5. State(p, cmd.changes[p]) \in {"installed", "plain"} /\ State(p, cmd.changes[p]) # Wanted
      BY <3>4 DEF State, NothingToDo
    <3>6. cmd.pc = "check" /\ fs' = fs
      BY <3>1 DEF Check
    <3>7. InPlace(p, cmd.changes[p])
      BY <3>5, <3>6, CheckedIsInPlace
    <3>8. cmd'.at = p /\ cmd'.changes = cmd.changes /\ cmd'.op = cmd.op
      BY <3>4 DEF CommandTypes
    <3> QED BY <1>1, <3>6, <3>7, <3>8 DEF InPlace, Expected
  <2> QED BY <2>1, <2>2
<1> QED BY <1>1, <1>2 DEF Careful, PlainInherited

\* A change of a list adds or takes away a rule and nothing else.
LEMMA ChangeKeepsOthers ==
    ASSUME IInv, Careful, Change, ~raced
    PROVE  Others(fs'[cmd.at].acl) = Others(fs[cmd.at].acl)
<1> USE DEF IInv
<1> DEFINE p == cmd.at
           c == cmd.changes[cmd.at]
<1>1. /\ cmd.pc = "chmod" /\ p \in Path /\ p \in DOMAIN cmd.changes /\ c \in Recorded
      /\ fs \in NodeMap /\ fs[p] \in Node /\ fs[p].acl \in Acl
  BY DEF Change, CommandTypes, AreRecorded, NodeTypes, NodeMap, Node
<1>2. InPlace(p, c)
  BY <1>1 DEF Careful
<1>3. CASE platform = "darwin" /\ Chmod(p)
  <2>1. CASE cmd.op = "enable"
    <3>1. fs' = [fs EXCEPT ![p].acl = <<c.rule>> \o fs[p].acl]
      BY <1>3, <2>1 DEF Chmod
    <3>2. fs'[p].acl = <<c.rule>> \o fs[p].acl
      BY <1>1, <3>1 DEF NodeMap, Node
    <3> QED BY <1>1, <3>2, RuleAmongOthers DEF Recorded
  <2>2. CASE cmd.op # "enable"
    <3>1. fs[p].acl # <<>> /\ fs' = [fs EXCEPT ![p].acl = Tail(fs[p].acl)]
      BY <1>3, <2>2 DEF Chmod
    <3>2. fs'[p].acl = Tail(fs[p].acl)
      BY <1>1, <3>1 DEF NodeMap, Node
    <3>3. cmd.op = "disable"
      BY <1>1, <2>2 DEF Phases, Applying
    <3>4. fs[p].acl[1] # "other"
      BY <1>2, <1>3, <3>1, <3>3 DEF InPlace
    <3> QED BY <1>1, <3>1, <3>2, <3>4, RuleAmongOthers DEF Rules
  <2> QED BY <2>1, <2>2
<1>4. CASE platform = "windows" /\ SetDACL(p)
  <2>1. fs'[p].acl \in {Expected(c), c.before}
    BY <1>1, <1>4 DEF SetDACL, NodeMap, Node
  <2>2. fs[p].acl \in {Expected(c), c.before}
    BY <1>2, <1>4 DEF InPlace
  <2> QED BY <1>1, <2>1, <2>2, ExpectedOthers
<1>5. fs' = fs \/ (platform = "darwin" /\ Chmod(p)) \/ (platform = "windows" /\ SetDACL(p))
  BY DEF Change, NodeTypes
<1> QED BY <1>3, <1>4, <1>5

\* When a command does something, every directory keeps the entries of others.
LEMMA OthersStep ==
    ASSUME IInv, Careful, [Next]_vars, cmd' # cmd, NEW p \in Path, fs'[p].inode = fs[p].inode,
           p = cmd.at => ~raced
    PROVE  Others(fs'[p].acl) = Others(fs[p].acl)
<1> USE DEF IInv
<1>1. CASE Change
  <2>1. CASE p = cmd.at
    BY <1>1, <2>1, ChangeKeepsOthers
  <2>2. CASE p # cmd.at
    BY <1>1, <2>2, ChangeStep
  <2> QED BY <2>1, <2>2
<1>2. CASE MakeCache
  <2>1. Stays(p) \/ Arrives(p)
    BY <1>2, MakeCacheStep
  <2>2. ~Arrives(p)
    <3>1. Arrives(p) => fs'[p].inode = budget.inodes + 1 /\ fs[p].inode = 0 /\ budget.inodes \in Nat
      BY DEF Arrives, Absent, NodeTypes
    <3> QED BY <3>1
  <2> QED BY <2>1, <2>2 DEF Stays
<1>3. CASE Saving \/ Thinking
  BY <1>3, QuietStep
<1>4. ~Environment /\ ~Inspect /\ ~UNCHANGED vars
  BY EnvironmentStep, InspectStep DEF vars
<1> QED BY <1>1, <1>2, <1>3, <1>4, NextCases

\* No command takes an entry of somebody else from a directory or adds one, unless
\* the list in hand was changed by another program between check and change.
THEOREM OthersStay == Spec => OthersKeptUnlessRaced
<1>1. Init => Careful
  BY NoChangesAreRecorded DEF Init, Careful, PlainInherited, Idle, NoReceipt
<1>2. IInv /\ Careful /\ [Next]_vars => Careful'
  BY CarefulStep
<1>3. IInv /\ Careful /\ [Next]_vars =>
        [cmd' # cmd => \A p \in Path : TouchesOthers(p) => p = cmd.at /\ raced]_vars
  BY OthersStep DEF TouchesOthers
<1> QED BY <1>1, <1>2, <1>3, GuardInvariant, PTL DEF Spec, OthersKeptUnlessRaced
=============================================================================
