-------------------------- MODULE HookConfigProofs --------------------------
(***************************************************************************)
(* Theorems of the hook configuration, for every set of processes, clients, *)
(* events and programs, every set of faults and every bound: how an entry   *)
(* can come to be without its receipt, that a removal takes back what the   *)
(* installation wrote, and that only edits change what others see of their  *)
(* settings.                                                                *)
(*                                                                         *)
(* PartedOnlyByUndo speaks of steps.  A kill between the two files and a    *)
(* power loss that reverts one of them need that the durable files agree    *)
(* with the others (Agree), and a step of a command needs what the command  *)
(* has established when it reaches it (Protocol).                           *)
(***************************************************************************)
EXTENDS HookConfig, TLAPS

USE HookAssumption, HookNoneAssumption, HookDataAssumption
-----------------------------------------------------------------------------
(* The inductive invariant. *)

\* Entries of Laodi in a settings file, and the program that a receipt names.
Has(c, e, x) == c \notin {None, Malformed} /\ Occurrences(c, e, x) > 0
Holds(c, x)  == \E e \in Event : Has(c, e, x)
Names(r, x)  == r # None /\ r.entry = x

\* What a power loss may leave of the settings has no entry of a program that is
\* neither in the settings nor in the receipt, and a receipt whose entry is in
\* one of them is durable.
FilesAgree(c, sc, r, sr) ==
    \A x \in Program :
        /\ Holds(sc, x) => Holds(c, x) \/ Names(r, x)
        /\ Names(r, x) /\ (Holds(c, x) \/ Holds(sc, x)) => Names(sr, x)
Agree == \A a \in Client : FilesAgree(config[a], safe.config[a], receipt[a], safe.receipt[a])

Held == [by : Proc \cup {None}, pc : {"idle", "read", "receipt", "sync receipt", "replace", "sync", "undo", "drop"},
         kind : {"install", "remove", None}, client : Client \cup {None},
         entry : Program \cup {None}, seen : Settings \cup {None}]
Steps == {"read", "receipt", "sync receipt", "replace", "sync", "undo", "drop"}

\* Between two steps a command relies on what the lock keeps others from: the
\* receipt is as the command left it, and its own entries are not there yet, or
\* not any more.
Protocol ==
    LET a == hook.client
        x == hook.entry
    IN  \/ hook = NoHook
        \/ /\ hook.by \in Proc /\ hook.client \in Client /\ hook.entry \in Program
           /\ hook.kind = "install" /\ hook.pc \in Steps \ {"drop"}
           /\ hook.pc # "read" => ~Holds(hook.seen, x)
           /\ hook.pc \in {"receipt", "sync receipt", "replace"} =>
                 ~Holds(config[a], x) /\ ~Holds(safe.config[a], x)
           /\ hook.pc = "receipt" => receipt[a] = None
           /\ hook.pc \in {"sync receipt", "replace", "sync", "undo"} => Names(receipt[a], x)
           /\ hook.pc = "replace" => safe.receipt[a] = receipt[a]
           /\ hook.pc \in {"sync", "undo"} => (Holds(safe.config[a], x) => Holds(config[a], x))
        \/ /\ hook.by \in Proc /\ hook.client \in Client /\ hook.entry \in Program
           /\ hook.kind = "remove" /\ hook.pc \in {"read", "replace", "sync", "drop"}
           /\ hook.pc # "read" => receipt[a] # None
           /\ hook.pc = "replace" => hook.seen \in Settings
           /\ hook.pc \in {"sync", "drop"} => ~Holds(config[a], receipt[a].entry)
           /\ hook.pc = "drop" => ~Holds(safe.config[a], receipt[a].entry)

Typed ==
    /\ tools \subseteq Client
    /\ config \in [Client -> Settings \cup {None, Malformed}]
    /\ receipt \in [Client -> Receipt \cup {None}]
    /\ safe \in [config : [Client -> Settings \cup {None, Malformed}],
                 receipt : [Client -> Receipt \cup {None}]]
    /\ hook \in Held
    /\ outcome \in [Proc -> {None, "ok", "failed"}]

EntryInv == Typed /\ Agree /\ Protocol

-----------------------------------------------------------------------------
(* Lemmas. *)

\* What an installation writes are settings, with entries of its own program and
\* those that it found.
LEMMA WithEntryMade ==
    ASSUME NEW c \in Settings, NEW a \in Client, NEW x \in Program,
           \A e \in Event : Occurrences(c, e, x) = 0
    PROVE  /\ WithEntry(c, a, x) \in Settings
           /\ \A e \in Event, y \in Program : y # x =>
                 Occurrences(WithEntry(c, a, x), e, y) = Occurrences(c, e, y)
<1> DEFINE at == [e \in Event |-> [Named(c, e) EXCEPT ![x] = @ + 1]]
<1>1. ASSUME NEW e \in Event
      PROVE  /\ Named(c, e) \in [Entry -> 0..2] /\ Named(c, e)[x] = 0
             /\ \A y \in Entry : Named(c, e)[y] = Occurrences(c, e, y)
  BY DEF Named, NoEntries, Occurrences, Settings, Entry
<1>2. at \in [Event -> [Entry -> 0..2]]
  BY <1>1 DEF Entry
<1>3. WithEntry(c, a, x).at = at
  BY DEF WithEntry
<1>4. WithEntry(c, a, x) \in Settings
  BY <1>2 DEF WithEntry, Settings
<1>5. ASSUME NEW e \in Event, NEW y \in Program, y # x
      PROVE  Occurrences(WithEntry(c, a, x), e, y) = Occurrences(c, e, y)
  <2>1. at[e] = [Named(c, e) EXCEPT ![x] = @ + 1] /\ at[e] # None
    BY <1>2
  <2>2. at[e][y] = Named(c, e)[y]
    BY <1>1, <1>5, <2>1 DEF Entry
  <2>3. Occurrences(WithEntry(c, a, x), e, y) = at[e][y]
    <3> HIDE DEF at
    <3> QED BY <1>3, <2>1 DEF Occurrences
  <2>4. Named(c, e)[y] = Occurrences(c, e, y)
    BY <1>1 DEF Entry
  <2> QED BY ONLY <2>2, <2>3, <2>4
<1> HIDE DEF at
<1> QED BY <1>4, <1>5, Zenon

\* What a removal writes are settings, without the entries of the receipt.
LEMMA WithoutEntryMade ==
    ASSUME NEW c \in Settings, NEW a \in Client, NEW r \in Receipt
    PROVE  /\ WithoutEntry(c, a, r) \in Settings
           /\ \A e \in Event, y \in Program :
                 Occurrences(WithoutEntry(c, a, r), e, y) > 0 <=> y # r.entry /\ Occurrences(c, e, y) > 0
<1> DEFINE left(e) == [Named(c, e) EXCEPT ![r.entry] = 0]
           at == [e \in Event |-> IF left(e) = NoEntries /\ e \in r.names THEN None ELSE left(e)]
           w  == WithoutEntry(c, a, r)
<1>1. r.entry \in Program /\ r.switch \in {"absent", "on", "off"}
  BY DEF Receipt
<1>2. ASSUME NEW e \in Event
      PROVE  /\ left(e) \in [Entry -> 0..2] /\ left(e)[r.entry] = 0
             /\ \A y \in Entry : y # r.entry => left(e)[y] = Occurrences(c, e, y)
  BY <1>1 DEF Named, NoEntries, Occurrences, Settings, Entry
<1>3. at \in [Event -> {None} \cup [Entry -> 0..2]]
  BY <1>2
<1>4. w.at = at
  BY DEF WithoutEntry
<1>5. w \in Settings
  <2>1. w.hooks \in BOOLEAN /\ w.events \in BOOLEAN
    BY DEF WithoutEntry
  <2>2. w.switch \in {"absent", "on", "off"}
    BY <1>1 DEF WithoutEntry, Settings
  <2>3. w = [hooks |-> w.hooks, events |-> w.events, switch |-> w.switch, at |-> w.at]
    BY DEF WithoutEntry
  <2> HIDE DEF w, at
  <2> QED BY <2>1, <2>2, <2>3, <1>3, <1>4 DEF Settings
<1>6. ASSUME NEW e \in Event, NEW y \in Program
      PROVE  Occurrences(w, e, y) > 0 <=> y # r.entry /\ Occurrences(c, e, y) > 0
  <2>1. at[e] = IF left(e) = NoEntries /\ e \in r.names THEN None ELSE left(e)
    OBVIOUS
  <2>2. left(e) # None /\ NoEntries[y] = 0 /\ y \in Entry
    BY <1>2 DEF NoEntries, Entry
  <2>3. Occurrences(w, e, y) = IF at[e] = None THEN 0 ELSE at[e][y]
    BY <1>4 DEF Occurrences
  <2> HIDE DEF at, left, w
  <2>4. CASE left(e) = NoEntries
    <3>1. ~(Occurrences(w, e, y) > 0)
      BY <2>1, <2>2, <2>3, <2>4
    <3>2. y # r.entry => Occurrences(c, e, y) = 0
      BY <1>2, <2>2, <2>4
    <3> QED BY <3>1, <3>2
  <2>5. CASE left(e) # NoEntries
    <3>1. Occurrences(w, e, y) = left(e)[y]
      BY <2>1, <2>2, <2>3, <2>5
    <3>2. CASE y = r.entry
      BY <1>2, <3>1, <3>2
    <3>3. CASE y # r.entry
      BY <1>2, <2>2, <3>1, <3>3
    <3> QED BY <3>2, <3>3
  <2> QED BY <2>4, <2>5
<1> QED BY <1>5, <1>6

\* An absent file has no entry.
LEMMA EmptyMade ==
    /\ Empty \in Settings
    /\ \A e \in Event, x \in Entry : Occurrences(Empty, e, x) = 0
BY DEF Empty, Settings, Occurrences

\* Another program copies an entry of Laodi only where it finds one.
LEMMA EditMade ==
    ASSUME NEW d \in Settings \cup {None, Malformed}, NEW a \in Client, NEW c \in Edits(Decoded(d), a)
    PROVE  /\ c \in Settings \cup {None, Malformed}
           /\ \A e \in Event, x \in Program : Has(c, e, x) => \E f \in Event : Has(d, f, x)
<1> DEFINE b == Decoded(d)
<1>1. ASSUME NEW c1 \in Settings, NEW e \in Event
      PROVE  Named(c1, e) \in [Entry -> 0..2] /\ \A y \in Entry : Named(c1, e)[y] = Occurrences(c1, e, y)
  BY DEF Named, NoEntries, Occurrences, Settings
<1>2. CASE c \in {None, Malformed, Empty}
  BY <1>2, EmptyMade DEF Has, Entry
<1>3. CASE c \notin {None, Malformed, Empty}
  <2>1. d # Malformed
    BY <1>3 DEF Edits, Decoded
  <2>2. b \in Settings
    BY <2>1, EmptyMade DEF Decoded
  <2>3. \A f \in Event, x \in Program : Occurrences(b, f, x) > 0 => Has(d, f, x)
    BY <2>1, EmptyMade DEF Decoded, Has, Entry
  <2>4. c \in Switched(b, a) \cup OtherHooks(b) \cup Copies(b)
    BY <1>3, <2>2 DEF Edits
  <2> HIDE DEF b
  <2>5. SUFFICES /\ c \in Settings
                 /\ \A e \in Event, x \in Program :
                       Occurrences(c, e, x) > 0 => \E f \in Event : Occurrences(b, f, x) > 0
    BY <2>3 DEF Has
  <2>6. CASE c \in Switched(b, a)
    BY <2>2, <2>6 DEF Switched, Settings, Occurrences
  <2>7. CASE c \in OtherHooks(b)
    <3>1. PICK e \in Event, n \in 0..1 :
              c = [Opened(b) EXCEPT !.at[e] = Put(b, e, Foreign, n)]
      BY <2>7 DEF OtherHooks
    <3> DEFINE new == Put(b, e, Foreign, n)
    <3>2. new \in [Entry -> 0..2] /\ \A y \in Program : new[y] = Occurrences(b, e, y)
      BY <1>1, <2>2 DEF Entry, Put
    <3>3. c \in Settings
      BY <2>2, <3>1, <3>2 DEF Settings, Opened
    <3>4. ASSUME NEW f \in Event, NEW x \in Program, Occurrences(c, f, x) > 0
          PROVE  Occurrences(b, f, x) > 0
      BY <2>2, <3>1, <3>2, <3>4 DEF Settings, Occurrences, Opened
    <3> QED BY <3>3, <3>4
  <2>8. CASE c \in Copies(b)
    <3>1. PICK n \in 0..2, e \in Event, x \in Found(b) :
              c = [b EXCEPT !.at[e] = Put(b, e, x, n)]
      BY <2>8 DEF Copies
    <3>2. x \in Program /\ \E f \in Event : Occurrences(b, f, x) > 0
      BY <3>1 DEF Found
    <3> DEFINE new == Put(b, e, x, n)
    <3>3. new \in [Entry -> 0..2] /\ \A y \in Program : y # x => new[y] = Occurrences(b, e, y)
      BY <1>1, <2>2, <3>2 DEF Entry, Put
    <3>4. c \in Settings
      BY <2>2, <3>1, <3>3 DEF Settings
    <3>5. ASSUME NEW f \in Event, NEW y \in Program, Occurrences(c, f, y) > 0
          PROVE  y = x \/ Occurrences(b, f, y) > 0
      BY <2>2, <3>1, <3>3, <3>5 DEF Settings, Occurrences
    <3> QED BY <3>2, <3>4, <3>5
  <2> QED BY <2>4, <2>6, <2>7, <2>8
<1> QED BY <1>2, <1>3, EmptyMade

\* The programs that have an entry after an installation, after a removal and
\* after an edit.
LEMMA HoldsInstalled ==
    ASSUME NEW c \in Settings \cup {None}, NEW a \in Client, NEW x \in Program, ~Holds(c, x)
    PROVE  /\ WithEntry(Decoded(c), a, x) \in Settings
           /\ \A y \in Program : y # x => (Holds(WithEntry(Decoded(c), a, x), y) <=> Holds(c, y))
<1> DEFINE d == Decoded(c)
           w == WithEntry(d, a, x)
<1>1. d \in Settings
  BY EmptyMade DEF Decoded
<1>2. ASSUME NEW y \in Program, NEW e \in Event
      PROVE  Occurrences(d, e, y) \in Nat /\ (Occurrences(d, e, y) > 0 <=> Has(c, e, y))
  <2>1. CASE c = None
    BY <2>1, EmptyMade DEF Decoded, Has, Entry
  <2>2. CASE c # None
    <3>1. d = c /\ c \in Settings /\ c # Malformed /\ y \in Entry
      BY <2>2 DEF Decoded, Entry
    <3>2. Occurrences(c, e, y) \in Nat
      BY <3>1 DEF Settings, Occurrences
    <3> HIDE DEF d
    <3> QED BY <2>2, <3>1, <3>2 DEF Has
  <2> QED BY <2>1, <2>2
<1> HIDE DEF d
<1>3. \A e \in Event : Occurrences(d, e, x) = 0
  BY <1>2 DEF Holds
<1>4. w \in Settings /\ \A e \in Event, y \in Program : y # x => Occurrences(w, e, y) = Occurrences(d, e, y)
  BY <1>1, <1>3, WithEntryMade
<1> HIDE DEF w
<1>5. ASSUME NEW y \in Program, y # x PROVE Holds(w, y) <=> Holds(c, y)
  <2>1. \A e \in Event : Has(w, e, y) <=> Has(c, e, y)
    BY <1>2, <1>4, <1>5 DEF Has
  <2> QED BY <2>1 DEF Holds
<1> QED BY <1>4, <1>5 DEF w, d

LEMMA HoldsRemoved ==
    ASSUME NEW c \in Settings, NEW a \in Client, NEW r \in Receipt
    PROVE  /\ WithoutEntry(c, a, r) \in Settings
           /\ \A y \in Program : Holds(WithoutEntry(c, a, r), y) <=> y # r.entry /\ Holds(c, y)
<1> DEFINE w == WithoutEntry(c, a, r)
<1>1. /\ w \in Settings
      /\ \A e \in Event, y \in Program :
            Occurrences(w, e, y) > 0 <=> y # r.entry /\ Occurrences(c, e, y) > 0
  BY WithoutEntryMade
<1> HIDE DEF w
<1>2. ASSUME NEW y \in Program PROVE Holds(w, y) <=> y # r.entry /\ Holds(c, y)
  <2>1. \A e \in Event : Has(w, e, y) <=> y # r.entry /\ Has(c, e, y)
    BY <1>1 DEF Has
  <2> QED BY <2>1 DEF Holds
<1> QED BY <1>1, <1>2 DEF w

LEMMA HoldsEdited ==
    ASSUME NEW d \in Settings \cup {None, Malformed}, NEW a \in Client, NEW c \in Edits(Decoded(d), a)
    PROVE  /\ c \in Settings \cup {None, Malformed}
           /\ \A x \in Program : Holds(c, x) => Holds(d, x)
BY EditMade DEF Holds

\* Settings that are accepted have no entry of the program.
LEMMA AcceptableHolds ==
    ASSUME NEW c, NEW a \in Client, NEW x \in Program, Acceptable(Decoded(c), a, x)
    PROVE  ~Holds(c, x)
<1> SUFFICES ASSUME NEW e \in Event, Has(c, e, x) PROVE FALSE
  BY DEF Holds
<1>1. c # None /\ Occurrences(c, e, x) > 0
  BY DEF Has
<1>2. Decoded(c) = c
  BY <1>1 DEF Decoded
<1>3. Occurrences(c, e, x) = 0
  BY <1>2 DEF Acceptable
<1> QED BY <1>1, <1>3

-----------------------------------------------------------------------------
(* Every step preserves the invariant. *)

\* The files of one client, for a step that changes those of that client only.
LEMMA AgreeStep ==
    ASSUME Agree, NEW b \in Client,
           \A a \in Client \ {b} :
               /\ config'[a] = config[a] /\ safe'.config[a] = safe.config[a]
               /\ receipt'[a] = receipt[a] /\ safe'.receipt[a] = safe.receipt[a],
           FilesAgree(config'[b], safe'.config[b], receipt'[b], safe'.receipt[b])
    PROVE  Agree'
<1> SUFFICES ASSUME NEW a \in Client
             PROVE  FilesAgree(config'[a], safe'.config[a], receipt'[a], safe'.receipt[a])
  BY DEF Agree
<1>1. CASE a = b
  BY <1>1
<1>2. CASE a # b
  BY <1>2 DEF Agree
<1> QED BY <1>1, <1>2

\* An entry of a program in the durable settings is in the settings, too, if there
\* is no receipt.
LEMMA NoReceiptSafe ==
    ASSUME Agree, NEW a \in Client, receipt[a] = None, NEW x \in Program, ~Holds(config[a], x)
    PROVE  ~Holds(safe.config[a], x)
BY DEF Agree, FilesAgree, Names

\* A command that is at work holds the lock.
LEMMA AtWork ==
    ASSUME hook.pc # "idle"
    PROVE  hook # NoHook
BY DEF NoHook

\* The settings in use before the first command have no entry of Laodi.
LEMMA InitHook == HookInit => EntryInv
<1> SUFFICES ASSUME HookInit PROVE EntryInv
  OBVIOUS
<1>1. ASSUME NEW a \in Client, NEW c \in Used(a)
      PROVE  c \in Settings \cup {None} /\ \A x \in Program : ~Holds(c, x)
  <2> SUFFICES c # None => /\ c \in Settings
                           /\ \A e \in Event, x \in Program : Occurrences(c, e, x) = 0
    BY DEF Holds, Has
  <2>1. CASE c = None
    BY <2>1
  <2>5. CASE c = Empty
    BY <2>5, EmptyMade DEF Entry
  <2>2. CASE c = [Empty EXCEPT !.hooks = TRUE, !.events = TRUE, !.switch = "off"]
    BY <2>2 DEF Empty, Settings, Occurrences
  <2>4. CASE c = [Empty EXCEPT !.hooks = TRUE, !.switch = "on"]
    BY <2>4 DEF Empty, Settings, Occurrences
  <2>3. CASE \E s \in {"absent", "on"}, named \in SUBSET Event, n \in 0..1 :
               c = [hooks |-> TRUE, events |-> TRUE, switch |-> s,
                    at |-> [e \in Event |-> IF e \in named THEN [NoEntries EXCEPT ![Foreign] = n] ELSE None]]
    <3>1. PICK s \in {"absent", "on"}, named \in SUBSET Event, n \in 0..1 :
               c = [hooks |-> TRUE, events |-> TRUE, switch |-> s,
                    at |-> [e \in Event |-> IF e \in named THEN [NoEntries EXCEPT ![Foreign] = n] ELSE None]]
      BY <2>3
    <3> DEFINE o == [NoEntries EXCEPT ![Foreign] = n]
    <3>2. o \in [Entry -> 0..2] /\ \A x \in Program : o[x] = 0
      BY DEF NoEntries, Entry
    <3>3. c.at = [e \in Event |-> IF e \in named THEN o ELSE None]
      BY <3>1
    <3>4. c \in Settings
      BY <3>1, <3>2 DEF Settings
    <3> QED BY <3>2, <3>3, <3>4 DEF Occurrences
  <2> QED BY <2>1, <2>2, <2>3, <2>4, <2>5 DEF Used
<1>2. /\ config \in [Client -> Settings \cup {None, Malformed}]
      /\ \A a \in Client, x \in Program : ~Holds(config[a], x)
  <2>1. /\ config \in [Client -> UNION {Used(a) : a \in Client}]
        /\ \A a \in Client : config[a] \in Used(a) \cup {None}
    BY DEF HookInit
  <2>2. ASSUME NEW a \in Client
        PROVE  config[a] \in Settings \cup {None} /\ \A x \in Program : ~Holds(config[a], x)
    <3>1. CASE config[a] = None
      BY <3>1 DEF Holds, Has
    <3>2. CASE config[a] \in Used(a)
      BY <1>1, <3>2
    <3> QED BY <2>1, <3>1, <3>2
  <2> QED BY <2>1, <2>2
<1>3. Typed
  BY <1>2 DEF Typed, HookInit, NoHook, Held
<1>4. Agree
  <2>1. safe.config = config /\ \A a \in Client : receipt[a] = None
    BY DEF HookInit
  <2> QED BY <1>2, <2>1 DEF Agree, FilesAgree, Names
<1>5. Protocol
  BY DEF Protocol, HookInit
<1> QED BY <1>3, <1>4, <1>5 DEF EntryInv

\* A command that begins finds the files as the last one left them.
LEMMA BeginStep ==
    ASSUME EntryInv, NEW p \in Proc, NEW kind \in {"install", "remove"}, NEW a \in Client,
           NEW x \in Program, BeginHook(p, kind, a, x), tools' \subseteq Client
    PROVE  EntryInv'
<1>1. Typed'
  <2>1. CASE hook.by = None
    <3>0. hook' = [by |-> p, pc |-> "read", kind |-> kind, client |-> a, entry |-> x, seen |-> None]
      BY <2>1 DEF BeginHook
    <3>1. hook' \in Held
      BY <3>0 DEF Held
    <3>2. outcome' \in [Proc -> {None, "ok", "failed"}]
      BY <2>1 DEF EntryInv, Typed, BeginHook
    <3> QED BY <3>1, <3>2 DEF EntryInv, Typed, BeginHook
  <2>2. CASE hook.by # None
    BY <2>2 DEF EntryInv, Typed, BeginHook
  <2> QED BY <2>1, <2>2
<1>2. Agree'
  BY DEF EntryInv, Agree, BeginHook
<1>3. Protocol'
  <2>1. CASE hook.by = None
    <3>1. hook' = [by |-> p, pc |-> "read", kind |-> kind, client |-> a, entry |-> x, seen |-> None]
      BY <2>1 DEF BeginHook
    <3>2. /\ hook'.by = p /\ hook'.pc = "read" /\ hook'.kind = kind
          /\ hook'.client = a /\ hook'.entry = x
      BY <3>1
    <3> QED BY <3>2 DEF Protocol, Steps
  <2>2. CASE hook.by # None
    BY <2>2 DEF EntryInv, BeginHook, Protocol
  <2> QED BY <2>1, <2>2
<1> QED BY <1>1, <1>2, <1>3 DEF EntryInv

\* The end of a command.
LEMMA EndStep ==
    ASSUME Typed, Protocol, hook # NoHook, NEW result \in {"ok", "failed"}, End(result)
    PROVE  /\ Protocol'
           /\ outcome' \in [Proc -> {None, "ok", "failed"}]
           /\ hook' \in Held
BY DEF Typed, Protocol, End, NoHook, Held

\* An installation goes on only if there is no receipt, and no entry of its program
\* in the settings, so none in the durable settings either.
LEMMA ReadInstallStep ==
    ASSUME EntryInv, ReadInstall, tools' \subseteq Client
    PROVE  EntryInv'
<1> DEFINE a == hook.client
           c == Decoded(config[a])
<1>1. a \in Client /\ hook # NoHook /\ hook.by \in Proc /\ hook.entry \in Program
  BY DEF EntryInv, Protocol, ReadInstall, NoHook
<1>2. Agree'
  BY DEF EntryInv, Agree, ReadInstall
<1>3. CASE End("failed") \/ End("ok")
  BY <1>1, <1>2, <1>3, EndStep DEF EntryInv, Typed, ReadInstall
<1>4. CASE /\ c # Malformed /\ receipt[a] = None /\ Acceptable(c, a, hook.entry) /\ UNCHANGED outcome
           /\ hook' = [hook EXCEPT !.pc = "receipt", !.seen = config[a]]
  <2>1. config[a] \in Settings \cup {None}
    BY <1>1, <1>4 DEF EntryInv, Typed, Decoded
  <2>2. Typed'
    BY <1>4, <2>1 DEF EntryInv, Typed, ReadInstall, Steps, Held
  <2>3. ~Holds(config[a], hook.entry)
    BY <1>1, <1>4, AcceptableHolds
  <2>4. ~Holds(safe.config[a], hook.entry)
    BY <1>1, <1>4, <2>3, NoReceiptSafe DEF EntryInv
  <2>5. Protocol'
    <3>1. /\ hook'.by = hook.by /\ hook'.client = a /\ hook'.entry = hook.entry
          /\ hook'.kind = "install" /\ hook'.pc = "receipt" /\ hook'.seen = config[a]
      BY <1>4 DEF EntryInv, Typed, ReadInstall, Held
    <3>2. config' = config /\ receipt' = receipt /\ safe' = safe
      BY DEF ReadInstall
    <3> QED BY <1>1, <1>4, <2>3, <2>4, <3>1, <3>2 DEF Protocol, Steps
  <2> QED BY <1>2, <2>2, <2>5 DEF EntryInv
<1> QED BY <1>3, <1>4 DEF ReadInstall

\* The receipt is written while its program has no entry.
LEMMA PublishStep ==
    ASSUME EntryInv, PublishReceipt, tools' \subseteq Client
    PROVE  EntryInv'
<1> DEFINE a == hook.client
           x == hook.entry
<1>1. /\ a \in Client /\ hook # NoHook /\ hook.by \in Proc /\ x \in Program
      /\ hook.kind = "install" /\ ~Holds(config[a], x) /\ ~Holds(safe.config[a], x)
      /\ ~Holds(hook.seen, x) /\ receipt[a] = None
  <2>1. hook.pc = "receipt"
    BY DEF PublishReceipt
  <2>2. hook # NoHook
    BY <2>1, AtWork
  <2> QED BY <2>1, <2>2 DEF EntryInv, Protocol
<1>2. CASE End("failed") /\ UNCHANGED receipt
  <2>1. Agree'
    BY <1>2 DEF EntryInv, Agree, PublishReceipt
  <2> QED BY <1>1, <1>2, <2>1, EndStep DEF EntryInv, Typed, PublishReceipt
<1>3. CASE /\ receipt' = [receipt EXCEPT ![a] = ReceiptOf(Decoded(hook.seen), a, x)]
           /\ Goto("sync receipt") /\ UNCHANGED outcome
  <2> DEFINE r == ReceiptOf(Decoded(hook.seen), a, x)
  <2>1. Decoded(hook.seen) \in Settings
    BY EmptyMade DEF EntryInv, Typed, Decoded, Held
  <2>2. r \in Receipt /\ r.entry = x
    BY <1>1, <2>1 DEF ReceiptOf, Receipt, Settings
  <2>3. r # None
    BY <2>2
  <2> HIDE DEF r
  <2>4. Typed'
    <3>1. receipt' \in [Client -> Receipt \cup {None}]
      <4>1. receipt \in [Client -> Receipt \cup {None}] /\ receipt' = [receipt EXCEPT ![a] = r]
        BY <1>3 DEF EntryInv, Typed, r
      <4> HIDE DEF a
      <4> QED BY <2>2, <4>1
    <3>2. hook' \in Held
      BY <1>3 DEF EntryInv, Typed, Goto, Held
    <3> QED BY <1>3, <3>1, <3>2 DEF EntryInv, Typed, PublishReceipt
  <2>6. receipt'[a] = r
    BY <1>1, <1>3 DEF EntryInv, Typed, r
  <2>5. Agree'
    <3>1. \A b \in Client \ {a} : receipt'[b] = receipt[b]
      BY <1>3 DEF EntryInv, Typed
    <3>2. config' = config /\ safe' = safe
      BY DEF PublishReceipt
    <3>3. FilesAgree(config[a], safe.config[a], r, safe.receipt[a])
      BY <1>1, <2>2 DEF EntryInv, Agree, FilesAgree, Names
    <3> HIDE DEF a
    <3> QED BY <1>1, <2>6, <3>1, <3>2, <3>3, AgreeStep DEF EntryInv
  <2>7. Protocol'
    <3>1. /\ hook'.by = hook.by /\ hook'.client = a /\ hook'.entry = x /\ hook'.seen = hook.seen
          /\ hook'.kind = "install" /\ hook'.pc = "sync receipt"
      BY <1>1, <1>3 DEF EntryInv, Typed, Goto, Held
    <3>2. config' = config /\ safe' = safe
      BY DEF PublishReceipt
    <3> QED BY <1>1, <2>2, <2>3, <2>6, <3>1, <3>2 DEF Protocol, Steps, Names
  <2> QED BY <2>4, <2>5, <2>7 DEF EntryInv
<1> QED BY <1>2, <1>3 DEF PublishReceipt

\* The receipt is durable before there is an entry.
LEMMA SyncReceiptStep ==
    ASSUME EntryInv, SyncReceipt, tools' \subseteq Client
    PROVE  EntryInv'
<1> DEFINE a == hook.client
           x == hook.entry
<1>1. /\ a \in Client /\ hook # NoHook /\ hook.by \in Proc /\ x \in Program
      /\ hook.kind = "install" /\ ~Holds(config[a], x) /\ ~Holds(safe.config[a], x)
      /\ ~Holds(hook.seen, x) /\ Names(receipt[a], x)
  <2>1. hook.pc = "sync receipt"
    BY DEF SyncReceipt
  <2>3. hook # NoHook
    BY <2>1, AtWork
  <2> QED BY <2>1, <2>3 DEF EntryInv, Protocol
<1>2. CASE End("failed") /\ UNCHANGED safe
  <2>1. Agree'
    BY <1>2 DEF EntryInv, Agree, SyncReceipt
  <2> QED BY <1>1, <1>2, <2>1, EndStep DEF EntryInv, Typed, SyncReceipt
<1>3. CASE /\ safe' = [safe EXCEPT !.receipt[a] = receipt[a]]
           /\ Goto("replace") /\ UNCHANGED outcome
  <2>1. Typed'
    BY <1>1, <1>3 DEF EntryInv, Typed, SyncReceipt, Goto, Held
  <2>2. /\ safe'.config = safe.config /\ safe'.receipt[a] = receipt[a]
        /\ \A b \in Client \ {a} : safe'.receipt[b] = safe.receipt[b]
    BY <1>1, <1>3 DEF EntryInv, Typed
  <2>3. Agree'
    <3>1. config' = config /\ receipt' = receipt
      BY DEF SyncReceipt
    <3>2. FilesAgree(config[a], safe.config[a], receipt[a], receipt[a])
      BY <1>1 DEF EntryInv, Agree, FilesAgree
    <3> HIDE DEF a
    <3> QED BY <1>1, <2>2, <3>1, <3>2, AgreeStep DEF EntryInv
  <2>4. Protocol'
    <3>1. /\ hook'.by = hook.by /\ hook'.client = a /\ hook'.entry = x /\ hook'.seen = hook.seen
          /\ hook'.kind = "install" /\ hook'.pc = "replace"
      BY <1>1, <1>3 DEF EntryInv, Typed, Goto, Held
    <3>2. config' = config /\ receipt' = receipt
      BY DEF SyncReceipt
    <3> QED BY <1>1, <2>2, <3>1, <3>2 DEF Protocol, Steps
  <2> QED BY <2>1, <2>3, <2>4 DEF EntryInv
<1> QED BY <1>2, <1>3 DEF SyncReceipt

\* A removal goes on only with a receipt and settings to change.
LEMMA ReadRemoveStep ==
    ASSUME EntryInv, ReadRemove, tools' \subseteq Client
    PROVE  EntryInv'
<1> DEFINE a == hook.client
<1>1. a \in Client /\ hook # NoHook /\ hook.by \in Proc /\ hook.entry \in Program
  BY DEF EntryInv, Protocol, ReadRemove, NoHook
<1>2. Agree'
  BY DEF EntryInv, Agree, ReadRemove
<1>3. CASE End("failed")
  BY <1>1, <1>2, <1>3, EndStep DEF EntryInv, Typed, ReadRemove
<1>4. CASE /\ receipt[a] # None /\ config[a] \notin {None, Malformed} /\ UNCHANGED outcome
           /\ hook' = [hook EXCEPT !.pc = "replace", !.seen = config[a]]
  <2>1. config[a] \in Settings
    BY <1>1, <1>4 DEF EntryInv, Typed
  <2>2. Typed'
    BY <1>4, <2>1 DEF EntryInv, Typed, ReadRemove, Held
  <2>3. Protocol'
    <3>1. /\ hook'.by = hook.by /\ hook'.client = a /\ hook'.entry = hook.entry
          /\ hook'.kind = "remove" /\ hook'.pc = "replace" /\ hook'.seen = config[a]
      BY <1>4 DEF EntryInv, Typed, ReadRemove, Held
    <3>2. receipt' = receipt
      BY DEF ReadRemove
    <3> QED BY <1>1, <1>4, <2>1, <3>1, <3>2 DEF Protocol
  <2> QED BY <1>2, <2>2, <2>3 DEF EntryInv
<1> QED BY <1>3, <1>4 DEF ReadRemove

\* An installation adds entries that the receipt names, a removal takes those away.
LEMMA ReplaceStep ==
    ASSUME EntryInv, Replace, tools' \subseteq Client
    PROVE  EntryInv'
<1> DEFINE a == hook.client
           x == hook.entry
           n == config'[a]
<1>1. hook.pc = "replace" /\ receipt' = receipt /\ safe' = safe
  BY DEF Replace
<1>2. hook # NoHook
  BY <1>1, AtWork
<1>3. /\ a \in Client /\ hook.by \in Proc /\ x \in Program
      /\ hook.kind \in {"install", "remove"}
      /\ receipt[a] # None
  BY <1>1, <1>2 DEF EntryInv, Protocol, Names
<1>4. receipt[a] \in Receipt
  BY <1>3 DEF EntryInv, Typed
<1>9. hook.kind = "install" =>
          /\ ~Holds(config[a], x) /\ ~Holds(safe.config[a], x) /\ ~Holds(hook.seen, x)
          /\ Names(receipt[a], x) /\ safe.receipt[a] = receipt[a]
  BY <1>1, <1>2 DEF EntryInv, Protocol
<1>5. CASE /\ config[a] = hook.seen /\ config' = [config EXCEPT ![a] = Replacement]
           /\ Goto("sync") /\ UNCHANGED outcome
  <2>1. /\ hook'.by = hook.by /\ hook'.client = a /\ hook'.entry = x /\ hook'.seen = hook.seen
        /\ hook'.kind = hook.kind /\ hook'.pc = "sync" /\ hook' \in Held
    BY <1>5 DEF EntryInv, Typed, Goto, Held
  <2>2. /\ Replacement \in Settings
        /\ FilesAgree(Replacement, safe.config[a], receipt[a], safe.receipt[a])
        /\ hook.kind = "remove" => ~Holds(Replacement, receipt[a].entry)
    <3>0. FilesAgree(config[a], safe.config[a], receipt[a], safe.receipt[a])
      BY <1>3 DEF EntryInv, Agree
    <3>1. CASE hook.kind = "install"
      <4>1. hook.seen \in Settings \cup {None}
        BY DEF EntryInv, Typed, Held
      <4>3. Replacement = WithEntry(Decoded(hook.seen), a, x)
        BY <3>1 DEF Replacement
      <4> HIDE DEF a, x
      <4>4. /\ Replacement \in Settings
            /\ \A y \in Program : y # x => (Holds(Replacement, y) <=> Holds(hook.seen, y))
        BY <1>3, <1>9, <3>1, <4>1, <4>3, HoldsInstalled
      <4>5. FilesAgree(Replacement, safe.config[a], receipt[a], safe.receipt[a])
        BY <1>3, <1>5, <1>9, <3>0, <3>1, <4>4 DEF FilesAgree, Names
      <4> QED BY <3>1, <4>4, <4>5
    <3>2. CASE hook.kind = "remove"
      <4> DEFINE c == hook.seen
      <4>1. c \in Settings /\ Decoded(c) = c
        BY <1>1, <1>2, <3>2 DEF EntryInv, Protocol, Decoded
      <4>2. Replacement = WithoutEntry(c, a, receipt[a])
        BY <3>2, <4>1 DEF Replacement
      <4> HIDE DEF c, a
      <4>3. /\ Replacement \in Settings
            /\ \A y \in Program : Holds(Replacement, y) <=> y # receipt[a].entry /\ Holds(c, y)
        BY <1>3, <1>4, <4>1, <4>2, HoldsRemoved
      <4>4. receipt[a].entry \in Program /\ config[a] = c
        BY <1>4, <1>5 DEF Receipt, c
      <4>5. FilesAgree(Replacement, safe.config[a], receipt[a], safe.receipt[a])
        BY <1>3, <3>0, <4>3, <4>4 DEF FilesAgree, Names
      <4> QED BY <4>3, <4>4, <4>5
    <3> QED BY <1>3, <3>1, <3>2
  <2>3. n = Replacement /\ \A b \in Client \ {a} : config'[b] = config[b]
    BY <1>3, <1>5 DEF EntryInv, Typed
  <2>4. Typed'
    <3>1. config' \in [Client -> Settings \cup {None, Malformed}]
      BY <1>3, <1>5, <2>2 DEF EntryInv, Typed
    <3> QED BY <1>1, <1>5, <2>1, <3>1 DEF EntryInv, Typed
  <2>5. Agree'
    <3> HIDE DEF a
    <3> QED BY <1>1, <1>3, <2>2, <2>3, AgreeStep DEF EntryInv
  <2>6. Protocol'
    <3>1. config'[a] = Replacement
      BY <2>3
    <3> HIDE DEF n, a, x
    <3>2. CASE hook.kind = "install"
      BY <1>1, <1>3, <1>9, <2>1, <3>1, <3>2 DEF Protocol, Steps
    <3>3. CASE hook.kind = "remove"
      BY <1>1, <1>3, <2>1, <2>2, <3>1, <3>3 DEF Protocol, Steps
    <3> QED BY <1>3, <3>2, <3>3
  <2> QED BY <2>4, <2>5, <2>6 DEF EntryInv
<1>6. CASE Give /\ UNCHANGED config
  <2>1. Agree'
    BY <1>1, <1>6 DEF EntryInv, Agree
  <2>2. CASE hook.kind = "install"
    <3>1. hook' = [hook EXCEPT !.pc = "undo"] /\ outcome' = outcome
      BY <1>6, <2>2 DEF Give, Goto
    <3>5. /\ hook'.by = hook.by /\ hook'.client = a /\ hook'.entry = x /\ hook'.seen = hook.seen
          /\ hook'.kind = "install" /\ hook'.pc = "undo" /\ hook' \in Held
      BY <2>2, <3>1 DEF EntryInv, Typed, Held
    <3>3. Protocol'
      <4> HIDE DEF a, x
      <4> QED BY <1>1, <1>3, <1>6, <1>9, <2>2, <3>5 DEF Protocol, Steps
    <3>4. Typed'
      BY <1>1, <1>6, <3>1, <3>5 DEF EntryInv, Typed
    <3> QED BY <2>1, <3>3, <3>4 DEF EntryInv
  <2>3. CASE hook.kind = "remove"
    <3>1. End("failed")
      BY <1>6, <2>3 DEF Give
    <3>2. Typed'
      BY <1>1, <1>2, <1>6, <3>1, EndStep DEF EntryInv, Typed
    <3> QED BY <1>2, <2>1, <3>1, <3>2, EndStep DEF EntryInv
  <2> QED BY <1>3, <2>2, <2>3
<1> QED BY <1>5, <1>6 DEF Replace

\* The settings of an installation are durable before it ends, those of a removal
\* before the receipt goes; a sync that fails leaves both as they are.
LEMMA SyncSettingsStep ==
    ASSUME EntryInv, SyncSettings, tools' \subseteq Client
    PROVE  EntryInv'
<1> DEFINE a == hook.client
           x == hook.entry
<1>1. hook.pc = "sync" /\ config' = config /\ receipt' = receipt
  BY DEF SyncSettings
<1>2. hook # NoHook
  BY <1>1, AtWork
<1>3. /\ a \in Client /\ hook.by \in Proc /\ x \in Program
      /\ hook.kind \in {"install", "remove"} /\ receipt[a] # None
      /\ hook.kind = "install" =>
            /\ ~Holds(hook.seen, x) /\ Names(receipt[a], x)
            /\ Holds(safe.config[a], x) => Holds(config[a], x)
      /\ hook.kind = "remove" => ~Holds(config[a], receipt[a].entry)
  BY <1>1, <1>2 DEF EntryInv, Protocol, Names
<1>4. CASE /\ safe' = [safe EXCEPT !.config[a] = config[a]]
           /\ \/ hook.kind = "install" /\ End("ok")
              \/ hook.kind = "remove" /\ Goto("drop") /\ UNCHANGED outcome
  <2>6. /\ safe'.receipt = safe.receipt /\ safe'.config[a] = config[a]
        /\ \A b \in Client \ {a} : safe'.config[b] = safe.config[b]
        /\ safe' \in [config : [Client -> Settings \cup {None, Malformed}],
                      receipt : [Client -> Receipt \cup {None}]]
    BY <1>3, <1>4 DEF EntryInv, Typed
  <2>7. Agree'
    <3>1. FilesAgree(config[a], config[a], receipt[a], safe.receipt[a])
      BY <1>3 DEF EntryInv, Agree, FilesAgree
    <3> HIDE DEF a
    <3> QED BY <1>1, <1>3, <2>6, <3>1, AgreeStep DEF EntryInv
  <2>8. CASE hook.kind = "install"
    <3>1. End("ok")
      BY <1>4, <2>8
    <3>2. Typed'
      BY <1>1, <1>2, <2>6, <3>1, EndStep DEF EntryInv, Typed
    <3> QED BY <1>2, <2>7, <3>1, <3>2, EndStep DEF EntryInv
  <2>9. CASE hook.kind = "remove"
    <3>1. hook' = [hook EXCEPT !.pc = "drop"] /\ outcome' = outcome
      BY <1>4, <2>9 DEF Goto
    <3>2. /\ hook'.by = hook.by /\ hook'.client = a /\ hook'.entry = x
          /\ hook'.kind = "remove" /\ hook'.pc = "drop" /\ hook' \in Held
      BY <2>9, <3>1 DEF EntryInv, Typed, Held
    <3>3. Typed'
      BY <1>1, <2>6, <3>1, <3>2 DEF EntryInv, Typed
    <3>4. Protocol'
      <4> HIDE DEF a, x
      <4> QED BY <1>1, <1>3, <2>6, <2>9, <3>2 DEF Protocol
    <3> QED BY <2>7, <3>3, <3>4 DEF EntryInv
  <2> QED BY <1>3, <2>8, <2>9
<1>5. CASE Give /\ UNCHANGED safe
  <2>1. Agree'
    BY <1>1, <1>5 DEF EntryInv, Agree
  <2>2. CASE hook.kind = "install"
    <3>1. hook' = [hook EXCEPT !.pc = "undo"] /\ outcome' = outcome
      BY <1>5, <2>2 DEF Give, Goto
    <3>2. /\ hook'.by = hook.by /\ hook'.client = a /\ hook'.entry = x /\ hook'.seen = hook.seen
          /\ hook'.kind = "install" /\ hook'.pc = "undo" /\ hook' \in Held
      BY <2>2, <3>1 DEF EntryInv, Typed, Held
    <3>3. Protocol'
      <4> HIDE DEF a, x
      <4> QED BY <1>1, <1>3, <1>5, <2>2, <3>2 DEF Protocol, Steps
    <3>4. Typed'
      BY <1>1, <1>5, <3>1, <3>2 DEF EntryInv, Typed
    <3> QED BY <2>1, <3>3, <3>4 DEF EntryInv
  <2>3. CASE hook.kind = "remove"
    <3>1. End("failed")
      BY <1>5, <2>3 DEF Give
    <3>2. Typed'
      BY <1>1, <1>2, <1>5, <3>1, EndStep DEF EntryInv, Typed
    <3> QED BY <1>2, <2>1, <3>1, <3>2, EndStep DEF EntryInv
  <2> QED BY <1>3, <2>2, <2>3
<1> QED BY <1>4, <1>5 DEF SyncSettings

\* The receipt goes when no power loss could bring back an entry that the settings
\* do not have.
LEMMA DropStep ==
    ASSUME EntryInv, Drop, tools' \subseteq Client
    PROVE  EntryInv'
<1> DEFINE a == hook.client
<1>1. hook.pc \in {"undo", "drop"} /\ config' = config /\ safe' = safe
  BY DEF Drop
<1>2. hook # NoHook
  BY <1>1, AtWork
<1>3. a \in Client /\ receipt[a] # None /\ (Holds(safe.config[a], receipt[a].entry) => Holds(config[a], receipt[a].entry))
  BY <1>1, <1>2 DEF EntryInv, Protocol, Names
<1>4. End("ok") \/ End("failed")
  BY DEF Drop
<1>5. /\ receipt' \in [Client -> Receipt \cup {None}]
      /\ receipt'[a] \in {None, receipt[a]}
      /\ \A b \in Client \ {a} : receipt'[b] = receipt[b]
  <2>1. CASE receipt' = [receipt EXCEPT ![a] = None]
    BY <1>3, <2>1 DEF EntryInv, Typed
  <2>2. CASE receipt' = receipt
    BY <2>2 DEF EntryInv, Typed
  <2> QED BY <2>1, <2>2 DEF Drop
<1>6. Agree'
  <2>1. FilesAgree(config[a], safe.config[a], receipt[a], safe.receipt[a])
    BY <1>3 DEF EntryInv, Agree
  <2>2. FilesAgree(config[a], safe.config[a], None, safe.receipt[a])
    BY <1>3, <2>1 DEF FilesAgree, Names
  <2>3. FilesAgree(config[a], safe.config[a], receipt'[a], safe.receipt[a])
    BY <1>5, <2>1, <2>2
  <2> HIDE DEF a
  <2> QED BY <1>1, <1>3, <1>5, <2>3, AgreeStep DEF EntryInv
<1>7. Typed' /\ Protocol'
  BY <1>1, <1>2, <1>4, <1>5, EndStep DEF EntryInv, Typed
<1> QED BY <1>6, <1>7 DEF EntryInv

\* A killed command leaves the files to the next one.
LEMMA KillStep ==
    ASSUME EntryInv, Kill, tools' \subseteq Client
    PROVE  EntryInv'
<1>1. hook' = NoHook /\ config' = config /\ receipt' = receipt /\ safe' = safe /\ outcome' = outcome
  BY DEF Kill
<1>2. Typed'
  BY <1>1 DEF EntryInv, Typed, NoHook, Held
<1>3. Agree'
  BY <1>1 DEF EntryInv, Agree
<1>4. Protocol'
  BY <1>1 DEF Protocol
<1> QED BY <1>2, <1>3, <1>4 DEF EntryInv

\* What a power loss leaves of each file.
LEMMA PowerLossFiles ==
    ASSUME PowerLoss
    PROVE  /\ hook' = NoHook /\ outcome' = outcome
           /\ safe' = [config |-> config', receipt |-> receipt']
           /\ DOMAIN config' = Client /\ DOMAIN receipt' = Client
           /\ config' = [a \in Client |-> config'[a]] /\ receipt' = [a \in Client |-> receipt'[a]]
           /\ \A a \in Client : /\ config'[a] \in {config[a], safe.config[a]}
                                /\ receipt'[a] \in {receipt[a], safe.receipt[a]}
<1>1. PICK lost \in SUBSET (Client \X {"config", "receipt"}) :
          /\ config'  = [a \in Client |-> IF <<a, "config">> \in lost THEN safe.config[a] ELSE config[a]]
          /\ receipt' = [a \in Client |-> IF <<a, "receipt">> \in lost THEN safe.receipt[a] ELSE receipt[a]]
          /\ safe' = [config |-> config', receipt |-> receipt']
  BY DEF PowerLoss, Revert
<1>2. hook' = NoHook /\ outcome' = outcome
  BY DEF PowerLoss
<1>3. ASSUME NEW a \in Client
      PROVE  /\ config'[a] \in {config[a], safe.config[a]}
             /\ receipt'[a] \in {receipt[a], safe.receipt[a]}
  BY <1>1
<1>4. /\ DOMAIN config' = Client /\ DOMAIN receipt' = Client
      /\ config' = [a \in Client |-> config'[a]] /\ receipt' = [a \in Client |-> receipt'[a]]
  BY <1>1
<1> QED BY <1>1, <1>2, <1>3, <1>4

\* A power loss leaves of each file what it was or what was synced.
LEMMA PowerLossStep ==
    ASSUME EntryInv, PowerLoss, tools' \subseteq Client
    PROVE  EntryInv'
<1>1. /\ hook' = NoHook /\ outcome' = outcome
      /\ safe' = [config |-> config', receipt |-> receipt']
      /\ config' = [a \in Client |-> config'[a]] /\ receipt' = [a \in Client |-> receipt'[a]]
      /\ \A a \in Client : /\ config'[a] \in {config[a], safe.config[a]}
                           /\ receipt'[a] \in {receipt[a], safe.receipt[a]}
  BY PowerLossFiles
<1>2. safe'.config = config' /\ safe'.receipt = receipt'
  BY <1>1
<1>3. /\ config' \in [Client -> Settings \cup {None, Malformed}]
      /\ receipt' \in [Client -> Receipt \cup {None}]
  <2>1. ASSUME NEW a \in Client
        PROVE  config'[a] \in Settings \cup {None, Malformed} /\ receipt'[a] \in Receipt \cup {None}
    BY <1>1 DEF EntryInv, Typed
  <2> QED BY <1>1, <2>1
<1>6. Typed'
  BY <1>1, <1>3 DEF EntryInv, Typed, NoHook, Held
<1>7. Agree'
  <2> SUFFICES ASSUME NEW a \in Client
               PROVE  FilesAgree(config'[a], config'[a], receipt'[a], receipt'[a])
    BY <1>2 DEF Agree
  <2> QED BY DEF FilesAgree
<1>8. Protocol'
  BY <1>1 DEF Protocol
<1> QED BY <1>6, <1>7, <1>8 DEF EntryInv

\* Other programs copy entries of Laodi only where they find them.
LEMMA EditStep ==
    ASSUME EntryInv, NEW b \in Client, Edit(b), tools' \subseteq Client
    PROVE  EntryInv'
<1>1. PICK c \in Edits(Decoded(config[b]), b) :
          config' = [config EXCEPT ![b] = c] /\ safe' = [safe EXCEPT !.config[b] = c]
  BY DEF Edit
<1>2. receipt' = receipt /\ hook' = hook /\ outcome' = outcome
  BY DEF Edit
<1>3. /\ c \in Settings \cup {None, Malformed}
      /\ \A x \in Program : Holds(c, x) => Holds(config[b], x)
  <2>1. config[b] \in Settings \cup {None, Malformed}
    BY DEF EntryInv, Typed
  <2> QED BY <2>1, HoldsEdited
<1>4. /\ config' \in [Client -> Settings \cup {None, Malformed}]
      /\ safe' \in [config : [Client -> Settings \cup {None, Malformed}],
                    receipt : [Client -> Receipt \cup {None}]]
      /\ config'[b] = c /\ safe'.config[b] = c /\ safe'.receipt = safe.receipt
      /\ \A a \in Client \ {b} : config'[a] = config[a] /\ safe'.config[a] = safe.config[a]
  BY <1>1, <1>3 DEF EntryInv, Typed
<1>5. Typed'
  BY <1>2, <1>4 DEF EntryInv, Typed
<1>6. Agree'
  <2>1. FilesAgree(c, c, receipt[b], safe.receipt[b])
    BY <1>3 DEF EntryInv, Agree, FilesAgree
  <2> QED BY <1>2, <1>4, <2>1, AgreeStep DEF EntryInv
<1>7. Protocol'
  <2>1. ASSUME NEW a \in Client, NEW x \in Program
        PROVE  /\ ~Holds(config[a], x) => ~Holds(config'[a], x)
               /\ ~Holds(config[a], x) /\ ~Holds(safe.config[a], x) => ~Holds(safe'.config[a], x)
               /\ (Holds(safe.config[a], x) => Holds(config[a], x))
                  => (Holds(safe'.config[a], x) => Holds(config'[a], x))
    <3>1. CASE a = b
      BY <1>3, <1>4, <3>1
    <3>2. CASE a # b
      BY <1>4, <3>2
    <3> QED BY <3>1, <3>2
  <2>2. \A a \in Client : receipt[a] # None => receipt[a].entry \in Program
    BY DEF EntryInv, Typed, Receipt
  <2> QED BY <1>2, <1>4, <2>1, <2>2 DEF EntryInv, Protocol
<1> QED BY <1>5, <1>6, <1>7 DEF EntryInv

\* Every step of the specification.
LEMMA NextStep ==
    ASSUME EntryInv, [HookNext]_hookVars
    PROVE  EntryInv'
<1>1. CASE UNCHANGED hookVars
  <2>1. /\ tools' = tools /\ config' = config /\ receipt' = receipt /\ safe' = safe
        /\ hook' = hook /\ outcome' = outcome
    BY <1>1 DEF hookVars
  <2>2. Typed'
    BY <2>1 DEF EntryInv, Typed
  <2>3. Agree'
    BY <2>1 DEF EntryInv, Agree
  <2>4. Protocol'
    BY <2>1 DEF EntryInv, Protocol
  <2> QED BY <2>2, <2>3, <2>4 DEF EntryInv
<1>2. CASE HookNext
  <2>1. tools' = tools /\ tools \subseteq Client
    BY <1>2 DEF HookNext, EntryInv, Typed
  <2>2. CASE HookStep
    BY <2>1, <2>2, ReadInstallStep, PublishStep, SyncReceiptStep, ReadRemoveStep, ReplaceStep,
       SyncSettingsStep, DropStep DEF HookStep
  <2>3. CASE Command
    <3>1. PICK p \in Proc, kind \in {"install", "remove"}, a \in tools, x \in Program :
              BeginHook(p, kind, a, x)
      BY <2>3 DEF Command
    <3> QED BY <2>1, <3>1, BeginStep
  <2>4. CASE Kill
    BY <2>1, <2>4, KillStep
  <2>5. CASE PowerLoss
    BY <2>1, <2>5, PowerLossStep
  <2>6. CASE \E a \in tools : Edit(a)
    BY <2>1, <2>6, EditStep
  <2> QED BY <1>2, <2>2, <2>3, <2>4, <2>5, <2>6 DEF HookNext
<1> QED BY <1>1, <1>2

-----------------------------------------------------------------------------
(* Theorems. *)

\* The inductive invariant holds in every state.
THEOREM HookInvariant == HookSpec => []EntryInv
<1>1. HookInit => EntryInv
  BY InitHook
<1>2. EntryInv /\ [HookNext]_hookVars => EntryInv'
  BY NextStep
<1> QED BY <1>1, <1>2, PTL DEF HookSpec

\* EntryHasReceipt, client by client and program by program.
LEMMA ReceiptsNamed ==
    Typed => (EntryHasReceipt <=> \A a \in Client, x \in Program : Holds(config[a], x) => Names(receipt[a], x))
BY DEF EntryHasReceipt, Holds, Has, Names, Typed

\* The steps that write settings or receipts, and those that write neither.
Writes ==
    \/ HookStep \/ PowerLoss \/ (\E b \in Client : Edit(b))
    \/ config' = config /\ receipt' = receipt

\* A step that is no undo after a change of the settings parts no entry from its
\* receipt.
LEMMA PartedStep ==
    ASSUME EntryInv, EntryInv', EntryHasReceipt, Writes,
           ~(hook.pc = "undo" /\ config[hook.client] # hook.seen)
    PROVE  EntryHasReceipt'
<1>1. \A a \in Client, x \in Program : Holds(config[a], x) => Names(receipt[a], x)
  BY ReceiptsNamed DEF EntryInv
<1> SUFFICES ASSUME NEW a \in Client, NEW x \in Program, Holds(config'[a], x)
             PROVE  Names(receipt'[a], x)
  <2>1. Typed' => (EntryHasReceipt' <=>
            \A b \in Client, y \in Program : Holds(config'[b], y) => Names(receipt'[b], y))
    BY DEF EntryHasReceipt, Holds, Has, Names, Typed
  <2> QED BY <2>1 DEF EntryInv
<1>2. CASE config' = config /\ receipt' = receipt
  BY <1>1, <1>2
<1>3. CASE PublishReceipt
  <2>1. /\ hook.pc = "receipt" /\ config' = config
        /\ \A b \in Client \ {hook.client} : receipt'[b] = receipt[b]
    <3>1. receipt \in [Client -> Receipt \cup {None}]
      BY DEF EntryInv, Typed
    <3>2. /\ hook.pc = "receipt" /\ config' = config
          /\ \/ receipt' = receipt
             \/ receipt' = [receipt EXCEPT ![hook.client] =
                               ReceiptOf(Decoded(hook.seen), hook.client, hook.entry)]
      BY <1>3 DEF PublishReceipt
    <3> QED BY ONLY <3>1, <3>2
  <2>2. receipt[hook.client] = None
    BY <2>1, AtWork DEF EntryInv, Protocol
  <2>3. Names(receipt[a], x)
    BY <1>1, <2>1
  <2>4. a # hook.client
    BY <2>2, <2>3 DEF Names
  <2> QED BY <2>1, <2>3, <2>4
<1>4. CASE Replace
  <2> DEFINE b == hook.client
  <2>1. hook.pc = "replace" /\ receipt' = receipt
    BY <1>4 DEF Replace
  <2>2. CASE config' = config
    BY <1>2, <2>1, <2>2
  <2>3. CASE config[b] = hook.seen /\ config' = [config EXCEPT ![b] = Replacement]
    <3>1. hook # NoHook
      BY <2>1, AtWork
    <3>2. /\ b \in Client /\ hook.kind \in {"install", "remove"} /\ hook.entry \in Program
          /\ receipt[b] # None
          /\ hook.kind = "install" => Names(receipt[b], hook.entry) /\ ~Holds(hook.seen, hook.entry)
          /\ hook.kind = "remove" => hook.seen \in Settings
      BY <2>1, <3>1 DEF EntryInv, Protocol, Names
    <3>3. receipt[b] \in Receipt /\ hook.seen \in Settings \cup {None}
      BY <3>2 DEF EntryInv, Typed, Held
    <3>4. config'[b] = Replacement /\ \A c \in Client \ {b} : config'[c] = config[c]
      BY <2>3, <3>2 DEF EntryInv, Typed
    <3>5. CASE a # b
      BY <1>1, <2>1, <3>4, <3>5
    <3>6. CASE a = b /\ hook.kind = "install"
      <4>1. Replacement = WithEntry(Decoded(hook.seen), b, hook.entry)
        BY <3>6 DEF Replacement
      <4> HIDE DEF b
      <4>2. x # hook.entry => Holds(hook.seen, x)
        BY <3>2, <3>3, <3>4, <3>6, <4>1, HoldsInstalled
      <4>3. x # hook.entry => Names(receipt[a], x)
        BY <1>1, <2>3, <3>6, <4>2
      <4> QED BY <2>1, <3>2, <3>6, <4>3
    <3>7. CASE a = b /\ hook.kind = "remove"
      <4>1. Replacement = WithoutEntry(hook.seen, b, receipt[b])
        BY <3>2, <3>7 DEF Replacement, Decoded
      <4> HIDE DEF b
      <4>2. Holds(hook.seen, x)
        <5>1. Holds(WithoutEntry(hook.seen, b, receipt[b]), x)
          BY <3>4, <3>7, <4>1
        <5>2. b \in Client /\ receipt[b] \in Receipt /\ hook.seen \in Settings
          BY <3>2, <3>3, <3>7
        <5> QED BY ONLY <5>1, <5>2, x \in Program, HoldsRemoved
      <4> QED BY <1>1, <2>1, <2>3, <3>7, <4>2
    <3> QED BY <3>2, <3>5, <3>6, <3>7
  <2> QED BY <1>4, <2>2, <2>3 DEF Replace
<1>5. CASE Drop
  <2> DEFINE b == hook.client
  <2>1. /\ hook.pc \in {"undo", "drop"} /\ config' = config
        /\ \A c \in Client \ {b} : receipt'[c] = receipt[c]
    BY <1>5 DEF Drop, EntryInv, Typed
  <2>2. hook # NoHook
    BY <2>1, AtWork
  <2>3. CASE hook.pc = "undo"
    <3>1. Names(receipt[b], hook.entry) /\ ~Holds(hook.seen, hook.entry)
      BY <2>2, <2>3 DEF EntryInv, Protocol
    <3>2. config[b] = hook.seen
      BY <2>3
    <3> QED BY <1>1, <2>1, <3>1, <3>2 DEF Names
  <2>4. CASE hook.pc = "drop"
    <3>1. ~Holds(config[b], receipt[b].entry)
      BY <2>2, <2>4 DEF EntryInv, Protocol
    <3> QED BY <1>1, <2>1, <3>1 DEF Names
  <2> QED BY <2>1, <2>3, <2>4
<1>6. CASE PowerLoss
  <2>1. config'[a] \in {config[a], safe.config[a]} /\ receipt'[a] \in {receipt[a], safe.receipt[a]}
    BY <1>6, PowerLossFiles
  <2>2. FilesAgree(config[a], safe.config[a], receipt[a], safe.receipt[a])
    BY DEF EntryInv, Agree
  <2>3. Names(receipt[a], x)
    BY <1>1, <2>1, <2>2 DEF FilesAgree
  <2>4. Names(safe.receipt[a], x)
    BY <2>1, <2>2, <2>3 DEF FilesAgree
  <2> QED BY <2>1, <2>3, <2>4
<1>7. CASE \E b \in Client : Edit(b)
  <2>1. PICK b \in Client : Edit(b)
    BY <1>7
  <2>2. PICK c \in Edits(Decoded(config[b]), b) : config' = [config EXCEPT ![b] = c]
    BY <2>1 DEF Edit
  <2>3. receipt' = receipt
    BY <2>1 DEF Edit
  <2>4. \A y \in Program : Holds(c, y) => Holds(config[b], y)
    BY HoldsEdited DEF EntryInv, Typed
  <2>5. config'[a] = IF a = b THEN c ELSE config[a]
    BY <2>2 DEF EntryInv, Typed
  <2> QED BY <1>1, <2>3, <2>4, <2>5
<1>8. CASE ReadInstall \/ SyncReceipt \/ ReadRemove \/ SyncSettings
  BY <1>2, <1>8 DEF ReadInstall, SyncReceipt, ReadRemove, SyncSettings
<1> QED BY <1>2, <1>3, <1>4, <1>5, <1>6, <1>7, <1>8 DEF HookStep, Writes

\* No client's settings get an entry without a receipt that names it, at whatever
\* operation a command is killed, fails or meets an edit, unless an installation
\* that could not replace or sync the settings takes its receipt back although they
\* are not as it has read them.
THEOREM EntriesPartedOnlyByUndo == HookSpec => PartedOnlyByUndo
<1>1. EntryInv /\ EntryInv' /\ [HookNext]_hookVars
      => [EntryHasReceipt => EntryHasReceipt' \/
             (hook.pc = "undo" /\ config[hook.client] # hook.seen)]_hookVars
  <2> SUFFICES ASSUME EntryInv, EntryInv', [HookNext]_hookVars, EntryHasReceipt,
                      ~(hook.pc = "undo" /\ config[hook.client] # hook.seen)
               PROVE  EntryHasReceipt'
    OBVIOUS
  <2>1. Writes
    BY DEF Writes, EntryInv, Typed, HookNext, hookVars, Command, BeginHook, Kill
  <2> QED BY <2>1, PartedStep
<1> QED BY <1>1, HookInvariant, PTL DEF HookSpec, PartedOnlyByUndo

\* The types of the invariant are those of the settings, receipts and commands.
LEMMA EntryTypes == EntryInv => HookTypeOK
<1> SUFFICES ASSUME Typed PROVE HookTypeOK
  BY DEF EntryInv
<1>0. ASSUME NEW a \in Client
      PROVE  /\ config[a] \in Settings \cup {None, Malformed}
             /\ safe.config[a] \in Settings \cup {None, Malformed}
             /\ receipt[a] \in Receipt \cup {None}
             /\ safe.receipt[a] \in Receipt \cup {None}
  BY DEF Typed
<1>1. \A a \in Client : {config[a], safe.config[a]} \subseteq Settings \cup {None, Malformed}
  BY ONLY <1>0
<1>4. \A a \in Client : {receipt[a], safe.receipt[a]} \subseteq Receipt \cup {None}
  BY ONLY <1>0
<1>2. /\ hook.by \in Proc \cup {None} /\ hook.kind \in {"install", "remove", None}
      /\ hook.pc \in {"idle", "read", "receipt", "sync receipt", "replace", "sync", "undo", "drop"}
      /\ hook.client \in Client \cup {None} /\ hook.entry \in Program \cup {None}
      /\ hook.seen \in Settings \cup {None}
  BY DEF Typed, Held
<1>3. outcome \in [Proc -> {None, "ok", "failed"}]
  BY DEF Typed
<1> QED BY ONLY <1>1, <1>2, <1>3, <1>4 DEF HookTypeOK

\* Settings, receipts and the state of a command keep their types.
THEOREM HookTypes == HookSpec => []HookTypeOK
BY EntryTypes, HookInvariant, PTL

\* Settings as JSON allows them: events are named only in the map of events, which
\* is a part of hooks, and for Claude Code is hooks itself.
WellFormed(c, a) ==
    /\ c.events => c.hooks
    /\ (\E e \in Event : c.at[e] # None) => c.events
    /\ IF a = "zcode" THEN ~c.hooks => c.switch = "absent" ELSE c.hooks = c.events

\* UninstallHookConfig takes away exactly what installHookConfig added: names, maps
\* and switch are as they were, whatever else the file holds.
THEOREM RemovalUndoesInstallation ==
    ASSUME NEW c \in Settings, NEW a \in Client, NEW x \in Program,
           WellFormed(c, a), Acceptable(c, a, x)
    PROVE  WithoutEntry(WithEntry(c, a, x), a, ReceiptOf(c, a, x)) = c
<1> DEFINE w == WithEntry(c, a, x)
           r == ReceiptOf(c, a, x)
           left(e) == [Named(w, e) EXCEPT ![r.entry] = 0]
           at == [e \in Event |-> IF left(e) = NoEntries /\ e \in r.names THEN None ELSE left(e)]
           d  == [w EXCEPT !.at = at]
           u  == WithoutEntry(w, a, r)
<1>1. r.entry = x /\ r.names = {e \in Event : c.at[e] = None}
  BY DEF ReceiptOf
<1>2. ASSUME NEW e \in Event
      PROVE  left(e) = Named(c, e) /\ Named(c, e) \in [Entry -> 0..2]
  <2>1. Named(c, e) \in [Entry -> 0..2] /\ Named(c, e)[x] = 0
    BY DEF Acceptable, Occurrences, Named, NoEntries, Settings, Entry
  <2>2. w.at[e] = [Named(c, e) EXCEPT ![x] = @ + 1]
    BY DEF WithEntry
  <2>3. [Named(c, e) EXCEPT ![x] = @ + 1] # None
    <3>1. [Named(c, e) EXCEPT ![x] = @ + 1] \in [Entry -> 0..2]
      BY <2>1 DEF Entry
    <3> QED BY <3>1
  <2>4. Named(w, e) = [Named(c, e) EXCEPT ![x] = @ + 1]
    BY <2>2, <2>3 DEF Named
  <2> QED BY <1>1, <2>1, <2>4
<1>3. at = c.at
  <2>1. ASSUME NEW e \in Event PROVE at[e] = c.at[e]
    BY <1>1, <1>2 DEF Named
  <2>2. c.at \in [Event -> {None} \cup [Entry -> 0..2]]
    BY DEF Settings
  <2> QED BY <2>1, <2>2
<1>4. u = [hooks |-> u.hooks, events |-> u.events, switch |-> u.switch, at |-> at]
  BY DEF WithoutEntry
<1>5. HasEntries(d) <=> HasEntries(c)
  <2>1. d.at = c.at
    BY <1>3 DEF WithEntry
  <2> QED BY <2>1 DEF HasEntries, Occurrences
<1>6. u.switch = c.switch
  <2>1. u.switch = IF a = "zcode" /\ ~HasEntries(d) /\ w.switch = "on" THEN r.switch ELSE w.switch
    BY DEF WithoutEntry
  <2>2. /\ w.switch = IF a = "zcode" THEN "on" ELSE c.switch
        /\ r.switch = IF a = "zcode" THEN c.switch ELSE "absent"
    BY DEF WithEntry, ReceiptOf
  <2>3. a = "zcode" => c.switch = "on" \/ ~HasEntries(c)
    BY DEF Acceptable
  <2> HIDE DEF u, w, r, d
  <2>4. CASE a = "zcode"
    BY <1>5, <2>1, <2>2, <2>3, <2>4
  <2>5. CASE a # "zcode"
    BY <2>1, <2>2, <2>5
  <2> QED BY <2>4, <2>5
<1> DEFINE nameless == \A e \in Event : at[e] = None
<1>7. u.events = c.events
  <2>1. u.events = ~(IF a = "zcode" THEN r.events /\ nameless ELSE r.hooks /\ nameless)
    BY DEF WithoutEntry
  <2>2. r.events = (a = "zcode" /\ ~c.events) /\ r.hooks = ~c.hooks
    BY DEF ReceiptOf
  <2>3. ~c.events => nameless
    BY <1>3 DEF WellFormed
  <2>4. c.events \in BOOLEAN /\ c.hooks \in BOOLEAN
    BY DEF Settings
  <2>5. a # "zcode" => c.hooks = c.events
    BY DEF WellFormed
  <2>6. CASE c.events = TRUE
    <3>1. ~r.events /\ (a # "zcode" => ~r.hooks)
      BY <2>2, <2>4, <2>5, <2>6
    <3>2. u.events = TRUE
      BY <2>1, <3>1
    <3> QED BY <2>6, <3>2
  <2>7. CASE c.events = FALSE
    <3>1. (a = "zcode" => r.events) /\ (a # "zcode" => r.hooks)
      BY <2>2, <2>4, <2>5, <2>7
    <3>2. u.events = FALSE
      BY <2>1, <2>3, <2>7, <3>1
    <3> QED BY <2>7, <3>2
  <2> QED BY <2>4, <2>6, <2>7
<1>8. u.hooks = c.hooks
  <2>1. u.hooks = ~(r.hooks /\ ~u.events /\ (a = "zcode" => u.switch = "absent"))
    BY DEF WithoutEntry
  <2>2. r.hooks = ~c.hooks
    BY DEF ReceiptOf
  <2>3. c.events \in BOOLEAN /\ c.hooks \in BOOLEAN
    BY DEF Settings
  <2>4. (c.events => c.hooks) /\ (a = "zcode" /\ ~c.hooks => c.switch = "absent")
    BY DEF WellFormed
  <2> HIDE DEF u, r
  <2> QED BY <1>6, <1>7, <2>1, <2>2, <2>3, <2>4
<1>9. c = [hooks |-> c.hooks, events |-> c.events, switch |-> c.switch, at |-> c.at]
  BY DEF Settings
<1> QED BY <1>3, <1>4, <1>6, <1>7, <1>8, <1>9

-----------------------------------------------------------------------------
(* The hooks of others, and what a removal leaves.                          *)
(*                                                                         *)
(* ForeignKept and Undone speak of steps.  They need of the states: every   *)
(* file is one that JSON allows (WellFormed), a power loss leaves the hooks *)
(* of others as they are (Alike), entries that a receipt names and nobody   *)
(* edited are those of an installation with that receipt (Faithful), and what a command knows    *)
(* of the file it has read (Knows, Owns, Returned).                         *)

Formed(c, a) == c \in Settings => WellFormed(c, a)

Alike ==
    \A a \in Client : \A c, d \in {config[a], safe.config[a]} : Formed(c, a) /\ View(c, a) = View(d, a)

\* c is what an installation made of the settings s, r its receipt.
Installed(c, r, s, a) ==
    \E d \in Settings, x \in Program :
        /\ d = Decoded(s) /\ WellFormed(d, a) /\ Acceptable(d, a, x)
        /\ c = WithEntry(d, a, x) /\ r = ReceiptOf(d, a, x)

Faithful ==
    \A a \in Client : \A s \in {before[a].settings} : ~before[a].edited =>
        \A c \in {config[a], safe.config[a]}, r \in {receipt[a], safe.receipt[a]} :
            r # None /\ Holds(c, r.entry) => Installed(c, r, s, a)

Knows ==
    \A a \in Client, x \in Program, s \in Settings \cup {None} :
        /\ hook.client = a /\ hook.entry = x /\ hook.seen = s /\ hook.kind = "install"
        /\ hook.pc \in {"receipt", "sync receipt", "replace"}
        => /\ WellFormed(Decoded(s), a) /\ Acceptable(Decoded(s), a, x)
           /\ hook.pc # "receipt" => receipt[a] = ReceiptOf(Decoded(s), a, x)

Owns ==
    \A a \in Client, s \in Settings, r \in Receipt :
        /\ hook.client = a /\ hook.seen = s /\ receipt[a] = r
        /\ hook.kind = "remove" /\ hook.pc = "replace"
        => Owned(s, r)

Returned ==
    \A a \in Client : \A c \in {config[a]}, s \in {before[a].settings} :
        /\ hook.client = a /\ hook.kind = "remove" /\ hook.pc \in {"sync", "drop"}
        /\ ~before[a].edited
        => Decoded(c) = Decoded(s)

History ==
    /\ before \in [Client -> [settings : Settings \cup {None}, edited : BOOLEAN]]
    /\ budget \in [commands : Nat, edits : Nat, faults : Nat, kills : Nat]

KeptInv == History /\ Alike /\ Faithful /\ Knows /\ Owns /\ Returned

-----------------------------------------------------------------------------
(* Lemmas. *)

\* An absent file is seen as an empty one.
LEMMA ViewDecoded ==
    ASSUME NEW c \in Settings \cup {None}, NEW a \in Client
    PROVE  View(c, a) = View(Decoded(c), a)
BY EmptyMade DEF View, Decoded

\* A view of settings, part by part.
LEMMA ViewSame ==
    ASSUME NEW c \in Settings, NEW d \in Settings, NEW a \in Client,
           \A e \in Event : Occurrences(c, e, Foreign) = Occurrences(d, e, Foreign),
           (\E e \in Event : Occurrences(c, e, Foreign) > 0) => (Enabled(c, a) <=> Enabled(d, a)),
           a # "zcode" => c.switch = d.switch
    PROVE  View(c, a) = View(d, a)
<1>1. Decoded(c) = c /\ Decoded(d) = d /\ c # Malformed /\ d # Malformed
  BY DEF Decoded
<1>2. [e \in Event |-> Occurrences(c, e, Foreign)] = [e \in Event |-> Occurrences(d, e, Foreign)]
  OBVIOUS
<1> DEFINE f == [e \in Event |-> Occurrences(c, e, Foreign)]
<1>3. View(c, a) = [entries |-> f, run |-> (\E e \in Event : f[e] > 0) /\ Enabled(c, a),
                    off |-> a # "zcode" /\ c.switch = "off"]
  BY <1>1 DEF View
<1>4. View(d, a) = [entries |-> f, run |-> (\E e \in Event : f[e] > 0) /\ Enabled(d, a),
                    off |-> a # "zcode" /\ d.switch = "off"]
  BY <1>1, <1>2 DEF View
<1>5. ((\E e \in Event : f[e] > 0) /\ Enabled(c, a)) = ((\E e \in Event : f[e] > 0) /\ Enabled(d, a))
  <2>1. \A e \in Event : f[e] = Occurrences(c, e, Foreign)
    OBVIOUS
  <2> HIDE DEF f
  <2> QED BY <2>1
<1>6. (a # "zcode" /\ c.switch = "off") = (a # "zcode" /\ d.switch = "off")
  OBVIOUS
<1> HIDE DEF f
<1> QED BY <1>3, <1>4, <1>5, <1>6

\* An installation leaves the hooks of others as they are.
LEMMA ViewInstalled ==
    ASSUME NEW c \in Settings, NEW a \in Client, NEW x \in Program, WellFormed(c, a), Acceptable(c, a, x)
    PROVE  View(WithEntry(c, a, x), a) = View(c, a)
<1> DEFINE w == WithEntry(c, a, x)
<1>1. w \in Settings
  BY WithEntryMade, Zenon DEF Acceptable
<1>2. ASSUME NEW e \in Event
      PROVE  Occurrences(w, e, Foreign) = Occurrences(c, e, Foreign)
  <2>1. w.at[e] = [Named(c, e) EXCEPT ![x] = @ + 1]
    BY DEF WithEntry
  <2>2. Named(c, e) \in [Entry -> 0..2] /\ Named(c, e)[x] = 0
    BY DEF Acceptable, Occurrences, Named, NoEntries, Settings, Entry
  <2>3. Named(c, e)[Foreign] = Occurrences(c, e, Foreign)
    BY DEF Occurrences, Named, NoEntries, Settings, Entry
  <2>4. [Named(c, e) EXCEPT ![x] = @ + 1] \in [Entry -> 0..2]
    BY <2>2 DEF Entry
  <2>5. w.at[e][Foreign] = Named(c, e)[Foreign]
    BY <2>1, <2>2 DEF Entry
  <2> QED BY <2>1, <2>3, <2>4, <2>5 DEF Occurrences
<1>3. ASSUME NEW e \in Event, Occurrences(c, e, Foreign) > 0
      PROVE  c.hooks /\ c.events /\ HasEntries(c)
  <2>1. c.at[e] # None
    BY <1>3 DEF Occurrences
  <2>2. HasEntries(c)
    BY <1>3 DEF HasEntries, Entry
  <2> QED BY <2>1, <2>2 DEF WellFormed
<1>4. w.hooks /\ w.events /\ w.switch = IF a = "zcode" THEN "on" ELSE c.switch
  BY DEF WithEntry
<1>5. (\E e \in Event : Occurrences(w, e, Foreign) > 0) => (Enabled(w, a) <=> Enabled(c, a))
  BY <1>2, <1>3, <1>4 DEF Enabled, HasMaps, Acceptable
<1> QED BY <1>1, <1>2, <1>4, <1>5, ViewSame

\* A removal leaves the hooks of others as they are.
LEMMA ViewRemoved ==
    ASSUME NEW c \in Settings, NEW a \in Client, NEW r \in Receipt, Owned(c, r)
    PROVE  View(WithoutEntry(c, a, r), a) = View(c, a)
<1> DEFINE left(e) == [Named(c, e) EXCEPT ![r.entry] = 0]
           at == [e \in Event |-> IF left(e) = NoEntries /\ e \in r.names THEN None ELSE left(e)]
           d  == [c EXCEPT !.at = at]
           w  == WithoutEntry(c, a, r)
           nameless == \A e \in Event : at[e] = None
<1>1. w \in Settings
  BY WithoutEntryMade
<1>2. ASSUME NEW e \in Event
      PROVE  /\ left(e) \in [Entry -> 0..2]
             /\ left(e)[Foreign] = Occurrences(c, e, Foreign)
             /\ NoEntries[Foreign] = 0
  BY DEF Named, NoEntries, Occurrences, Settings, Entry, Receipt
<1>3. w.at = at /\ d.at = at
  BY DEF WithoutEntry, Settings
<1>4. ASSUME NEW e \in Event
      PROVE  /\ Occurrences(w, e, Foreign) = Occurrences(c, e, Foreign)
             /\ Occurrences(d, e, Foreign) = Occurrences(c, e, Foreign)
             /\ Occurrences(c, e, Foreign) > 0 => at[e] # None
  <2>1. left(e) # None
    BY <1>2
  <2>2. at[e] = IF left(e) = NoEntries /\ e \in r.names THEN None ELSE left(e)
    OBVIOUS
  <2> HIDE DEF at, left, w, d
  <2> QED BY <1>2, <1>3, <2>1, <2>2 DEF Occurrences
<1>5. w.switch = IF a = "zcode" /\ ~HasEntries(d) /\ c.switch = "on" THEN r.switch ELSE c.switch
  BY DEF WithoutEntry
<1>6. /\ w.events = ~(IF a = "zcode" THEN r.events /\ nameless ELSE r.hooks /\ nameless)
      /\ w.hooks = ~(r.hooks /\ ~w.events /\ (a = "zcode" => w.switch = "absent"))
  BY DEF WithoutEntry
<1>7. ASSUME NEW e \in Event, Occurrences(c, e, Foreign) > 0
      PROVE  w.hooks /\ w.events /\ w.switch = c.switch
  <2>1. HasEntries(d)
    BY <1>4, <1>7 DEF HasEntries, Entry
  <2>2. ~nameless
    BY <1>4, <1>7
  <2> HIDE DEF nameless, w, d
  <2> QED BY <1>5, <1>6, <2>1, <2>2
<1> HIDE DEF w, d, nameless
<1>8. (\E e \in Event : Occurrences(w, e, Foreign) > 0) => (Enabled(w, a) <=> Enabled(c, a))
  BY <1>4, <1>7 DEF Enabled, HasMaps, Owned
<1>9. a # "zcode" => w.switch = c.switch
  BY <1>5
<1> QED BY <1>1, <1>4, <1>8, <1>9, ViewSame DEF w

\* Installation and removal write what JSON allows.
LEMMA FormedWritten ==
    ASSUME NEW c \in Settings, NEW a \in Client
    PROVE  /\ \A x \in Program : WellFormed(WithEntry(c, a, x), a)
           /\ \A r \in Receipt : WellFormed(WithoutEntry(c, a, r), a)
<1>1. ASSUME NEW x \in Program
      PROVE  WellFormed(WithEntry(c, a, x), a)
  BY DEF WellFormed, WithEntry
<1>2. ASSUME NEW r \in Receipt
      PROVE  WellFormed(WithoutEntry(c, a, r), a)
  <2> DEFINE left(e) == [Named(c, e) EXCEPT ![r.entry] = 0]
             at == [e \in Event |-> IF left(e) = NoEntries /\ e \in r.names THEN None ELSE left(e)]
             w  == WithoutEntry(c, a, r)
             nameless == \A e \in Event : at[e] = None
  <2>1. w.at = at
    BY DEF WithoutEntry
  <2>2. /\ w.events = ~(IF a = "zcode" THEN r.events /\ nameless ELSE r.hooks /\ nameless)
        /\ w.hooks = ~(r.hooks /\ ~w.events /\ (a = "zcode" => w.switch = "absent"))
    BY DEF WithoutEntry
  <2>3. (\E e \in Event : w.at[e] # None) => ~nameless
    BY <2>1
  <2> HIDE DEF w, nameless
  <2>4. r.hooks \in BOOLEAN /\ r.events \in BOOLEAN
    BY DEF Receipt
  <2> QED BY <2>2, <2>3, <2>4 DEF WellFormed, w
<1> QED BY <1>1, <1>2

\* Other programs write what JSON allows.
LEMMA FormedEdited ==
    ASSUME NEW d \in Settings \cup {None, Malformed}, NEW a \in Client, Formed(d, a),
           NEW c \in Edits(Decoded(d), a)
    PROVE  Formed(c, a)
<1> SUFFICES ASSUME c \in Settings PROVE WellFormed(c, a)
  BY DEF Formed
<1> DEFINE b == Decoded(d)
<1>0. WellFormed(Empty, a) /\ Decoded(Malformed) = Malformed /\ None # Malformed
  BY DEF WellFormed, Empty, Decoded
<1>1. CASE c = Empty
  BY <1>0, <1>1
<1>2. CASE c # Empty
  <2>1. d # Malformed
    BY <1>0, <1>2 DEF Edits
  <2>2. b \in Settings /\ WellFormed(b, a)
    BY <1>0, <2>1, EmptyMade DEF Decoded, Formed
  <2>3. c \in Switched(b, a) \cup OtherHooks(b) \cup Copies(b)
    BY <1>2, <2>2 DEF Edits
  <2> HIDE DEF b
  <2>4. CASE c \in Switched(b, a)
    BY <2>2, <2>4 DEF Switched, Settings, WellFormed
  <2>5. CASE c \in OtherHooks(b)
    <3>1. PICK e \in Event, n \in 0..1 : c = [Opened(b) EXCEPT !.at[e] = Put(b, e, Foreign, n)]
      BY <2>5 DEF OtherHooks
    <3>2. c.hooks = TRUE /\ c.events = TRUE
      BY <2>2, <3>1 DEF Opened, Settings
    <3> QED BY <3>2 DEF WellFormed
  <2>6. CASE c \in Copies(b)
    <3>1. PICK n \in 0..2, e \in {f \in Event : b.at[f] # None}, x \in Found(b) :
              c = [b EXCEPT !.at[e] = Put(b, e, x, n)]
      BY <2>6 DEF Copies
    <3>2. c.hooks = b.hooks /\ c.events = b.events /\ c.switch = b.switch /\ b.at[e] # None
      BY <2>2, <3>1 DEF Settings
    <3> QED BY <2>2, <3>2 DEF WellFormed
  <2> QED BY <2>3, <2>4, <2>5, <2>6
<1> QED BY <1>1, <1>2

\* Settings in use are what JSON allows.
LEMMA FormedUsed ==
    ASSUME NEW a \in Client, NEW c \in Used(a)
    PROVE  Formed(c, a)
<1> SUFFICES ASSUME c \in Settings PROVE WellFormed(c, a)
  BY DEF Formed
<1>1. CASE c = Empty
  BY <1>1 DEF WellFormed, Empty
<1>2. CASE c = [Empty EXCEPT !.hooks = TRUE, !.events = TRUE, !.switch = "off"]
  BY <1>2 DEF WellFormed, Empty
<1>3. CASE c = [Empty EXCEPT !.hooks = TRUE, !.switch = "on"] /\ a = "zcode"
  BY <1>3 DEF WellFormed, Empty
<1>4. CASE c \in {[hooks |-> TRUE, events |-> TRUE, switch |-> s,
                  at |-> [e \in Event |-> IF e \in named THEN [NoEntries EXCEPT ![Foreign] = n] ELSE None]] :
                     s \in {"absent", "on"}, named \in SUBSET Event, n \in 0..1}
  <2>1. c.hooks = TRUE /\ c.events = TRUE
    BY <1>4
  <2> QED BY <2>1 DEF WellFormed
<1>5. c # None
  OBVIOUS
<1>6. c \in {None, Empty, [Empty EXCEPT !.hooks = TRUE, !.events = TRUE, !.switch = "off"]}
        \cup {[hooks |-> TRUE, events |-> TRUE, switch |-> s,
               at |-> [e \in Event |-> IF e \in named THEN [NoEntries EXCEPT ![Foreign] = n] ELSE None]] :
                  s \in {"absent", "on"}, named \in SUBSET Event, n \in 0..1}
        \cup (IF a = "zcode" THEN {[Empty EXCEPT !.hooks = TRUE, !.switch = "on"]} ELSE {})
  <2>1. c \in Used(a)
    OBVIOUS
  <2> QED BY ONLY <2>1 DEF Used
<1> QED BY <1>1, <1>2, <1>3, <1>4, <1>5, <1>6

\* What another step leaves alone stays as it was; a receipt may go, and one may
\* come while the settings have no entry of its program.
Unused(r, a) == ~Holds(config[a], r.entry) /\ ~Holds(safe.config[a], r.entry)

LEMMA FilesStay ==
    ASSUME EntryInv, KeptInv, config' = config, before' = before,
           \A a \in Client : safe'.config[a] = safe.config[a] \/ safe'.config[a] = config[a],
           \A a \in Client : receipt'[a] \in {receipt[a], None} \/ Unused(receipt'[a], a),
           \A a \in Client : safe'.receipt[a] \in {receipt[a], safe.receipt[a]}
    PROVE  Alike' /\ Faithful'
<1>1. Alike'
  <2> SUFFICES ASSUME NEW a \in Client, NEW c \in {config'[a], safe'.config[a]},
                      NEW d \in {config'[a], safe'.config[a]}
               PROVE  Formed(c, a) /\ View(c, a) = View(d, a)
    BY DEF Alike
  <2>1. {c, d} \subseteq {config[a], safe.config[a]}
    OBVIOUS
  <2> QED BY <2>1 DEF KeptInv, Alike
<1>2. Faithful'
  <2> SUFFICES ASSUME NEW a \in Client, NEW s \in {before[a].settings}, ~before[a].edited,
                      NEW c \in {config'[a], safe'.config[a]},
                      NEW r \in {receipt'[a], safe'.receipt[a]}, r # None, Holds(c, r.entry)
               PROVE  Installed(c, r, s, a)
    BY DEF Faithful
  <2>1. c \in {config[a], safe.config[a]}
    OBVIOUS
  <2>2. r \in {receipt[a], safe.receipt[a]}
    BY <2>1 DEF Unused
  <2> QED BY <2>1, <2>2 DEF KeptInv, Faithful
<1> QED BY <1>1, <1>2

\* A step that ends a command leaves nothing to know.
LEMMA KnowsNothing ==
    ASSUME \/ hook'.pc \notin {"receipt", "sync receipt", "replace", "sync", "drop"}
           \/ hook'.pc = "sync" /\ hook'.kind # "remove"
    PROVE  Knows' /\ Owns' /\ Returned'
BY DEF Knows, Owns, Returned

\* The counters count.
LEMMA Counted ==
    ASSUME History, NEW what \in {"commands", "edits", "faults", "kills"}, NEW bound, Count(what, bound)
    PROVE  /\ budget' \in [commands : Nat, edits : Nat, faults : Nat, kills : Nat]
           /\ what = "edits" => budget'.edits # budget.edits
BY DEF History, Count

\* Nothing has been installed at first.
LEMMA InitKept == HookInit => KeptInv
<1> SUFFICES ASSUME HookInit PROVE KeptInv
  OBVIOUS
<1>1. /\ safe.config = config /\ safe.receipt = receipt /\ hook = NoHook /\ hook.pc = "idle"
      /\ before = [a \in Client |-> [settings |-> None, edited |-> FALSE]]
      /\ budget = [commands |-> 0, edits |-> 0, faults |-> 0, kills |-> 0]
      /\ \A a \in Client : receipt[a] = None
      /\ \A a \in Client : config[a] \in Used(a) \cup {None}
  BY DEF HookInit, NoHook
<1>2. History
  BY <1>1 DEF History
<1>3. ASSUME NEW a \in Client
      PROVE  Formed(config[a], a)
  <2>1. Formed(None, a)
    BY DEF Formed
  <2> QED BY <1>1, <2>1, FormedUsed
<1>4. Alike /\ Faithful
  BY <1>1, <1>3 DEF Alike, Faithful
<1>5. Knows /\ Owns /\ Returned
  BY <1>1 DEF Knows, Owns, Returned
<1> QED BY <1>2, <1>4, <1>5 DEF KeptInv

ViewsKept == \A a \in Client : View(config'[a], a) = View(config[a], a)

\* The steps that write no settings: reading, the receipt, the syncs, the end.
LEMMA QuietKept ==
    ASSUME EntryInv, KeptInv, Knows', Owns', Returned', config' = config, before' = before,
           budget' \in [commands : Nat, edits : Nat, faults : Nat, kills : Nat],
           \A a \in Client : safe'.config[a] = safe.config[a] \/ safe'.config[a] = config[a],
           \A a \in Client : receipt'[a] \in {receipt[a], None} \/ Unused(receipt'[a], a),
           \A a \in Client : safe'.receipt[a] \in {receipt[a], safe.receipt[a]}
    PROVE  KeptInv' /\ ViewsKept
<1>1. Alike' /\ Faithful'
  BY FilesStay
<1>2. History'
  BY DEF KeptInv, History
<1>3. ViewsKept
  BY DEF ViewsKept
<1> QED BY <1>1, <1>2, <1>3 DEF KeptInv

\* After the end of a command nothing is known of it.
LEMMA EndKept ==
    ASSUME NEW result, End(result)
    PROVE  Knows' /\ Owns' /\ Returned'
<1>1. hook'.pc = "idle"
  BY DEF End, NoHook
<1> QED BY <1>1, KnowsNothing

\* What was known stays known while nothing moves.
LEMMA StillKnown ==
    ASSUME KeptInv, config' = config, receipt' = receipt, before' = before, hook' = hook
    PROVE  Knows' /\ Owns' /\ Returned'
BY DEF KeptInv, Knows, Owns, Returned

\* A new command knows nothing yet, a refused one changes nothing.
LEMMA BeginKept ==
    ASSUME EntryInv, KeptInv, NEW p \in Proc, NEW kind \in {"install", "remove"}, NEW a \in Client,
           NEW x \in Program, BeginHook(p, kind, a, x),
           budget' \in [commands : Nat, edits : Nat, faults : Nat, kills : Nat]
    PROVE  KeptInv' /\ ViewsKept
<1>1. config' = config /\ receipt' = receipt /\ safe' = safe /\ before' = before
  BY DEF BeginHook
<1>2. Knows' /\ Owns' /\ Returned'
  <2>1. CASE hook.by = None
    <3>1. hook' = [by |-> p, pc |-> "read", kind |-> kind, client |-> a, entry |-> x, seen |-> None]
      BY <2>1 DEF BeginHook
    <3>2. hook'.pc = "read"
      BY <3>1
    <3> QED BY <3>2, KnowsNothing
  <2>2. CASE hook.by # None
    <3>1. hook' = hook
      BY <2>2 DEF BeginHook
    <3> QED BY <1>1, <3>1, StillKnown
  <2> QED BY <2>1, <2>2
<1>3. \A b \in Client : safe'.config[b] = safe.config[b] /\ receipt'[b] = receipt[b]
                       /\ safe'.receipt[b] = safe.receipt[b]
  BY <1>1
<1>4. budget' \in [commands : Nat, edits : Nat, faults : Nat, kills : Nat]
  OBVIOUS
<1> QED BY <1>1, <1>2, <1>3, <1>4, QuietKept

\* An installation has seen settings that it accepts.
LEMMA ReadInstallKept ==
    ASSUME EntryInv, KeptInv, ReadInstall
    PROVE  KeptInv' /\ ViewsKept
<1> DEFINE a == hook.client
           c == Decoded(config[a])
<1>1. /\ config' = config /\ receipt' = receipt /\ safe' = safe /\ before' = before
      /\ budget' = budget
  BY DEF ReadInstall
<1>2. Knows' /\ Owns' /\ Returned'
  <2>1. CASE End("failed") \/ End("ok")
    BY <2>1, EndKept
  <2>2. CASE /\ c # Malformed /\ receipt[a] = None /\ Acceptable(c, a, hook.entry)
             /\ hook' = [hook EXCEPT !.pc = "receipt", !.seen = config[a]]
    <3>1. a \in Client
      BY DEF EntryInv, Protocol, ReadInstall, NoHook
    <3>2. /\ hook'.pc = "receipt" /\ hook'.seen = config[a] /\ hook'.client = a
          /\ hook'.entry = hook.entry
      BY <2>2 DEF EntryInv, Typed, Held
    <3>3. WellFormed(c, a)
      <4>1. config[a] \in Settings \cup {None, Malformed} /\ Formed(config[a], a)
        BY <3>1 DEF EntryInv, Typed, KeptInv, Alike
      <4>2. WellFormed(Empty, a)
        BY DEF WellFormed, Empty
      <4> QED BY <2>2, <4>1, <4>2 DEF Decoded, Formed
    <3>4. Knows'
      BY <2>2, <3>2, <3>3 DEF Knows
    <3>5. Owns' /\ Returned'
      BY <3>2 DEF Owns, Returned
    <3> QED BY <3>4, <3>5
  <2> QED BY <2>1, <2>2 DEF ReadInstall
<1> QED BY <1>1, <1>2, QuietKept DEF KeptInv, History

\* The receipt that is published is the one of what was read.
LEMMA PublishKept ==
    ASSUME EntryInv, KeptInv, PublishReceipt
    PROVE  KeptInv' /\ ViewsKept
<1> DEFINE a == hook.client
<1>1. config' = config /\ safe' = safe /\ before' = before /\ hook.pc = "receipt"
  BY DEF PublishReceipt
<1>2. hook # NoHook
  BY <1>1, AtWork
<1>3. /\ a \in Client /\ hook.kind = "install"
      /\ ~Holds(config[a], hook.entry) /\ ~Holds(safe.config[a], hook.entry)
  BY <1>1, <1>2 DEF EntryInv, Protocol
<1>4. \A b \in Client : receipt'[b] \in {receipt[b], None} \/ Unused(receipt'[b], b)
  <2>1. \A b \in Client \ {a} : receipt'[b] = receipt[b]
    BY DEF PublishReceipt, EntryInv, Typed
  <2>2. CASE receipt' = receipt
    BY <2>2
  <2>3. CASE receipt' = [receipt EXCEPT ![a] = ReceiptOf(Decoded(hook.seen), a, hook.entry)]
    <3>1. receipt'[a] = ReceiptOf(Decoded(hook.seen), a, hook.entry)
      BY <1>3, <2>3 DEF EntryInv, Typed
    <3>2. receipt'[a].entry = hook.entry
      BY <3>1 DEF ReceiptOf
    <3> QED BY <1>3, <2>1, <3>2 DEF Unused
  <2> QED BY <2>2, <2>3 DEF PublishReceipt
<1>7. \A b \in Client : safe'.config[b] = safe.config[b] /\ safe'.receipt[b] = safe.receipt[b]
  BY <1>1
<1>5. budget' \in [commands : Nat, edits : Nat, faults : Nat, kills : Nat]
  BY Counted DEF PublishReceipt, Fails, KeptInv, History
<1>6. Knows' /\ Owns' /\ Returned'
  <2>1. CASE End("failed")
    BY <2>1, EndKept
  <2>2. CASE /\ receipt' = [receipt EXCEPT ![a] = ReceiptOf(Decoded(hook.seen), a, hook.entry)]
             /\ Goto("sync receipt")
    <3>1. hook' = [hook EXCEPT !.pc = "sync receipt"]
      BY <2>2 DEF Goto
    <3>2. /\ hook'.pc = "sync receipt" /\ hook'.seen = hook.seen /\ hook'.client = a
          /\ hook'.entry = hook.entry /\ hook'.kind = hook.kind
      BY <3>1 DEF EntryInv, Typed, Held
    <3>3. receipt'[a] = ReceiptOf(Decoded(hook.seen), a, hook.entry)
      <4>1. a \in DOMAIN receipt
        BY <1>3 DEF EntryInv, Typed
      <4> QED BY <2>2, <4>1
    <3>4. Knows'
      BY <1>1, <3>2, <3>3 DEF Knows, KeptInv
    <3>5. Owns' /\ Returned'
      BY <3>2 DEF Owns, Returned
    <3> QED BY <3>4, <3>5
  <2> QED BY <2>1, <2>2 DEF PublishReceipt
<1> QED BY <1>1, <1>4, <1>5, <1>6, <1>7, QuietKept

\* The sync of the receipt.
LEMMA SyncReceiptKept ==
    ASSUME EntryInv, KeptInv, SyncReceipt
    PROVE  KeptInv' /\ ViewsKept
<1> DEFINE a == hook.client
<1>1. /\ config' = config /\ receipt' = receipt /\ before' = before
      /\ hook.pc = "sync receipt"
  BY DEF SyncReceipt
<1>2. hook # NoHook
  BY <1>1, AtWork
<1>3. a \in Client /\ hook.kind = "install"
  BY <1>1, <1>2 DEF EntryInv, Protocol
<1>4. \A b \in Client : /\ safe'.config[b] = safe.config[b]
                        /\ safe'.receipt[b] \in {receipt[b], safe.receipt[b]}
  <2>1. CASE safe' = safe
    BY <2>1
  <2>2. CASE safe' = [safe EXCEPT !.receipt[a] = receipt[a]]
    BY <1>3, <2>2 DEF EntryInv, Typed
  <2> QED BY <2>1, <2>2 DEF SyncReceipt
<1>5. budget' \in [commands : Nat, edits : Nat, faults : Nat, kills : Nat]
  BY Counted DEF SyncReceipt, Fails, KeptInv, History
<1>6. Knows' /\ Owns' /\ Returned'
  <2>1. CASE End("failed")
    BY <2>1, EndKept
  <2>2. CASE Goto("replace")
    <3>1. hook' = [hook EXCEPT !.pc = "replace"]
      BY <2>2 DEF Goto
    <3>2. /\ hook'.pc = "replace" /\ hook'.seen = hook.seen /\ hook'.client = a
          /\ hook'.entry = hook.entry /\ hook'.kind = "install"
      BY <1>3, <3>1 DEF EntryInv, Typed, Held
    <3>3. Knows
      BY DEF KeptInv
    <3>4. Knows'
      <4> SUFFICES ASSUME NEW b \in Client, NEW x \in Program, NEW s \in Settings \cup {None},
                          hook'.client = b, hook'.entry = x, hook'.seen = s
                   PROVE  /\ WellFormed(Decoded(s), b) /\ Acceptable(Decoded(s), b, x)
                          /\ receipt[b] = ReceiptOf(Decoded(s), b, x)
        BY <1>1 DEF Knows
      <4>1. hook.client = b /\ hook.entry = x /\ hook.seen = s
        BY <3>2
      <4> QED BY <1>1, <1>3, <3>3, <4>1 DEF Knows
    <3>5. Owns' /\ Returned'
      BY <3>2 DEF Owns, Returned
    <3> QED BY <3>4, <3>5
  <2> QED BY <2>1, <2>2 DEF SyncReceipt
<1> QED BY <1>1, <1>4, <1>5, <1>6, QuietKept

\* A removal has seen its own entries.
LEMMA ReadRemoveKept ==
    ASSUME EntryInv, KeptInv, ReadRemove
    PROVE  KeptInv' /\ ViewsKept
<1> DEFINE a == hook.client
<1>1. /\ config' = config /\ receipt' = receipt /\ safe' = safe /\ before' = before
      /\ budget' = budget
  BY DEF ReadRemove
<1>2. Knows' /\ Owns' /\ Returned'
  <2>1. CASE End("failed")
    BY <2>1, EndKept
  <2>2. CASE /\ Owned(config[a], receipt[a])
             /\ hook' = [hook EXCEPT !.pc = "replace", !.seen = config[a]]
    <3>1. /\ hook'.pc = "replace" /\ hook'.seen = config[a] /\ hook'.client = a
          /\ hook'.kind = "remove"
      BY <2>2 DEF EntryInv, Typed, Held, ReadRemove
    <3>2. Owns'
      BY <1>1, <2>2, <3>1 DEF Owns
    <3>3. Knows' /\ Returned'
      BY <3>1 DEF Knows, Returned
    <3> QED BY <3>2, <3>3
  <2> QED BY <2>1, <2>2 DEF ReadRemove
<1> QED BY <1>1, <1>2, QuietKept DEF KeptInv, History

\* A step that writes the files of one client.
LEMMA OneClient ==
    ASSUME KeptInv, NEW b \in Client,
           \A a \in Client \ {b} :
               /\ config'[a] = config[a] /\ safe'.config[a] = safe.config[a]
               /\ receipt'[a] = receipt[a] /\ safe'.receipt[a] = safe.receipt[a]
               /\ before'[a] = before[a],
           \A c, d \in {config'[b], safe'.config[b]} : Formed(c, b) /\ View(c, b) = View(d, b),
           \A s \in {before'[b].settings} : ~before'[b].edited =>
               \A c \in {config'[b], safe'.config[b]}, r \in {receipt'[b], safe'.receipt[b]} :
                   r # None /\ Holds(c, r.entry) => Installed(c, r, s, b)
    PROVE  Alike' /\ Faithful'
<1>1. Alike'
  <2> SUFFICES ASSUME NEW a \in Client, NEW c \in {config'[a], safe'.config[a]},
                      NEW d \in {config'[a], safe'.config[a]}
               PROVE  Formed(c, a) /\ View(c, a) = View(d, a)
    BY DEF Alike
  <2>1. CASE a = b
    BY <2>1
  <2>2. CASE a # b
    BY <2>2 DEF KeptInv, Alike
  <2> QED BY <2>1, <2>2
<1>2. Faithful'
  <2> SUFFICES ASSUME NEW a \in Client, NEW s \in {before'[a].settings}, ~before'[a].edited,
                      NEW c \in {config'[a], safe'.config[a]},
                      NEW r \in {receipt'[a], safe'.receipt[a]}, r # None, Holds(c, r.entry)
               PROVE  Installed(c, r, s, a)
    BY DEF Faithful
  <2>1. CASE a = b
    BY <2>1
  <2>2. CASE a # b
    BY <2>2 DEF KeptInv, Faithful
  <2> QED BY <2>1, <2>2
<1> QED BY <1>1, <1>2

\* An installation writes its entries into the settings it has read.
LEMMA InstallKept ==
    ASSUME EntryInv, KeptInv, Replace, hook.kind = "install", config[hook.client] = hook.seen,
           config' = [config EXCEPT ![hook.client] = Replacement], Remember, Goto("sync"),
           budget' = budget
    PROVE  KeptInv' /\ ViewsKept
<1> DEFINE a == hook.client
           x == hook.entry
           s == hook.seen
           d == Decoded(hook.seen)
           n == WithEntry(d, a, x)
<1>1. hook.pc = "replace" /\ receipt' = receipt /\ safe' = safe
  BY DEF Replace
<1>2. hook # NoHook
  BY <1>1, AtWork
<1>3. /\ a \in Client /\ x \in Program /\ safe.receipt[a] = receipt[a]
      /\ ~Holds(safe.config[a], receipt[a].entry)
  BY <1>1, <1>2 DEF EntryInv, Protocol, Names
<1>4. s \in Settings \cup {None} /\ d \in Settings
  BY EmptyMade DEF EntryInv, Typed, Held, Decoded
<1>5. WellFormed(d, a) /\ Acceptable(d, a, x) /\ receipt[a] = ReceiptOf(d, a, x)
  BY <1>1, <1>3, <1>4 DEF KeptInv, Knows
<1>6. hook'.pc = "sync" /\ hook'.kind = "install"
  BY DEF EntryInv, Typed, Goto, Held
<1>7. config'[a] = n /\ \A b \in Client \ {a} : config'[b] = config[b]
  BY <1>3 DEF EntryInv, Typed, Replacement
<1>8. before' = [before EXCEPT ![a] = [settings |-> s, edited |-> FALSE]]
  BY DEF Remember
<1>9. /\ before'[a].settings = s /\ \A b \in Client \ {a} : before'[b] = before[b]
      /\ before' \in [Client -> [settings : Settings \cup {None}, edited : BOOLEAN]]
  BY <1>3, <1>4, <1>8 DEF KeptInv, History
<1>10. View(n, a) = View(config[a], a) /\ n \in Settings /\ Formed(n, a)
  <2>1. View(n, a) = View(d, a)
    BY <1>3, <1>4, <1>5, ViewInstalled
  <2>2. View(s, a) = View(d, a)
    BY <1>3, <1>4, ViewDecoded
  <2>3. n \in Settings
    BY <1>3, <1>4, <1>5, WithEntryMade, Zenon DEF Acceptable
  <2> QED BY <1>3, <1>4, <2>1, <2>2, <2>3, FormedWritten DEF Formed
<1> HIDE DEF n
<1>11. \A c, e \in {config'[a], safe'.config[a]} : Formed(c, a) /\ View(c, a) = View(e, a)
  <2>1. Formed(safe.config[a], a) /\ View(safe.config[a], a) = View(config[a], a)
    BY <1>3 DEF KeptInv, Alike
  <2> QED BY <1>1, <1>7, <1>10, <2>1
<1>12. Installed(n, receipt[a], s, a)
  BY <1>3, <1>4, <1>5 DEF Installed, n
<1>13. Alike' /\ Faithful'
  <2>1. \A t \in {before'[a].settings} : ~before'[a].edited =>
           \A c \in {config'[a], safe'.config[a]}, r \in {receipt'[a], safe'.receipt[a]} :
               r # None /\ Holds(c, r.entry) => Installed(c, r, t, a)
    BY <1>1, <1>3, <1>7, <1>9, <1>12
  <2> HIDE DEF a, s
  <2> QED BY <1>1, <1>3, <1>7, <1>9, <1>11, <2>1, OneClient
<1>14. Knows' /\ Owns' /\ Returned'
  BY <1>6, KnowsNothing
<1>15. ViewsKept
  BY <1>7, <1>10 DEF ViewsKept
<1>16. History'
  BY <1>9 DEF KeptInv, History
<1> QED BY <1>13, <1>14, <1>15, <1>16 DEF KeptInv

\* A removal takes them out; if nobody has edited the file, what remains is what
\* the installation has read.
LEMMA RemoveKept ==
    ASSUME EntryInv, KeptInv, EntryInv', Replace, hook.kind = "remove", config[hook.client] = hook.seen,
           config' = [config EXCEPT ![hook.client] = Replacement], Remember, Goto("sync"),
           budget' = budget
    PROVE  KeptInv' /\ ViewsKept
<1> DEFINE a == hook.client
           s == hook.seen
           r == receipt[a]
           n == WithoutEntry(s, a, r)
<1>1. hook.pc = "replace" /\ receipt' = receipt /\ safe' = safe
  BY DEF Replace
<1>2. hook # NoHook
  BY <1>1, AtWork
<1>3. a \in Client /\ s \in Settings /\ r \in Receipt
  <2>1. a \in Client /\ s \in Settings /\ r # None
    BY <1>1, <1>2 DEF EntryInv, Protocol
  <2> QED BY <2>1 DEF EntryInv, Typed
<1>4. Owned(s, r)
  BY <1>1, <1>3 DEF KeptInv, Owns
<1>5. /\ hook'.pc = "sync" /\ hook'.kind = "remove" /\ hook'.client = a
  <2>1. hook \in Held
    BY DEF EntryInv, Typed
  <2>2. hook' = [hook EXCEPT !.pc = "sync"] /\ hook.kind = "remove"
    BY DEF Goto
  <2> QED BY ONLY <2>1, <2>2 DEF Held
<1>6. config'[a] = n /\ \A b \in Client \ {a} : config'[b] = config[b]
  <2>1. Replacement = n
    BY <1>3 DEF Replacement, Decoded
  <2> QED BY <1>3, <2>1 DEF EntryInv, Typed
<1>7. before' = before
  BY <1>3 DEF Remember, KeptInv, History
<1>8. View(n, a) = View(config[a], a) /\ n \in Settings /\ Formed(n, a)
  <2>0. s = config[a]
    OBVIOUS
  <2> HIDE DEF a, s, r
  <2>1. View(n, a) = View(s, a)
    BY <1>3, <1>4, ViewRemoved
  <2>2. n \in Settings
    BY <1>3, WithoutEntryMade
  <2>3. WellFormed(n, a)
    BY <1>3, FormedWritten
  <2> QED BY <2>0, <2>1, <2>2, <2>3 DEF Formed
<1>18. Holds(s, r.entry) /\ r.entry \in Program
  <2>1. PICK e \in Event : TRUE
    OBVIOUS
  <2>2. Occurrences(s, e, r.entry) = 1 /\ r.entry \in Program
    BY <1>3, <1>4 DEF Owned, Receipt
  <2>3. Has(s, e, r.entry)
    BY <1>3, <2>2 DEF Has
  <2> QED BY <2>2, <2>3 DEF Holds
<1>9. ~Holds(n, r.entry) /\ safe.receipt[a].entry = r.entry
  <2>1. ~Holds(n, r.entry)
    <3> HIDE DEF a, s, r
    <3> QED BY <1>3, <1>18, HoldsRemoved
  <2>2. FilesAgree(config[a], safe.config[a], r, safe.receipt[a]) /\ r # None /\ config[a] = s
    BY <1>3 DEF EntryInv, Agree
  <2> QED BY <1>18, <2>1, <2>2 DEF FilesAgree, Names
<1> HIDE DEF n
<1>10. \A c, e \in {config'[a], safe'.config[a]} : Formed(c, a) /\ View(c, a) = View(e, a)
  <2>1. Formed(safe.config[a], a) /\ View(safe.config[a], a) = View(config[a], a)
    BY <1>3 DEF KeptInv, Alike
  <2> QED BY <1>1, <1>6, <1>8, <2>1
<1>11. \A t \in {before'[a].settings} : ~before'[a].edited =>
          \A c \in {config'[a], safe'.config[a]}, q \in {receipt'[a], safe'.receipt[a]} :
              q # None /\ Holds(c, q.entry) => Installed(c, q, t, a)
  <2> SUFFICES ASSUME NEW t \in {before[a].settings}, ~before[a].edited,
                      NEW c \in {n, safe.config[a]}, NEW q \in {receipt[a], safe.receipt[a]},
                      q # None, Holds(c, q.entry)
               PROVE  Installed(c, q, t, a)
    BY <1>1, <1>6, <1>7
  <2>1. q.entry = r.entry
    BY <1>9
  <2>2. c = safe.config[a]
    BY <1>9, <2>1
  <2> QED BY <1>3, <2>2 DEF KeptInv, Faithful
<1>12. Alike' /\ Faithful'
  <2> HIDE DEF a
  <2> QED BY <1>1, <1>3, <1>6, <1>7, <1>10, <1>11, OneClient
<1>13. ASSUME ~before[a].edited PROVE Decoded(n) = Decoded(before[a].settings)
  <2>2. Installed(s, r, before[a].settings, a)
    BY <1>3, <1>13, <1>18 DEF KeptInv, Faithful
  <2>3. PICK d \in Settings, x \in Program :
            /\ d = Decoded(before[a].settings) /\ WellFormed(d, a) /\ Acceptable(d, a, x)
            /\ s = WithEntry(d, a, x) /\ r = ReceiptOf(d, a, x)
    BY <2>2 DEF Installed
  <2>4. n = d
    <3> HIDE DEF a, s, r
    <3>1. WithoutEntry(WithEntry(d, a, x), a, ReceiptOf(d, a, x)) = d
      BY <1>3, <2>3, RemovalUndoesInstallation
    <3> QED BY <2>3, <3>1 DEF n
  <2>5. Decoded(d) = d
    BY DEF Decoded
  <2> QED BY <2>3, <2>4, <2>5
<1>14. Returned'
  BY <1>5, <1>6, <1>7, <1>13 DEF Returned
<1>15. Knows' /\ Owns'
  BY <1>5 DEF Knows, Owns
<1>16. ViewsKept
  BY <1>6, <1>8 DEF ViewsKept
<1>17. History'
  BY <1>7 DEF KeptInv, History
<1> QED BY <1>12, <1>14, <1>15, <1>16, <1>17 DEF KeptInv

\* Comparison and rename, or an error before the rename.
LEMMA ReplaceKept ==
    ASSUME EntryInv, KeptInv, EntryInv', Replace
    PROVE  KeptInv' /\ ViewsKept
<1>0. hook.pc = "replace" /\ receipt' = receipt /\ safe' = safe
  BY DEF Replace
<1>1. hook.kind \in {"install", "remove"}
  <2>1. hook # NoHook
    BY <1>0, AtWork
  <2> QED BY <2>1 DEF EntryInv, Protocol
<1>2. CASE /\ config[hook.client] = hook.seen
           /\ config' = [config EXCEPT ![hook.client] = Replacement]
           /\ Remember /\ Goto("sync") /\ budget' = budget
  BY <1>1, <1>2, InstallKept, RemoveKept
<1>3. CASE /\ Give /\ UNCHANGED <<config, before>>
           /\ budget' = budget \/ Fails("write")
  <2>1. Knows' /\ Owns' /\ Returned'
    <3>1. CASE hook.kind = "install"
      <4>1. hook \in Held
        BY DEF EntryInv, Typed
      <4>2. hook' = [hook EXCEPT !.pc = "undo"]
        BY <1>3, <3>1 DEF Give, Goto
      <4>3. hook'.pc = "undo"
        BY ONLY <4>1, <4>2 DEF Held
      <4> QED BY <4>3, KnowsNothing
    <3>2. CASE hook.kind = "remove"
      BY <1>3, <3>2, EndKept DEF Give
    <3> QED BY <1>1, <3>1, <3>2
  <2>2. budget' \in [commands : Nat, edits : Nat, faults : Nat, kills : Nat]
    BY <1>3, Counted DEF Fails, KeptInv, History
  <2>3. config' = config /\ before' = before
    BY <1>3
  <2> QED BY <1>0, <2>1, <2>2, <2>3, QuietKept
<1> QED BY <1>2, <1>3 DEF Replace

\* The sync of the settings, or its failure.
LEMMA SyncSettingsKept ==
    ASSUME EntryInv, KeptInv, SyncSettings
    PROVE  KeptInv' /\ ViewsKept
<1> DEFINE a == hook.client
<1>1. hook.pc = "sync" /\ config' = config /\ receipt' = receipt /\ before' = before
  BY DEF SyncSettings
<1>2. hook.kind \in {"install", "remove"}
  BY <1>1, AtWork DEF EntryInv, Protocol
<1>3. \A b \in Client : /\ safe'.config[b] = safe.config[b] \/ safe'.config[b] = config[b]
                        /\ safe'.receipt[b] = safe.receipt[b]
  <2>1. CASE safe' = safe
    BY <2>1
  <2>2. CASE safe' = [safe EXCEPT !.config[a] = config[a]]
    BY <2>2 DEF EntryInv, Typed
  <2> QED BY <2>1, <2>2 DEF SyncSettings
<1>4. Knows' /\ Owns' /\ Returned'
  <2>1. CASE End("ok") \/ End("failed")
    BY <2>1, EndKept
  <2>2. CASE hook.kind = "remove" /\ Goto("drop")
    <3>1. hook' = [hook EXCEPT !.pc = "drop"]
      BY <2>2 DEF Goto
    <3>2. hook'.pc = "drop" /\ hook'.kind = "remove" /\ hook'.client = hook.client
      BY <2>2, <3>1 DEF EntryInv, Typed, Held
    <3>3. Returned'
      BY <1>1, <2>2, <3>2 DEF KeptInv, Returned
    <3>4. Knows' /\ Owns'
      BY <3>2 DEF Knows, Owns
    <3> QED BY <3>3, <3>4
  <2>3. CASE Goto("undo")
    <3>1. hook' = [hook EXCEPT !.pc = "undo"]
      BY <2>3 DEF Goto
    <3>2. hook'.pc = "undo"
      BY <3>1 DEF EntryInv, Typed, Held
    <3> QED BY <3>2, KnowsNothing
  <2> QED BY <1>2, <2>1, <2>2, <2>3 DEF SyncSettings, Give
<1>5. budget' \in [commands : Nat, edits : Nat, faults : Nat, kills : Nat]
  BY Counted DEF SyncSettings, Fails, KeptInv, History
<1> QED BY <1>1, <1>3, <1>4, <1>5, QuietKept

\* The receipt goes.
LEMMA DropKept ==
    ASSUME EntryInv, KeptInv, Drop
    PROVE  KeptInv' /\ ViewsKept
<1> DEFINE a == hook.client
<1>1. hook.pc \in {"undo", "drop"} /\ config' = config /\ safe' = safe /\ before' = before
  BY DEF Drop
<1>4. \A b \in Client : receipt'[b] \in {receipt[b], None}
  <2>1. receipt' = receipt \/ receipt' = [receipt EXCEPT ![a] = None]
    BY DEF Drop
  <2> QED BY <2>1 DEF EntryInv, Typed
<1>7. \A b \in Client : safe'.config[b] = safe.config[b] /\ safe'.receipt[b] = safe.receipt[b]
  BY <1>1
<1>5. budget' \in [commands : Nat, edits : Nat, faults : Nat, kills : Nat]
  BY Counted DEF Drop, Fails, KeptInv, History
<1>6. Knows' /\ Owns' /\ Returned'
  BY EndKept DEF Drop
<1> QED BY <1>1, <1>4, <1>5, <1>6, <1>7, QuietKept

\* A killed command changes no file.
LEMMA KillKept ==
    ASSUME EntryInv, KeptInv, Kill
    PROVE  KeptInv' /\ ViewsKept
<1>1. /\ config' = config /\ receipt' = receipt /\ safe' = safe /\ before' = before
      /\ hook'.pc = "idle"
  BY DEF Kill, NoHook
<1>2. budget' \in [commands : Nat, edits : Nat, faults : Nat, kills : Nat]
  BY Counted DEF Kill, KeptInv
<1>3. Knows' /\ Owns' /\ Returned'
  BY <1>1, KnowsNothing
<1> QED BY <1>1, <1>2, <1>3, QuietKept

\* A power loss leaves settings and receipts that belong together.
LEMMA PowerLossKept ==
    ASSUME EntryInv, KeptInv, PowerLoss
    PROVE  KeptInv' /\ ViewsKept
<1>1. before' = before /\ hook'.pc = "idle"
  BY DEF PowerLoss, NoHook
<1>2. ASSUME NEW a \in Client
      PROVE  /\ {config'[a], safe'.config[a]} \subseteq {config[a], safe.config[a]}
             /\ {receipt'[a], safe'.receipt[a]} \subseteq {receipt[a], safe.receipt[a]}
  <2>1. PICK lost \in SUBSET (Client \X {"config", "receipt"}) :
            /\ config'  = [b \in Client |-> IF <<b, "config">> \in lost THEN safe.config[b] ELSE config[b]]
            /\ receipt' = [b \in Client |-> IF <<b, "receipt">> \in lost THEN safe.receipt[b] ELSE receipt[b]]
            /\ safe' = [config |-> config', receipt |-> receipt']
    BY DEF PowerLoss, Revert
  <2>2. config'[a] \in {config[a], safe.config[a]} /\ receipt'[a] \in {receipt[a], safe.receipt[a]}
    BY <2>1
  <2>3. safe'.config = config' /\ safe'.receipt = receipt'
    BY <2>1
  <2> QED BY <2>2, <2>3
<1>3. Alike'
  <2> SUFFICES ASSUME NEW a \in Client, NEW c \in {config'[a], safe'.config[a]},
                      NEW d \in {config'[a], safe'.config[a]}
               PROVE  Formed(c, a) /\ View(c, a) = View(d, a)
    BY DEF Alike
  <2>1. {c, d} \subseteq {config[a], safe.config[a]}
    BY <1>2
  <2> QED BY <2>1 DEF KeptInv, Alike
<1>4. Faithful'
  <2> SUFFICES ASSUME NEW a \in Client, NEW s \in {before[a].settings}, ~before[a].edited,
                      NEW c \in {config'[a], safe'.config[a]},
                      NEW r \in {receipt'[a], safe'.receipt[a]}, r # None, Holds(c, r.entry)
               PROVE  Installed(c, r, s, a)
    BY <1>1 DEF Faithful
  <2>1. c \in {config[a], safe.config[a]} /\ r \in {receipt[a], safe.receipt[a]}
    BY <1>2
  <2> QED BY <2>1 DEF KeptInv, Faithful
<1>5. ViewsKept
  BY <1>2 DEF KeptInv, Alike, ViewsKept
<1>6. Knows' /\ Owns' /\ Returned'
  BY <1>1, KnowsNothing
<1>7. History'
  BY <1>1, Counted DEF PowerLoss, KeptInv, History
<1> QED BY <1>3, <1>4, <1>5, <1>6, <1>7 DEF KeptInv

\* An edit is what JSON allows, and it is remembered.
LEMMA EditKept ==
    ASSUME EntryInv, KeptInv, NEW b \in Client, Edit(b)
    PROVE  KeptInv' /\ budget'.edits # budget.edits
<1>1. PICK c \in Edits(Decoded(config[b]), b) :
          config' = [config EXCEPT ![b] = c] /\ safe' = [safe EXCEPT !.config[b] = c]
  BY DEF Edit
<1>2. /\ receipt' = receipt /\ hook' = hook
      /\ before' = [before EXCEPT ![b].edited = TRUE]
  BY DEF Edit
<1>3. /\ config'[b] = c /\ safe'.config[b] = c /\ safe'.receipt = safe.receipt
      /\ \A a \in Client \ {b} : config'[a] = config[a] /\ safe'.config[a] = safe.config[a]
  BY <1>1 DEF EntryInv, Typed
<1>4. /\ before'[b].edited = TRUE /\ \A a \in Client \ {b} : before'[a] = before[a]
      /\ before' \in [Client -> [settings : Settings \cup {None}, edited : BOOLEAN]]
  BY <1>2 DEF KeptInv, History
<1>5. Formed(c, b)
  <2>1. config[b] \in Settings \cup {None, Malformed} /\ Formed(config[b], b)
    BY DEF EntryInv, Typed, KeptInv, Alike
  <2> QED BY <2>1, FormedEdited
<1>6. Alike' /\ Faithful'
  <2>1. \A d, e \in {config'[b], safe'.config[b]} : Formed(d, b) /\ View(d, b) = View(e, b)
    BY <1>3, <1>5
  <2> QED BY <1>2, <1>3, <1>4, <2>1, OneClient
<1>7. Knows' /\ Owns'
  BY <1>2 DEF KeptInv, Knows, Owns
<1>8. Returned'
  BY <1>2, <1>3, <1>4 DEF KeptInv, Returned
<1>9. History' /\ budget'.edits # budget.edits
  BY <1>4, Counted DEF Edit, KeptInv, History
<1> QED BY <1>6, <1>7, <1>8, <1>9 DEF KeptInv

\* Every step keeps the invariant, and only edits change what others see.
LEMMA NextKept ==
    ASSUME EntryInv, KeptInv, EntryInv', [HookNext]_hookVars
    PROVE  KeptInv' /\ (budget'.edits = budget.edits => ViewsKept)
<1>1. CASE UNCHANGED hookVars
  <2>1. /\ config' = config /\ receipt' = receipt /\ safe' = safe /\ before' = before
        /\ hook' = hook /\ budget' = budget
    BY <1>1 DEF hookVars
  <2>2. Knows' /\ Owns' /\ Returned'
    BY <2>1, StillKnown
  <2> QED BY <2>1, <2>2, QuietKept DEF KeptInv, History
<1>2. CASE HookNext
  <2>2. CASE HookStep
    BY <2>2, ReadInstallKept, PublishKept, SyncReceiptKept, ReadRemoveKept, ReplaceKept,
       SyncSettingsKept, DropKept DEF HookStep
  <2>3. CASE Command
    <3>1. PICK p \in Proc, kind \in {"install", "remove"}, a \in tools, x \in Program :
              Count("commands", MaxCommands) /\ BeginHook(p, kind, a, x)
      BY <2>3 DEF Command
    <3>2. a \in Client
      BY DEF EntryInv, Typed
    <3>3. budget' \in [commands : Nat, edits : Nat, faults : Nat, kills : Nat]
      BY <3>1, Counted DEF KeptInv
    <3> QED BY <3>1, <3>2, <3>3, BeginKept
  <2>4. CASE Kill
    BY <2>4, KillKept
  <2>5. CASE PowerLoss
    BY <2>5, PowerLossKept
  <2>6. CASE \E a \in tools : Edit(a)
    BY <2>6, EditKept DEF EntryInv, Typed
  <2> QED BY <1>2, <2>2, <2>3, <2>4, <2>5, <2>6 DEF HookNext
<1> QED BY <1>1, <1>2

-----------------------------------------------------------------------------
(* Theorems. *)

\* The invariant of the two step properties holds in every state.
THEOREM KeptInvariant == HookSpec => [](EntryInv /\ KeptInv)
<1>1. HookInit => EntryInv /\ KeptInv
  BY InitHook, InitKept
<1>2. EntryInv /\ KeptInv /\ [HookNext]_hookVars => EntryInv' /\ KeptInv'
  BY NextStep, NextKept
<1> QED BY <1>1, <1>2, PTL DEF HookSpec

\* No command, kill or power loss changes the hooks of others, whether they run, or
\* the user's switch: only edits do.
THEOREM OthersUntouched == HookSpec => ForeignKept
<1>1. EntryInv /\ KeptInv /\ EntryInv' /\ [HookNext]_hookVars
      => [budget'.edits = budget.edits => \A a \in Client : View(config'[a], a) = View(config[a], a)]_hookVars
  BY NextKept DEF ViewsKept
<1> QED BY <1>1, KeptInvariant, PTL DEF HookSpec, ForeignKept

\* What a removal that drops its receipt has left is what it knows.
LEMMA DropReturned ==
    EntryInv /\ KeptInv
    => [\A a \in Client :
           hook.pc = "drop" /\ hook.client = a /\ receipt'[a] = None /\ ~before[a].edited
           => Decoded(config[a]) = Decoded(before[a].settings)]_hookVars
<1> SUFFICES ASSUME EntryInv, KeptInv, NEW a \in Client,
                    hook.pc = "drop", hook.client = a, ~before[a].edited
             PROVE  Decoded(config[a]) = Decoded(before[a].settings)
  OBVIOUS
<1>1. hook # NoHook
  BY AtWork
<1>2. hook.kind = "remove"
  BY <1>1 DEF EntryInv, Protocol
<1> QED BY <1>2 DEF KeptInv, Returned

\* When a removal drops its receipt, the settings mean what they meant before the
\* installation, if nobody has edited them since.
THEOREM RemovalRestores == HookSpec => Undone
<1>1. EntryInv /\ KeptInv
      => [\A a \in Client :
             hook.pc = "drop" /\ hook.client = a /\ receipt'[a] = None /\ ~before[a].edited
             => Decoded(config[a]) = Decoded(before[a].settings)]_hookVars
  BY DropReturned
<1> QED BY <1>1, KeptInvariant, PTL DEF HookSpec, Undone
=============================================================================
