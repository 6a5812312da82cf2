--------------------------- MODULE DuxWindowProofs ---------------------------
(***************************************************************************)
(* DuxWindow for any number of sites, requests and using entries and any   *)
(* size of the window: the queue of a site holds exactly the requests that *)
(* wait outside its window, req_count is exact, and none of the panics of  *)
(* the window code happens.                                                *)
(*                                                                         *)
(* The argument.  Of a member's queue the invariant says that there is a   *)
(* list of entries that hangs on it: its links lead along the list.  A     *)
(* request that is queued extends the list, one that is let in shifts it,  *)
(* and what Queue(s) computes along the links is the list, as the least    *)
(* position at which the two differed would show.  Somebody waits only     *)
(* while the window is full; so an answer, which takes one request out of  *)
(* it, lets in exactly one, and the window is full again or nobody waits.  *)
(* While nobody is inside net_request() for a site that is declared        *)
(* failed, no entry outlives the cleanup after its site.                   *)
(***************************************************************************)
EXTENDS DuxWindow, SumLemmas, TLAPS

\* An entry of the using array belongs to the call that has its index, and is
\* clear otherwise.
Owned ==
  /\ \A i \in Index : ~entry[i].used => entry[i] = FreeEntry
  /\ \A i \in Index : entry[i].used =>
       /\ entry[i].rid \in Calls
       /\ call[entry[i].rid].index = i
       /\ call[entry[i].rid].st \in {"send", "wait"}
  /\ \A c \in Calls : call[c].st \in {"send", "wait"} =>
       /\ call[c].index \in Index
       /\ entry[call[c].index].used
       /\ entry[call[c].index].rid = c

\* What has been sent is no longer in net_request(), and what hangs on a queue
\* has not been sent.
Unsent ==
  /\ \A c \in asked : call[c].st \in {"wait", "over"}
  /\ timers \subseteq asked
  /\ \A i \in Index : entry[i].outside =>
       /\ entry[i].used
       /\ ~entry[i].counted
       /\ entry[i].rid \notin asked
       /\ call[entry[i].rid].st = "wait"
  /\ \A i \in Index : entry[i].counted => entry[i].used

\* Nobody is on his way to a site that is no member, and a site that has been
\* cleaned up after has no entries.
Members ==
  /\ \A c \in Calls : call[c].st \in {"get", "send"} => IsMember(Dest[c])
  /\ \A i \in Index : entry[i].used => site[Dest[entry[i].rid]].status # "inactive"

\* q, of length n, is what hangs on the queue of s.
Hangs(s, n, q) ==
  /\ n \in Nat
  /\ q \in [1..n -> Index]
  /\ \A j, k \in 1..n : q[j] = q[k] => j = k
  /\ \A i \in Index : i \in Outside(s) <=> \E k \in 1..n : q[k] = i
  /\ site[s].head = (IF n = 0 THEN 0 ELSE q[1])
  /\ site[s].tail = (IF n = 0 THEN 0 ELSE q[n])
  /\ \A k \in 1..n : entry[q[k]].next = (IF k = n THEN 0 ELSE q[k + 1])

\* The queue of s, its count, and that somebody waits only at a full window.
Window(s) ==
  /\ \E n \in Nat : \E q \in [1..n -> Index] : Hangs(s, n, q)
  /\ site[s].count = Cardinality(Counted(s))
  /\ site[s].head # 0 => site[s].count = WindowSize

\* The inductive invariant.
WindowInv ==
  /\ TypeOK /\ Owned /\ Unsent /\ Members
  /\ \A s \in Sites : IsMember(s) => Window(s)

-----------------------------------------------------------------------------
(* The queue.                                                              *)

\* There are finitely many entries.
LEMMA CountedFinite ==
  ASSUME NEW s \in Sites
  PROVE  Counted(s) \subseteq Index /\ IsFiniteSet(Counted(s))
<1>1. IsFiniteSet(1..UsingSize)
  BY WindowAssumption, FS_Interval
<1>2. Counted(s) \subseteq 1..UsingSize
  BY DEF Counted, Index
<1> QED
  BY <1>1, <1>2, FS_Subset DEF Index

\* One step along the links, from the head of the queue of s.
Walk(s, f) ==
  f = [n \in Index |-> IF n = 1 THEN site[s].head
                       ELSE IF f[n - 1] = 0 THEN 0 ELSE entry[f[n - 1]].next]

\* There is one walk along a queue at most.
LEMMA WalkUnique ==
  ASSUME NEW s \in Sites, NEW f, NEW g, Walk(s, f), Walk(s, g)
  PROVE  f = g
<1> DEFINE D == {n \in Index : f[n] # g[n]}
<1>1. UsingSize \in Nat \ {0}
  BY WindowAssumption
<1>2. ASSUME D # {} PROVE FALSE
  <2>1. PICK n \in D : \A m \in D : n <= m
    <3>1. D \in SUBSET Nat
      BY <1>1 DEF Index
    <3> QED
      BY <3>1, <1>2, LeastNat
  <2>2. CASE n = 1
    BY <2>1, <2>2 DEF Walk
  <2>3. CASE n # 1
    <3>1. n - 1 \in Index /\ n - 1 \notin D
      BY <2>1, <2>3, <1>1 DEF Index
    <3>2. f[n - 1] = g[n - 1]
      BY <3>1
    <3> QED
      BY <3>2, <2>1, <2>3 DEF Walk
  <2> QED
    BY <2>2, <2>3
<1> QED
  BY <1>2 DEF Walk

\* Queue(s) is the walk, if there is one.
LEMMA QueueWalks ==
  ASSUME NEW s \in Sites, NEW f, Walk(s, f)
  PROVE  Queue(s) = f
<1>1. Queue(s) = CHOOSE g : Walk(s, g)
  BY DEF Queue, Walk
<1>2. Walk(s, Queue(s))
  BY <1>1
<1> QED
  BY <1>2, WalkUnique

\* The queue as it hangs is what Queue(s) says.
LEMMA QueueIs ==
  ASSUME NEW s \in Sites, TypeOK, NEW n \in Nat, NEW q \in [1..n -> Index], Hangs(s, n, q)
  PROVE  /\ n <= UsingSize
         /\ Queue(s) = [k \in Index |-> IF k <= n THEN q[k] ELSE 0]
<1> DEFINE g == [k \in Index |-> IF k <= n THEN q[k] ELSE 0]
<1>1. UsingSize \in Nat \ {0}
  BY WindowAssumption
<1>2. n <= UsingSize
  <2>1. q \in Injection(1..n, Index)
    BY DEF Hangs, Injection, IsInjective
  <2>2. /\ IsFiniteSet(Index) /\ Cardinality(Index) = UsingSize
        /\ Cardinality(1..n) = n
    BY <1>1, FS_Interval DEF Index
  <2> QED
    BY <2>1, <2>2, FS_Injection
<1>3. Walk(s, g)
  <2>1. ASSUME NEW k \in Index
        PROVE  g[k] = IF k = 1 THEN site[s].head
                      ELSE IF g[k - 1] = 0 THEN 0 ELSE entry[g[k - 1]].next
    <3>1. CASE k = 1
      BY <3>1, <1>1 DEF Hangs, Index
    <3>2. CASE k # 1 /\ k - 1 <= n
      <4>1. k - 1 \in 1..n /\ k - 1 \in Index /\ q[k - 1] \in Index
        BY <3>2, <1>1 DEF Index
      <4>2. g[k - 1] = q[k - 1] /\ q[k - 1] # 0
        BY <4>1, <1>1 DEF Index
      <4>3. entry[q[k - 1]].next = IF k - 1 = n THEN 0 ELSE q[(k - 1) + 1]
        BY <4>1 DEF Hangs
      <4>4. (k - 1) + 1 = k /\ (k - 1 # n => k <= n) /\ (k - 1 = n => ~ (k <= n))
        BY <3>2, <1>1 DEF Index
      <4> QED
        BY <3>2, <4>2, <4>3, <4>4
    <3>3. CASE k # 1 /\ k - 1 > n
      BY <3>3, <1>1 DEF Index
    <3> QED
      BY <3>1, <3>2, <3>3, <1>1 DEF Index
  <2> QED
    BY <2>1 DEF Walk
<1> QED
  BY <1>2, <1>3, QueueWalks

\* A queue as it hangs is sound in the sense of QueueSound.
LEMMA HangsSound ==
  ASSUME NEW s \in Sites, TypeOK, NEW n \in Nat, NEW q \in [1..n -> Index], Hangs(s, n, q)
  PROVE  LET on == {k \in Index : Queue(s)[k] # 0} IN
         /\ {Queue(s)[k] : k \in on} = Outside(s)
         /\ Cardinality(on) = Cardinality(Outside(s))
         /\ site[s].tail = IF on = {} THEN 0 ELSE Queue(s)[Cardinality(on)]
<1> DEFINE on == {k \in Index : Queue(s)[k] # 0}
<1>1. /\ UsingSize \in Nat \ {0} /\ n <= UsingSize
      /\ Queue(s) = [k \in Index |-> IF k <= n THEN q[k] ELSE 0]
  BY WindowAssumption, QueueIs
<1>2. on = 1..n /\ \A k \in 1..n : Queue(s)[k] = q[k]
  BY <1>1 DEF Index
<1> HIDE DEF on
<1>3. {Queue(s)[k] : k \in on} = Outside(s)
  <2>1. \A i : i \in Outside(s) <=> \E k \in 1..n : q[k] = i
    BY DEF Hangs, Outside
  <2> QED
    BY <1>2, <2>1
<1>4. Cardinality(on) = n /\ IsFiniteSet(1..n)
  <2>1. n \in Int /\ 1 \in Int /\ (1 > n => n = 0) /\ n - 1 + 1 = n
    OBVIOUS
  <2> QED
    BY <1>2, <2>1, FS_Interval
<1>5. Cardinality(Outside(s)) = n
  <2>1. q \in [1..n -> Outside(s)]
    BY DEF Hangs
  <2>2. q \in Bijection(1..n, Outside(s))
    BY <2>1 DEF Hangs, Bijection, Injection, Surjection, IsInjective, Outside
  <2>3. ExistsBijection(1..n, Outside(s))
    BY <2>2 DEF ExistsBijection
  <2> QED
    BY <2>3, FS_CountingElements
<1>6. site[s].tail = IF on = {} THEN 0 ELSE Queue(s)[Cardinality(on)]
  BY <1>2, <1>4 DEF Hangs
<1> QED
  BY <1>3, <1>4, <1>5, <1>6 DEF on

\* The invariant implies what the runs check.
LEMMA InvImplies == WindowInv => QueueSound /\ WindowExact /\ NoPanic
<1> SUFFICES ASSUME WindowInv PROVE QueueSound /\ WindowExact /\ NoPanic
  OBVIOUS
<1>1. TypeOK
  BY DEF WindowInv
<1>2. QueueSound
  BY HangsSound DEF WindowInv, Window, QueueSound
<1>3. WindowExact
  <2>1. ASSUME NEW s \in Sites, IsMember(s)
        PROVE  /\ site[s].count = Cardinality(Counted(s))
               /\ site[s].count <= WindowSize
               /\ site[s].head # 0 => site[s].count = WindowSize
    BY <2>1, <1>1, WindowAssumption DEF WindowInv, Window, TypeOK, SiteEntry
  <2> QED
    BY <2>1, <1>1 DEF WindowExact
<1>4. NoPanic
  <2>1. ASSUME NEW s \in Sites, IsMember(s), site[s].head # 0
        PROVE  entry[site[s].head].used /\ entry[site[s].head].outside
    <3>1. PICK n \in Nat : \E q \in [1..n -> Index] : Hangs(s, n, q)
      BY <2>1 DEF WindowInv, Window
    <3>2. PICK q \in [1..n -> Index] : Hangs(s, n, q)
      BY <3>1
    <3>3. n # 0 /\ site[s].head = q[1] /\ 1 \in 1..n
      BY <3>2, <2>1 DEF Hangs
    <3>4. site[s].head \in Outside(s)
      BY <3>2, <3>3 DEF Hangs
    <3> QED
      BY <3>4 DEF Outside, WindowInv, Unsent
  <2>2. ASSUME NEW c \in asked, NEW i \in EntryOf(c), entry[i].outside
        PROVE  FALSE
    BY <2>2 DEF EntryOf, WindowInv, Unsent
  <2> QED
    BY <2>1, <2>2 DEF NoPanic
<1> QED
  BY <1>2, <1>3, <1>4

\* The window of a site none of whose entries a step touches.
LEMMA WindowFrame ==
  ASSUME NEW s \in Sites, Window(s), site'[s] = site[s],
         Outside(s)' = Outside(s), Counted(s)' = Counted(s),
         \A i \in Outside(s) : entry'[i].next = entry[i].next
  PROVE  Window(s)'
<1>1. PICK n \in Nat : \E q \in [1..n -> Index] : Hangs(s, n, q)
  BY DEF Window
<1>2. PICK q \in [1..n -> Index] : Hangs(s, n, q)
  BY <1>1
<1>3. \A k \in 1..n : q[k] \in Outside(s)
  BY <1>2 DEF Hangs
<1>4. Hangs(s, n, q)'
  BY <1>2, <1>3 DEF Hangs
<1>5. (\E m \in Nat : \E r \in [1..m -> Index] : Hangs(s, m, r))'
  BY <1>4
<1> QED
  BY <1>5 DEF Window

\* The windows of a step that touches neither entries nor sites.
LEMMA WindowSame ==
  ASSUME WindowInv, UNCHANGED <<entry, site>>
  PROVE  \A s \in Sites : IsMember(s)' => Window(s)'
<1> SUFFICES ASSUME NEW s \in Sites, IsMember(s)' PROVE Window(s)'
  OBVIOUS
<1>1. Window(s)
  BY DEF IsMember, WindowInv
<1> QED
  BY <1>1, WindowFrame DEF Outside, Counted
-----------------------------------------------------------------------------
(* The initial state, and requests that find an entry.                     *)

\* All entries are free at first, and the queues empty.
LEMMA InitInv == Init => WindowInv
<1> SUFFICES ASSUME Init PROVE WindowInv
  OBVIOUS
<1>1. UsingSize \in Nat \ {0} /\ WindowSize \in Nat \ {0} /\ MaxFailures \in Nat
  BY WindowAssumption
<1>2. TypeOK
  BY <1>1 DEF Init, TypeOK, Call, Entry, SiteEntry, CallState, FreeEntry
<1>3. Owned /\ Unsent /\ Members
  BY DEF Init, Owned, Unsent, Members, FreeEntry
<1>4. ASSUME NEW s \in Sites PROVE Window(s)
  <2>1. Outside(s) = {} /\ Counted(s) = {}
    BY DEF Init, Outside, Counted, FreeEntry
  <2>2. <<>> \in [1..0 -> Index] /\ Hangs(s, 0, <<>>)
    BY <2>1 DEF Init, Hangs
  <2>3. \E n \in Nat : \E q \in [1..n -> Index] : Hangs(s, n, q)
    BY <2>2
  <2> QED
    BY <2>1, <2>3, FS_EmptySet DEF Window, Init
<1> QED
  BY <1>2, <1>3, <1>4 DEF WindowInv

\* get_using_array() gives an entry that is free.
LEMMA FirstFreeIsFree ==
  ASSUME ~NoneFree
  PROVE  FirstFree \in Index /\ ~entry[FirstFree].used
<1> DEFINE F == {i \in Index : ~entry[i].used}
<1>1. UsingSize \in Nat \ {0}
  BY WindowAssumption
<1>2. F # {} /\ F \in SUBSET Nat
  BY <1>1 DEF NoneFree, Index
<1>3. PICK i \in F : \A j \in F : i <= j
  BY <1>2, LeastNat
<1>4. \A j \in 1..i - 1 : entry[j].used
  BY <1>1, <1>3 DEF Index
<1> QED
  BY <1>3, <1>4 DEF FirstFree

\* A call gets an entry: everything but the windows.
LEMMA NewEntry ==
  ASSUME WindowInv, NEW c \in Calls, call[c].st \in {"idle", "get"}, IsMember(Dest[c]),
         NEW i \in Index, ~entry[i].used,
         call' \in [Calls -> Call], \A d \in Calls \ {c} : call'[d] = call[d],
         call'[c].st \in {"send", "wait"}, call'[c].index = i,
         entry' \in [Index -> Entry],
         entry'[i].rid = c, entry'[i].used,
         entry'[i].outside => call'[c].st = "wait" /\ ~entry'[i].counted,
         \A j \in Index \ {i} : /\ entry'[j].rid = entry[j].rid
                                /\ entry'[j].used = entry[j].used
                                /\ entry'[j].outside = entry[j].outside
                                /\ entry'[j].counted = entry[j].counted
                                /\ ~entry[j].used => entry'[j] = entry[j],
         site' \in [Sites -> SiteEntry], \A s \in Sites : site'[s].status = site[s].status,
         UNCHANGED <<asked, timers, failures>>
  PROVE  /\ TypeOK' /\ Owned' /\ Unsent' /\ Members'
         /\ \A s \in Sites : /\ Outside(s)' = IF entry'[i].outside /\ s = Dest[c]
                                              THEN Outside(s) \cup {i} ELSE Outside(s)
                             /\ Counted(s)' = IF entry'[i].counted /\ s = Dest[c]
                                              THEN Counted(s) \cup {i} ELSE Counted(s)
                             /\ i \notin Outside(s) /\ i \notin Counted(s)
<1>1. /\ TypeOK /\ Owned /\ Unsent /\ Members
      /\ UsingSize \in Nat \ {0} /\ Dest \in [Calls -> Sites] /\ NoCall \notin Calls
  BY WindowAssumption DEF WindowInv
<1>2. /\ call \in [Calls -> Call] /\ call' \in [Calls -> Call]
      /\ call'[c].st \in {"send", "wait"} /\ call'[c].index = i
      /\ \A d \in Calls \ {c} : call'[d] = call[d]
  BY <1>1 DEF TypeOK
<1>3. TypeOK'
  BY <1>1, <1>2 DEF TypeOK
<1>4. \A j \in Index : entry[j].used => entry[j].rid # c
  BY <1>1 DEF Owned
<1>5. Owned'
  <2>1. \A j \in Index : ~entry'[j].used => entry'[j] = FreeEntry
    BY <1>1 DEF Owned
  <2>2. ASSUME NEW j \in Index, entry'[j].used
        PROVE  /\ entry'[j].rid \in Calls
               /\ call'[entry'[j].rid].index = j
               /\ call'[entry'[j].rid].st \in {"send", "wait"}
    <3>1. CASE j = i
      BY <3>1, <1>2
    <3>2. CASE j # i
      BY <3>2, <2>2, <1>1, <1>2, <1>4 DEF Owned
    <3> QED
      BY <3>1, <3>2
  <2>3. ASSUME NEW d \in Calls, call'[d].st \in {"send", "wait"}
        PROVE  /\ call'[d].index \in Index
               /\ entry'[call'[d].index].used
               /\ entry'[call'[d].index].rid = d
    <3>1. CASE d = c
      BY <3>1, <1>2
    <3>2. CASE d # c
      <4>1. /\ call'[d] = call[d] /\ call[d].index \in Index
            /\ entry[call[d].index].used /\ entry[call[d].index].rid = d
        BY <3>2, <2>3, <1>1, <1>2 DEF Owned
      <4> QED
        BY <4>1
    <3> QED
      BY <3>1, <3>2
  <2> QED
    BY <2>1, <2>2, <2>3 DEF Owned
<1>6. Unsent'
  <2>1. \A d \in asked : d # c /\ call'[d].st \in {"wait", "over"}
    BY <1>1, <1>2 DEF Unsent, TypeOK
  <2>2. ASSUME NEW j \in Index, entry'[j].outside
        PROVE  /\ entry'[j].used /\ ~entry'[j].counted
               /\ entry'[j].rid \notin asked /\ call'[entry'[j].rid].st = "wait"
    <3>1. CASE j = i
      BY <3>1, <2>1, <2>2, <1>2
    <3>2. CASE j # i
      <4>1. /\ entry[j].used /\ ~entry[j].counted /\ entry[j].rid \in Calls \ {c}
            /\ entry[j].rid \notin asked /\ call[entry[j].rid].st = "wait"
        BY <3>2, <2>2, <1>1, <1>4 DEF Unsent, Owned
      <4> QED
        BY <4>1, <3>2, <1>2
    <3> QED
      BY <3>1, <3>2
  <2>3. \A j \in Index : entry'[j].counted => entry'[j].used
    BY <1>1 DEF Unsent
  <2> QED
    BY <2>1, <2>2, <2>3, <1>1 DEF Unsent
<1>7. Members'
  <2>1. \A d \in Calls : call'[d].st \in {"get", "send"} => site'[Dest[d]].status = "member"
    BY <1>1, <1>2 DEF Members, IsMember
  <2>2. \A j \in Index : entry'[j].used => site'[Dest[entry'[j].rid]].status # "inactive"
    BY <1>1 DEF Members, IsMember, Owned
  <2> QED
    BY <2>1, <2>2 DEF Members, IsMember
<1>8. ~entry[i].outside /\ ~entry[i].counted
  BY <1>1 DEF Unsent
<1>9. ASSUME NEW s \in Sites
      PROVE  /\ Outside(s)' = IF entry'[i].outside /\ s = Dest[c]
                               THEN Outside(s) \cup {i} ELSE Outside(s)
             /\ Counted(s)' = IF entry'[i].counted /\ s = Dest[c]
                               THEN Counted(s) \cup {i} ELSE Counted(s)
             /\ i \notin Outside(s) /\ i \notin Counted(s)
  <2>1. \A j \in Index : j \in Outside(s)' <=> IF j = i THEN entry'[i].outside /\ s = Dest[c]
                                                         ELSE j \in Outside(s)
    BY DEF Outside
  <2>2. \A j \in Index : j \in Counted(s)' <=> IF j = i THEN entry'[i].counted /\ s = Dest[c]
                                                         ELSE j \in Counted(s)
    BY DEF Counted
  <2>3. /\ Outside(s) \subseteq Index /\ Outside(s)' \subseteq Index
        /\ Counted(s) \subseteq Index /\ Counted(s)' \subseteq Index
    BY DEF Outside, Counted
  <2>4. i \notin Outside(s) /\ i \notin Counted(s)
    BY <1>8 DEF Outside, Counted
  <2>5. Outside(s)' = IF entry'[i].outside /\ s = Dest[c]
                      THEN Outside(s) \cup {i} ELSE Outside(s)
    <3>1. CASE entry'[i].outside /\ s = Dest[c]
      <4>1. \A j \in Index : j \in Outside(s)' <=> j = i \/ j \in Outside(s)
        BY <3>1, <2>1
      <4> QED
        BY <3>1, <4>1, <2>3
    <3>2. CASE ~(entry'[i].outside /\ s = Dest[c])
      <4>1. \A j \in Index : j \in Outside(s)' <=> j \in Outside(s)
        BY <3>2, <2>1, <2>4
      <4> QED
        BY <3>2, <4>1, <2>3
    <3> QED
      BY <3>1, <3>2
  <2>6. Counted(s)' = IF entry'[i].counted /\ s = Dest[c]
                      THEN Counted(s) \cup {i} ELSE Counted(s)
    <3>1. CASE entry'[i].counted /\ s = Dest[c]
      <4>1. \A j \in Index : j \in Counted(s)' <=> j = i \/ j \in Counted(s)
        BY <3>1, <2>2
      <4> QED
        BY <3>1, <4>1, <2>3
    <3>2. CASE ~(entry'[i].counted /\ s = Dest[c])
      <4>1. \A j \in Index : j \in Counted(s)' <=> j \in Counted(s)
        BY <3>2, <2>2, <2>4
      <4> QED
        BY <3>2, <4>1, <2>3
    <3> QED
      BY <3>1, <3>2
  <2> QED
    BY <2>4, <2>5, <2>6
<1> QED
  BY <1>3, <1>5, <1>6, <1>7, <1>9

\* The new entry hangs behind the others on the queue.
LEMMA HangBehind ==
  ASSUME NEW s \in Sites, NEW i \in Index, Window(s), i \notin Outside(s),
         Outside(s)' = Outside(s) \cup {i}, Counted(s)' = Counted(s),
         site'[s].head = IF site[s].head = 0 THEN i ELSE site[s].head,
         site'[s].tail = i, site'[s].count = site[s].count,
         site[s].count = WindowSize,
         entry'[i].next = 0,
         \A j \in Outside(s) : entry'[j].next = IF j = site[s].tail THEN i ELSE entry[j].next
  PROVE  Window(s)'
<1>1. PICK n \in Nat : \E q \in [1..n -> Index] : Hangs(s, n, q)
  BY DEF Window
<1>2. PICK q \in [1..n -> Index] : Hangs(s, n, q)
  BY <1>1
<1> DEFINE m == n + 1
           r == [k \in 1..m |-> IF k = m THEN i ELSE q[k]]
<1>3. m \in Nat /\ 1..m = (1..n) \cup {m} /\ m \notin 1..n /\ m # 0
  OBVIOUS
<1>4. \A k \in 1..n : q[k] \in Outside(s) /\ q[k] # i /\ q[k] \in Index
  BY <1>2 DEF Hangs
<1>5. r \in [1..m -> Index]
  BY <1>3, <1>4
<1>6. \A j, k \in 1..m : r[j] = r[k] => j = k
  <2>1. \A j, k \in 1..n : q[j] = q[k] => j = k
    BY <1>2 DEF Hangs
  <2> QED
    BY <2>1, <1>3, <1>4
<1>7. \A j \in Index : j \in Outside(s)' <=> \E k \in 1..m : r[k] = j
  <2>1. \A j \in Index : j \in Outside(s) <=> \E k \in 1..n : q[k] = j
    BY <1>2 DEF Hangs
  <2> QED
    BY <2>1, <1>3, <1>4
<1>8. i # 0 /\ \A k \in 1..n : q[k] # 0
  <2>1. UsingSize \in Nat
    BY WindowAssumption
  <2> QED
    BY <2>1, <1>4 DEF Index
<1>9. site'[s].head = r[1]
  <2>1. CASE n = 0
    BY <2>1, <1>2, <1>3 DEF Hangs
  <2>2. CASE n # 0
    BY <2>2, <1>2, <1>3, <1>8 DEF Hangs
  <2> QED
    BY <2>1, <2>2
<1>10. ASSUME NEW k \in 1..m
       PROVE  entry'[r[k]].next = IF k = m THEN 0 ELSE r[k + 1]
  <2>1. CASE k = m
    BY <2>1
  <2>2. CASE k = n /\ k # m
    <3>1. k \in 1..n /\ q[k] = site[s].tail /\ r[k] = q[k] /\ r[k + 1] = i
      BY <2>2, <1>2, <1>3 DEF Hangs
    <3> QED
      BY <3>1, <2>2, <1>4
  <2>3. CASE k # n /\ k # m
    <3>1. /\ k \in 1..n /\ k + 1 \in 1..n /\ n \in 1..n /\ k + 1 # m
          /\ r[k] = q[k] /\ r[k + 1] = q[k + 1]
      BY <2>3
    <3>2. q[k] # q[n] /\ site[s].tail = q[n]
      BY <3>1, <2>3, <1>2 DEF Hangs
    <3>3. entry[q[k]].next = q[k + 1]
      BY <3>1, <2>3, <1>2 DEF Hangs
    <3> QED
      BY <3>1, <3>2, <3>3, <2>3, <1>4
  <2> QED
    BY <2>1, <2>2, <2>3
<1>11. Hangs(s, m, r)'
  <2> HIDE DEF r, m
  <2>1. site'[s].tail = r[m]
    BY <1>3 DEF r
  <2> QED
    BY <1>3, <1>5, <1>6, <1>7, <1>9, <1>10, <2>1 DEF Hangs
<1>12. (\E l \in Nat : \E p \in [1..l -> Index] : Hangs(s, l, p))'
  <2> HIDE DEF r, m
  <2> QED
    BY <1>3, <1>5, <1>11
<1> QED
  BY <1>12 DEF Window

\* The rest of net_request() once there is an entry.
LEMMA GoOnInv ==
  ASSUME WindowInv, NEW c \in Calls, call[c].st \in {"idle", "get"}, IsMember(Dest[c]),
         ~NoneFree, GoOn(c), UNCHANGED <<asked, timers, failures>>
  PROVE  WindowInv'
<1> DEFINE s == Dest[c]
<1>1. /\ TypeOK /\ Owned /\ Unsent /\ Members /\ s \in Sites /\ Window(s)
      /\ UsingSize \in Nat \ {0} /\ WindowSize \in Nat \ {0} /\ Dest \in [Calls -> Sites]
      /\ entry \in [Index -> Entry] /\ site \in [Sites -> SiteEntry]
  BY WindowAssumption DEF WindowInv, TypeOK
<1>2. PICK i \in Index : i = FirstFree /\ ~entry[i].used
  BY FirstFreeIsFree
<1>3. IsFiniteSet(Counted(s)) /\ i \in 0..UsingSize /\ i # 0
  BY <1>1, <1>2, CountedFinite DEF Index
<1>4. CASE /\ c \in Urgent /\ UNCHANGED site
           /\ entry' = [entry EXCEPT ![i] = [FreeEntry EXCEPT !.used = TRUE, !.rid = c]]
           /\ call' = [call EXCEPT ![c] = [st |-> "send", index |-> i]]
  <2>1. entry'[i] = [rid |-> c, used |-> TRUE, outside |-> FALSE, counted |-> FALSE, next |-> 0]
    BY <1>4, <1>1, <1>2 DEF FreeEntry
  <2>2. entry' \in [Index -> Entry] /\ \A j \in Index \ {i} : entry'[j] = entry[j]
    <3>1. entry'[i] \in Entry
      BY <2>1, <1>1 DEF Entry
    <3> QED
      BY <3>1, <1>4, <1>1, <1>2
  <2>3. /\ TypeOK' /\ Owned' /\ Unsent' /\ Members'
        /\ \A t \in Sites : /\ Outside(t)' = Outside(t) /\ Counted(t)' = Counted(t)
                            /\ i \notin Outside(t)
    <3>1. \A j \in Index \ {i} : /\ entry'[j].rid = entry[j].rid
                                 /\ entry'[j].used = entry[j].used
                                 /\ entry'[j].outside = entry[j].outside
                                 /\ entry'[j].counted = entry[j].counted
                                 /\ ~entry[j].used => entry'[j] = entry[j]
      BY <2>2
    <3>2. /\ call' \in [Calls -> Call] /\ \A d \in Calls \ {c} : call'[d] = call[d]
          /\ call'[c].st = "send" /\ call'[c].index = i
      BY <1>1, <1>3, <1>4 DEF TypeOK, Call, CallState
    <3>3. /\ entry'[i].rid = c /\ entry'[i].used /\ ~entry'[i].outside
          /\ ~entry'[i].counted
      BY <2>1
    <3>4. site' \in [Sites -> SiteEntry] /\ \A t \in Sites : site'[t].status = site[t].status
      BY <1>1, <1>4
    <3> QED
      BY <1>2, <2>2, <3>1, <3>2, <3>3, <3>4, NewEntry
  <2>4. ASSUME NEW t \in Sites, IsMember(t)' PROVE Window(t)'
    <3>1. Window(t)
      BY <1>4, <2>4 DEF IsMember, WindowInv
    <3> QED
      BY <3>1, <2>2, <2>3, <1>4, WindowFrame DEF Outside
  <2> QED
    BY <2>3, <2>4 DEF WindowInv
<1>5. CASE /\ c \notin Urgent /\ WindowOpen(s)
           /\ entry' = [entry EXCEPT ![i] =
                          [[FreeEntry EXCEPT !.used = TRUE, !.rid = c] EXCEPT !.counted = TRUE]]
           /\ site' = [site EXCEPT ![s].count = @ + 1]
           /\ call' = [call EXCEPT ![c] = [st |-> "send", index |-> i]]
  <2>1. entry'[i] = [rid |-> c, used |-> TRUE, outside |-> FALSE, counted |-> TRUE, next |-> 0]
    BY <1>5, <1>1, <1>2 DEF FreeEntry
  <2>2. entry' \in [Index -> Entry] /\ \A j \in Index \ {i} : entry'[j] = entry[j]
    <3>1. entry'[i] \in Entry
      BY <2>1, <1>1 DEF Entry
    <3> QED
      BY <3>1, <1>5, <1>1, <1>2
  <2>3. /\ site' \in [Sites -> SiteEntry] /\ \A t \in Sites : site'[t].status = site[t].status
        /\ site'[s].count = site[s].count + 1 /\ site'[s].head = site[s].head
        /\ site'[s].tail = site[s].tail
        /\ \A t \in Sites \ {s} : site'[t] = site[t]
    BY <1>1, <1>5 DEF SiteEntry, WindowOpen
  <2>4. /\ TypeOK' /\ Owned' /\ Unsent' /\ Members'
        /\ \A t \in Sites : /\ Outside(t)' = Outside(t)
                            /\ Counted(t)' = IF t = s THEN Counted(t) \cup {i} ELSE Counted(t)
                            /\ i \notin Outside(t) /\ i \notin Counted(t)
    <3>1. \A j \in Index \ {i} : /\ entry'[j].rid = entry[j].rid
                                 /\ entry'[j].used = entry[j].used
                                 /\ entry'[j].outside = entry[j].outside
                                 /\ entry'[j].counted = entry[j].counted
                                 /\ ~entry[j].used => entry'[j] = entry[j]
      BY <2>2
    <3>2. /\ call' \in [Calls -> Call] /\ \A d \in Calls \ {c} : call'[d] = call[d]
          /\ call'[c].st = "send" /\ call'[c].index = i
      BY <1>1, <1>3, <1>5 DEF TypeOK, Call, CallState
    <3>3. /\ entry'[i].rid = c /\ entry'[i].used /\ ~entry'[i].outside
          /\ entry'[i].counted
      BY <2>1
    <3> QED
      BY <1>2, <2>2, <2>3, <3>1, <3>2, <3>3, NewEntry
  <2>5. \A t \in Sites : \A j \in Outside(t) : entry'[j].next = entry[j].next
    BY <2>2, <2>4 DEF Outside
  <2>6. Window(s)'
    <3>1. site[s].head = 0 /\ site[s].count = Cardinality(Counted(s))
      BY <1>1, <1>5 DEF Window, WindowOpen, SiteEntry
    <3>2. Cardinality(Counted(s)') = Cardinality(Counted(s)) + 1
      BY <2>4, <1>1, <1>3, FS_AddElement
    <3>3. PICK n \in Nat : \E q \in [1..n -> Index] : Hangs(s, n, q)
      BY <1>1 DEF Window
    <3>4. PICK q \in [1..n -> Index] : Hangs(s, n, q)
      BY <3>3
    <3>5. Hangs(s, n, q)'
      <4>1. \A k \in 1..n : q[k] \in Outside(s)
        BY <3>4 DEF Hangs
      <4> QED
        BY <3>4, <4>1, <1>1, <2>3, <2>4, <2>5 DEF Hangs
    <3>6. (\E l \in Nat : \E p \in [1..l -> Index] : Hangs(s, l, p))'
      BY <3>5
    <3> QED
      BY <3>1, <3>2, <3>6, <2>3 DEF Window
  <2>7. ASSUME NEW t \in Sites, IsMember(t)' PROVE Window(t)'
    <3>1. CASE t = s
      BY <3>1, <2>6
    <3>2. CASE t # s
      <4>1. Window(t)
        BY <2>3, <2>7 DEF IsMember, WindowInv
      <4> QED
        BY <4>1, <3>2, <2>3, <2>4, <2>5, WindowFrame
    <3> QED
      BY <3>1, <3>2
  <2> QED
    BY <2>4, <2>7 DEF WindowInv
<1>6. CASE /\ c \notin Urgent /\ ~WindowOpen(s)
           /\ entry' = [Linked(s, i) EXCEPT ![i] =
                          [[FreeEntry EXCEPT !.used = TRUE, !.rid = c] EXCEPT !.outside = TRUE]]
           /\ site' = [site EXCEPT ![s].head = IF @ = 0 THEN i ELSE @, ![s].tail = i]
           /\ call' = [call EXCEPT ![c] = [st |-> "wait", index |-> i]]
  <2>1. site[s].head # 0 => site[s].tail \in Outside(s)
    <3>1. PICK n \in Nat : \E q \in [1..n -> Index] : Hangs(s, n, q)
      BY <1>1 DEF Window
    <3>2. PICK q \in [1..n -> Index] : Hangs(s, n, q)
      BY <3>1
    <3>3. CASE n = 0
      BY <3>2, <3>3 DEF Hangs
    <3>4. CASE n # 0
      <4>1. n \in 1..n
        BY <3>4
      <4> QED
        BY <3>2, <3>4, <4>1 DEF Hangs
    <3> QED
      BY <3>3, <3>4
  <2>2. \A j \in Outside(s) : j \in Index /\ entry[j].used /\ j # i
    BY <1>1, <1>2 DEF Outside, Unsent
  <2>3. /\ Linked(s, i) \in [Index -> Entry]
        /\ \A j \in Index : Linked(s, i)[j] = IF site[s].head # 0 /\ j = site[s].tail
                                              THEN [entry[j] EXCEPT !.next = i] ELSE entry[j]
    BY <1>1, <1>2, <1>3, <2>1, <2>2 DEF Linked, Entry
  <2>4. entry'[i] = [rid |-> c, used |-> TRUE, outside |-> TRUE, counted |-> FALSE, next |-> 0]
    BY <1>6, <1>2, <2>3 DEF FreeEntry
  <2>5. entry' \in [Index -> Entry] /\ \A j \in Index \ {i} : entry'[j] = Linked(s, i)[j]
    <3>1. entry'[i] \in Entry
      BY <2>4, <1>1 DEF Entry
    <3> QED
      BY <3>1, <1>6, <1>2, <2>3
  <2>6. \A j \in Index \ {i} : /\ entry'[j].rid = entry[j].rid
                               /\ entry'[j].used = entry[j].used
                               /\ entry'[j].outside = entry[j].outside
                               /\ entry'[j].counted = entry[j].counted
                               /\ ~entry[j].used => entry'[j] = entry[j]
                               /\ entry'[j].next = IF site[s].head # 0 /\ j = site[s].tail
                                                   THEN i ELSE entry[j].next
    <3>1. ASSUME NEW j \in Index \ {i}, site[s].head # 0, j = site[s].tail
          PROVE  entry'[j] = [entry[j] EXCEPT !.next = i] /\ entry[j].used
      BY <3>1, <2>1, <2>2, <2>3, <2>5
    <3>2. ASSUME NEW j \in Index \ {i}, ~(site[s].head # 0 /\ j = site[s].tail)
          PROVE  entry'[j] = entry[j]
      BY <3>2, <2>3, <2>5
    <3> TAKE j \in Index \ {i}
    <3>5. CASE site[s].head # 0 /\ j = site[s].tail
      <4>1. entry'[j] = [entry[j] EXCEPT !.next = i] /\ entry[j].used /\ entry[j] \in Entry
        BY <3>1, <3>5, <1>1
      <4>2. /\ entry'[j].rid = entry[j].rid /\ entry'[j].used = entry[j].used
            /\ entry'[j].outside = entry[j].outside /\ entry'[j].counted = entry[j].counted
            /\ entry'[j].next = i
        BY <4>1 DEF Entry
      <4> QED
        BY <4>1, <4>2, <3>5
    <3>6. CASE ~(site[s].head # 0 /\ j = site[s].tail)
      BY <3>2, <3>6
    <3> QED
      BY <3>5, <3>6
  <2>7. /\ site' \in [Sites -> SiteEntry] /\ \A t \in Sites : site'[t].status = site[t].status
        /\ site'[s].count = site[s].count
        /\ site'[s].head = (IF site[s].head = 0 THEN i ELSE site[s].head)
        /\ site'[s].tail = i
        /\ \A t \in Sites \ {s} : site'[t] = site[t]
    BY <1>1, <1>3, <1>6 DEF SiteEntry
  <2>8. /\ TypeOK' /\ Owned' /\ Unsent' /\ Members'
        /\ \A t \in Sites : /\ Outside(t)' = IF t = s THEN Outside(t) \cup {i} ELSE Outside(t)
                            /\ Counted(t)' = Counted(t)
                            /\ i \notin Outside(t) /\ i \notin Counted(t)
    <3>1. /\ call' \in [Calls -> Call] /\ \A d \in Calls \ {c} : call'[d] = call[d]
          /\ call'[c].st = "wait" /\ call'[c].index = i
      BY <1>1, <1>3, <1>6 DEF TypeOK, Call, CallState
    <3>2. \A j \in Index \ {i} : /\ entry'[j].rid = entry[j].rid
                                 /\ entry'[j].used = entry[j].used
                                 /\ entry'[j].outside = entry[j].outside
                                 /\ entry'[j].counted = entry[j].counted
                                 /\ ~entry[j].used => entry'[j] = entry[j]
      BY <2>6
    <3>3. /\ entry'[i].rid = c /\ entry'[i].used /\ entry'[i].outside
          /\ ~entry'[i].counted
      BY <2>4
    <3> QED
      BY <1>2, <2>5, <2>7, <3>1, <3>2, <3>3, NewEntry
  <2>9. Window(s)'
    <3>1. site[s].count = WindowSize
      <4>1. site[s].count \in 0..WindowSize /\ ~ (site[s].count < WindowSize)
        BY <1>1, <1>6 DEF WindowOpen, SiteEntry
      <4> QED
        BY <4>1, <1>1
    <3>2. ASSUME NEW j \in Outside(s)
          PROVE  entry'[j].next = IF j = site[s].tail THEN i ELSE entry[j].next
      <4>1. site[s].head # 0
        <5>1. PICK n \in Nat : \E q \in [1..n -> Index] : Hangs(s, n, q)
          BY <1>1 DEF Window
        <5>2. PICK q \in [1..n -> Index] : Hangs(s, n, q)
          BY <5>1
        <5>3. n # 0
          BY <5>2, <2>2 DEF Hangs
        <5>4. 1 \in 1..n /\ q[1] \in Index
          BY <5>3
        <5> QED
          BY <5>2, <5>3, <5>4, <1>1 DEF Hangs, Index
      <4> QED
        BY <4>1, <2>2, <2>6
    <3>3. entry'[i].next = 0
      BY <2>4
    <3> QED
      BY <3>1, <3>2, <3>3, <1>1, <1>2, <2>7, <2>8, HangBehind
  <2>10. ASSUME NEW t \in Sites, IsMember(t)' PROVE Window(t)'
    <3>1. CASE t = s
      BY <3>1, <2>9
    <3>2. CASE t # s
      <4>1. Window(t)
        BY <2>7, <2>10 DEF IsMember, WindowInv
      <4>2. ASSUME NEW j \in Outside(t) PROVE entry'[j].next = entry[j].next
        <5>1. j \in Index /\ j # i /\ j \notin Outside(s)
          BY <2>8, <3>2 DEF Outside
        <5> QED
          BY <5>1, <2>1, <2>6
      <4> QED
        BY <4>1, <4>2, <3>2, <2>7, <2>8, WindowFrame
    <3> QED
      BY <3>1, <3>2
  <2> QED
    BY <2>8, <2>10 DEF WindowInv
<1> QED
  BY <1>2, <1>4, <1>5, <1>6 DEF GoOn

\* net_request(), whether it finds the site a member and an entry free or not.
LEMMA NetRequestInv ==
  ASSUME WindowInv, NEW c \in Calls, net_request(c)
  PROVE  WindowInv'
<1>1. /\ TypeOK /\ Owned /\ Unsent /\ Members /\ Dest \in [Calls -> Sites]
      /\ call[c].st = "idle"
  BY WindowAssumption DEF WindowInv, net_request
<1>2. CASE IsMember(Dest[c]) /\ ~NoneFree /\ GoOn(c)
  BY <1>1, <1>2, GoOnInv DEF net_request
<1>3. CASE /\ UNCHANGED <<entry, site>>
           /\ \E st \in {"get", "over"} : /\ call' = [call EXCEPT ![c].st = st]
                                          /\ st = "get" => IsMember(Dest[c])
  <2>1. PICK st \in {"get", "over"} : /\ call' = [call EXCEPT ![c].st = st]
                                      /\ st = "get" => IsMember(Dest[c])
    BY <1>3
  <2>2. /\ call' \in [Calls -> Call] /\ call'[c].st = st
        /\ \A d \in Calls \ {c} : call'[d] = call[d]
    BY <2>1, <1>1 DEF TypeOK, Call, CallState
  <2>3. UNCHANGED <<asked, timers, failures>>
    BY DEF net_request
  <2>4. \A i \in Index : entry[i].used => entry[i].rid # c
    BY <1>1 DEF Owned
  <2>5. TypeOK'
    BY <1>1, <1>3, <2>2, <2>3 DEF TypeOK
  <2>6. Owned'
    BY <1>1, <1>3, <2>2, <2>4 DEF Owned
  <2>7. Unsent'
    <3>1. \A d \in asked : call'[d].st \in {"wait", "over"}
      BY <1>1, <2>2 DEF Unsent, TypeOK
    <3>2. \A i \in Index : entry[i].outside => call'[entry[i].rid].st = "wait"
      BY <1>1, <2>2, <2>4 DEF Unsent, Owned
    <3> QED
      BY <1>1, <1>3, <2>3, <3>1, <3>2 DEF Unsent
  <2>8. Members'
    BY <1>1, <1>3, <2>1, <2>2 DEF Members, IsMember
  <2>9. \A s \in Sites : IsMember(s)' => Window(s)'
    BY <1>3, WindowSame
  <2> QED
    BY <2>5, <2>6, <2>7, <2>8, <2>9 DEF WindowInv
<1> QED
  BY <1>2, <1>3 DEF net_request

\* get_using_array(), when there is an entry: the site is still a member.
LEMMA GetUsingArrayInv ==
  ASSUME WindowInv, NEW c \in Calls, get_using_array(c)
  PROVE  WindowInv'
<1>1. IsMember(Dest[c])
  BY DEF WindowInv, Members, get_using_array
<1> QED
  BY <1>1, GoOnInv DEF get_using_array

\* dux_send() finds its own request in the entry.
LEMMA DuxSendInv ==
  ASSUME WindowInv, NEW c \in Calls, dux_send(c)
  PROVE  WindowInv'
<1>1. /\ TypeOK /\ Owned /\ Unsent /\ Members /\ NoCall \notin Calls
      /\ call[c].st = "send"
  BY WindowAssumption DEF WindowInv, dux_send
<1>2. entry[call[c].index].rid = c
  BY <1>1 DEF Owned
<1>3. /\ asked' = asked \cup {c} /\ timers' = timers \cup {c}
      /\ UNCHANGED <<entry, site, failures>>
      /\ call' = [call EXCEPT ![c].st = "wait"]
  BY <1>1, <1>2 DEF dux_send
<1>4. /\ call' \in [Calls -> Call] /\ call'[c].st = "wait" /\ call'[c].index = call[c].index
      /\ \A d \in Calls \ {c} : call'[d] = call[d]
  BY <1>1, <1>3 DEF TypeOK, Call, CallState
<1>5. TypeOK'
  BY <1>1, <1>3, <1>4 DEF TypeOK
<1>6. Owned'
  BY <1>1, <1>3, <1>4 DEF Owned
<1>7. Unsent'
  <2>1. \A d \in asked' : call'[d].st \in {"wait", "over"}
    BY <1>1, <1>3, <1>4 DEF Unsent, TypeOK
  <2>2. \A i \in Index : entry[i].outside => /\ entry[i].rid \in Calls \ {c}
                                             /\ call'[entry[i].rid].st = "wait"
    BY <1>1, <1>4 DEF Unsent, Owned
  <2> QED
    BY <1>1, <1>3, <2>1, <2>2 DEF Unsent
<1>8. Members'
  BY <1>1, <1>3, <1>4 DEF Members, IsMember
<1>9. \A s \in Sites : IsMember(s)' => Window(s)'
  BY <1>3, WindowSame
<1> QED
  BY <1>5, <1>6, <1>7, <1>8, <1>9 DEF WindowInv

\* retry_request() sends nothing that has not been sent before.
LEMMA RetryRequestInv ==
  ASSUME WindowInv, NEW c \in Calls, retry_request(c)
  PROVE  WindowInv'
<1>1. /\ TypeOK /\ Owned /\ Unsent /\ Members
      /\ c \in timers /\ c \in asked
  BY DEF WindowInv, Unsent, retry_request
<1>2. asked' = asked /\ timers' \subseteq timers /\ UNCHANGED <<call, entry, site, failures>>
  BY <1>1 DEF retry_request
<1>3. TypeOK'
  BY <1>1, <1>2 DEF TypeOK
<1>4. Owned' /\ Unsent' /\ Members'
  BY <1>1, <1>2 DEF Owned, Unsent, Members, IsMember
<1>5. \A s \in Sites : IsMember(s)' => Window(s)'
  BY <1>2, WindowSame
<1> QED
  BY <1>3, <1>4, <1>5 DEF WindowInv

\* declare_failed(), while nobody is inside net_request() for the site.
LEMMA DeclareFailedInv ==
  ASSUME WindowInv, NEW s \in Sites, NobodyInside(s), declare_failed(s)
  PROVE  WindowInv'
<1>1. /\ TypeOK /\ Owned /\ Unsent /\ Members /\ Dest \in [Calls -> Sites]
      /\ MaxFailures \in Nat
  BY WindowAssumption DEF WindowInv
<1>2. /\ UNCHANGED <<call, entry, asked, timers>>
      /\ site' \in [Sites -> SiteEntry] /\ site'[s].status = "failed"
      /\ \A t \in Sites \ {s} : site'[t] = site[t]
      /\ failures' \in 0..MaxFailures
  BY <1>1 DEF declare_failed, TypeOK, SiteEntry
<1>3. TypeOK'
  BY <1>1, <1>2 DEF TypeOK
<1>4. Owned' /\ Unsent'
  BY <1>1, <1>2 DEF Owned, Unsent
<1>5. Members'
  BY <1>1, <1>2 DEF Members, IsMember, NobodyInside, Owned
<1>6. ASSUME NEW t \in Sites, IsMember(t)' PROVE Window(t)'
  <2>1. t # s
    BY <1>2, <1>6 DEF IsMember
  <2>2. Window(t)
    BY <1>2, <1>6, <2>1 DEF IsMember, WindowInv
  <2> QED
    BY <1>2, <2>1, <2>2, WindowFrame DEF Outside, Counted
<1> QED
  BY <1>3, <1>4, <1>5, <1>6 DEF WindowInv

\* cleanup_using_array() frees the entries of the site that failed, no others.
LEMMA CleanupInv ==
  ASSUME WindowInv, NEW s \in Sites, cleanup_using_array(s)
  PROVE  WindowInv'
<1> DEFINE lost == clean_u_entry(s)
<1>1. /\ TypeOK /\ Owned /\ Unsent /\ Members /\ Dest \in [Calls -> Sites]
      /\ NoCall \notin Calls /\ UsingSize \in Nat
  BY WindowAssumption DEF WindowInv
<1>2. /\ UNCHANGED <<asked, failures>> /\ timers' = timers \ lost
      /\ site' \in [Sites -> SiteEntry] /\ site'[s].status = "inactive"
      /\ \A t \in Sites \ {s} : site'[t] = site[t]
  BY <1>1 DEF cleanup_using_array, TypeOK, SiteEntry
<1>3. \A i \in Index : entry[i].rid \in lost <=> entry[i].used /\ Dest[entry[i].rid] = s
  BY <1>1 DEF clean_u_entry, EntryOf, Owned, FreeEntry
<1>4. \A i \in Index : entry'[i] = IF entry[i].used /\ Dest[entry[i].rid] = s
                                   THEN FreeEntry ELSE entry[i]
  BY <1>3 DEF cleanup_using_array
<1>5. \A c \in Calls : c \in lost <=> Dest[c] = s /\ call[c].st \in {"send", "wait"}
  BY <1>1 DEF clean_u_entry, EntryOf, Owned
<1>6. \A c \in Calls : c \in lost => call[c].st = "wait"
  BY <1>1, <1>5 DEF Members, IsMember, cleanup_using_array
<1>7. /\ call' \in [Calls -> Call]
      /\ \A c \in Calls : /\ c \in lost => call'[c].st = "over"
                          /\ c \notin lost => call'[c] = call[c]
  <2>1. call' = [c \in Calls |-> IF c \in lost THEN [call[c] EXCEPT !.st = Returned(c)] ELSE call[c]]
    BY DEF cleanup_using_array
  <2>2. \A c \in Calls : c \in lost => Returned(c) = "over"
    BY <1>6 DEF Returned
  <2>3. \A c \in Calls : call[c] \in Call
    BY <1>1 DEF TypeOK
  <2>4. \A c \in Calls : c \in lost => call'[c] \in Call /\ call'[c].st = "over"
    BY <2>1, <2>2, <2>3 DEF Call, CallState
  <2> HIDE DEF lost
  <2> QED
    BY <2>1, <2>3, <2>4
<1> HIDE DEF lost
<1>8. TypeOK'
  <2>1. entry' \in [Index -> Entry]
    <3>1. FreeEntry \in Entry
      BY <1>1 DEF FreeEntry, Entry
    <3> QED
      BY <3>1, <1>1, <1>4 DEF TypeOK, cleanup_using_array
  <2> QED
    BY <1>1, <1>2, <1>7, <2>1 DEF TypeOK
<1>9. Owned'
  <2>1. \A i \in Index : ~entry'[i].used => entry'[i] = FreeEntry
    BY <1>1, <1>4 DEF Owned
  <2>2. ASSUME NEW i \in Index, entry'[i].used
        PROVE  /\ entry'[i] = entry[i] /\ entry[i].rid \in Calls
               /\ call'[entry[i].rid] = call[entry[i].rid]
    BY <2>2, <1>1, <1>3, <1>4, <1>7 DEF FreeEntry, Owned
  <2>3. ASSUME NEW c \in Calls, call'[c].st \in {"send", "wait"}
        PROVE  /\ call'[c] = call[c] /\ call[c].index \in Index
               /\ entry'[call[c].index] = entry[call[c].index]
    BY <2>3, <1>1, <1>4, <1>5, <1>7 DEF Owned
  <2> QED
    BY <1>1, <2>1, <2>2, <2>3 DEF Owned
<1>10. Unsent'
  <2>1. \A c \in asked : call'[c].st \in {"wait", "over"}
    BY <1>1, <1>7 DEF Unsent, TypeOK
  <2>2. \A i \in Index : entry'[i].outside \/ entry'[i].counted =>
           /\ entry'[i] = entry[i] /\ entry[i].used /\ entry[i].rid \in Calls
           /\ call'[entry[i].rid] = call[entry[i].rid]
    BY <1>1, <1>3, <1>4, <1>7 DEF FreeEntry, Owned, Unsent
  <2> QED
    BY <1>1, <1>2, <2>1, <2>2 DEF Unsent
<1>11. Members'
  <2>1. \A c \in Calls : call'[c].st \in {"get", "send"} => call'[c] = call[c]
    BY <1>7
  <2>2. \A c \in Calls : call'[c].st \in {"get", "send"} => Dest[c] # s
    BY <2>1, <1>1 DEF Members, IsMember, cleanup_using_array
  <2>3. \A i \in Index : entry'[i].used => entry'[i] = entry[i] /\ Dest[entry[i].rid] \in Sites \ {s}
    BY <1>1, <1>4 DEF FreeEntry, Owned
  <2> QED
    BY <1>1, <1>2, <2>1, <2>2, <2>3 DEF Members, IsMember
<1>12. ASSUME NEW t \in Sites, IsMember(t)' PROVE Window(t)'
  <2>1. t # s
    BY <1>2, <1>12 DEF IsMember
  <2>2. Window(t)
    BY <1>2, <1>12, <2>1 DEF IsMember, WindowInv
  <2>3. \A i \in Index : /\ i \in Outside(t)' <=> i \in Outside(t)
                         /\ i \in Counted(t)' <=> i \in Counted(t)
                         /\ i \in Outside(t) => entry'[i] = entry[i]
    BY <2>1, <1>1, <1>4 DEF Outside, Counted, FreeEntry
  <2>4. Outside(t)' = Outside(t) /\ Counted(t)' = Counted(t) /\ Outside(t) \subseteq Index
    <3>1. /\ Outside(t)' \subseteq Index /\ Outside(t) \subseteq Index
          /\ Counted(t)' \subseteq Index /\ Counted(t) \subseteq Index
      BY DEF Outside, Counted
    <3> QED
      BY <2>3, <3>1
  <2> QED
    BY <1>2, <2>1, <2>2, <2>3, <2>4, WindowFrame
<1> QED
  BY <1>8, <1>9, <1>10, <1>11, <1>12 DEF WindowInv

\* add_site(): no entry is for a site that joins, so that its empty window is exact.
LEMMA AddSiteInv ==
  ASSUME WindowInv, NEW s \in Sites, add_site(s)
  PROVE  WindowInv'
<1>1. /\ TypeOK /\ Owned /\ Unsent /\ Members /\ Dest \in [Calls -> Sites]
      /\ UsingSize \in Nat /\ WindowSize \in Nat
  BY WindowAssumption DEF WindowInv
<1>2. /\ UNCHANGED <<call, entry, asked, timers, failures>>
      /\ site' \in [Sites -> SiteEntry]
      /\ site'[s] = [status |-> "member", count |-> 0, head |-> 0, tail |-> 0]
      /\ \A t \in Sites \ {s} : site'[t] = site[t]
  BY <1>1 DEF add_site, TypeOK, SiteEntry
<1>3. TypeOK'
  BY <1>1, <1>2 DEF TypeOK
<1>4. Owned' /\ Unsent'
  BY <1>1, <1>2 DEF Owned, Unsent
<1>5. Members'
  BY <1>1, <1>2 DEF Members, IsMember, Owned
<1>6. Window(s)'
  <2>1. Outside(s) = {} /\ Counted(s) = {}
    BY <1>1 DEF Outside, Counted, Unsent, Members, add_site
  <2>2. Outside(s)' = {} /\ Counted(s)' = {}
    BY <1>2, <2>1 DEF Outside, Counted
  <2>3. <<>> \in [1..0 -> Index] /\ Hangs(s, 0, <<>>)'
    BY <2>2, <1>2 DEF Hangs
  <2>4. (\E n \in Nat : \E q \in [1..n -> Index] : Hangs(s, n, q))'
    BY <2>3
  <2> QED
    BY <1>2, <2>2, <2>4, FS_EmptySet DEF Window
<1>7. ASSUME NEW t \in Sites, IsMember(t)' PROVE Window(t)'
  <2>1. CASE t = s
    BY <2>1, <1>6
  <2>2. CASE t # s
    <3>1. Window(t)
      BY <1>2, <1>7, <2>2 DEF IsMember, WindowInv
    <3> QED
      BY <1>2, <2>2, <3>1, WindowFrame DEF Outside, Counted
  <2> QED
    BY <2>1, <2>2
<1> QED
  BY <1>3, <1>4, <1>5, <1>7 DEF WindowInv
-----------------------------------------------------------------------------
(* Answers, and the requests that they let into the window.                *)

\* The entries that check_protocol_window() takes off the queue of s.
Let(s) == {Queue(s)[k] : k \in Admitted(s)}

\* Only the first one is let in, since somebody waits only for a full window.
LEMMA LetIn ==
  ASSUME WindowInv, NEW s \in Sites, IsMember(s), NEW i \in Counted(s)
  PROVE  /\ site[s].count \in 1..WindowSize
         /\ \/ /\ site[s].head = 0 /\ Outside(s) = {}
               /\ Let(s) = {} /\ Admitted(s) = {} /\ Cardinality(Admitted(s)) = 0
            \/ /\ site[s].head \in Outside(s) /\ site[s].count = WindowSize
               /\ Let(s) = {site[s].head} /\ Cardinality(Admitted(s)) = 1
               /\ (IF 1 < UsingSize THEN Queue(s)[2] ELSE 0) = entry[site[s].head].next
<1>1. /\ TypeOK /\ Window(s) /\ UsingSize \in Nat \ {0} /\ WindowSize \in Nat \ {0}
      /\ site[s] \in SiteEntry
  BY WindowAssumption DEF WindowInv, TypeOK
<1>2. site[s].count \in 1..WindowSize
  <2>1. IsFiniteSet(Counted(s))
    BY CountedFinite
  <2>2. Cardinality(Counted(s)) # 0
    BY <2>1, FS_EmptySet
  <2> QED
    BY <2>2, <1>1 DEF Window, SiteEntry
<1>3. PICK n \in Nat : \E q \in [1..n -> Index] : Hangs(s, n, q)
  BY <1>1 DEF Window
<1>4. PICK q \in [1..n -> Index] : Hangs(s, n, q)
  BY <1>3
<1>5. n <= UsingSize /\ Queue(s) = [k \in Index |-> IF k <= n THEN q[k] ELSE 0]
  BY <1>1, <1>4, QueueIs
<1>6. Admitted(s) = {k \in 1..WindowSize - site[s].count + 1 : k \in Index /\ Queue(s)[k] # 0}
  BY <1>1, <1>2 DEF Admitted
<1>7. CASE n = 0
  <2>1. Admitted(s) = {}
    BY <1>5, <1>6, <1>7, <1>1 DEF Index
  <2>2. Outside(s) = {} /\ site[s].head = 0
    BY <1>4, <1>7 DEF Hangs, Outside
  <2> QED
    BY <2>1, <2>2, <1>2, FS_EmptySet DEF Let
<1>8. CASE n # 0
  <2>1. 1 \in 1..n /\ q[1] \in Index /\ q[1] # 0 /\ 1 \in Index
    BY <1>8, <1>1 DEF Index
  <2>2. site[s].head = q[1] /\ q[1] \in Outside(s)
    BY <1>4, <1>8, <2>1 DEF Hangs
  <2>3. site[s].count = WindowSize
    BY <1>1, <2>1, <2>2 DEF Window
  <2>4. Admitted(s) = {1}
    <3>1. 1..WindowSize - site[s].count + 1 = {1}
      BY <2>3, <1>1
    <3> QED
      BY <3>1, <1>5, <1>6, <2>1
  <2>5. Let(s) = {q[1]}
    BY <2>4, <1>5, <2>1 DEF Let
  <2>6. (IF 1 < UsingSize THEN Queue(s)[2] ELSE 0) = entry[q[1]].next
    <3>1. entry[q[1]].next = IF 1 = n THEN 0 ELSE q[2]
      BY <1>4, <2>1 DEF Hangs
    <3>2. 1 < UsingSize => Queue(s)[2] = IF 2 <= n THEN q[2] ELSE 0
      BY <1>5, <1>1 DEF Index
    <3> QED
      BY <3>1, <3>2, <1>5, <1>8, <1>1
  <2> QED
    BY <1>2, <2>2, <2>3, <2>4, <2>5, <2>6, FS_Singleton
<1> QED
  BY <1>7, <1>8

\* The windows after check_protocol_window(): the first on the queue takes the
\* place of the one that is done with.
LEMMA WindowOpensWindow ==
  ASSUME WindowInv, NEW s \in Sites, IsMember(s), NEW i \in Counted(s), NEW left \in Entry,
         ~left.outside, ~left.counted, WindowOpens(s, i, left)
  PROVE  /\ entry' \in [Index -> Entry] /\ site' \in [Sites -> SiteEntry]
         /\ \A t \in Sites : site'[t].status = site[t].status
         /\ \A t \in Sites : IsMember(t)' => Window(t)'
         /\ Let(s) \subseteq Outside(s) /\ entry'[i] = left
         /\ \A j \in Index \ {i} : entry'[j] =
              IF j \in Let(s) THEN [entry[j] EXCEPT !.outside = FALSE, !.counted = TRUE, !.next = 0]
              ELSE entry[j]
         /\ asked' = asked \cup Sent(s)
         /\ Sent(s) = {entry[j].rid : j \in Let(s)}
<1>1. /\ TypeOK /\ Owned /\ Unsent /\ Window(s) /\ Dest \in [Calls -> Sites]
      /\ UsingSize \in Nat \ {0} /\ WindowSize \in Nat \ {0}
      /\ entry \in [Index -> Entry] /\ site \in [Sites -> SiteEntry]
      /\ i \in Index /\ entry[i].counted /\ entry[i].used /\ ~entry[i].outside
      /\ Dest[entry[i].rid] = s /\ Let(s) \subseteq Outside(s)
  BY WindowAssumption, LetIn DEF WindowInv, TypeOK, Counted, Unsent
<1>2. site[s].count \in 1..WindowSize /\ site[s].count # 0
  BY LetIn
<1>3. /\ entry' = [j \in Index |->
             IF j = i THEN left
             ELSE IF j \in Let(s)
                  THEN [entry[j] EXCEPT !.outside = FALSE, !.counted = TRUE, !.next = 0]
                  ELSE entry[j]]
      /\ asked' = asked \cup {entry[j].rid : j \in Let(s)}
  BY DEF WindowOpens, Let
<1>4. Sent(s) = {entry[j].rid : j \in Let(s)}
  BY DEF Sent, Let
<1>5. \A j \in Index : j \in Let(s) =>
         /\ [entry[j] EXCEPT !.outside = FALSE, !.counted = TRUE, !.next = 0] \in Entry
         /\ ~[entry[j] EXCEPT !.outside = FALSE, !.counted = TRUE, !.next = 0].outside
         /\ [entry[j] EXCEPT !.outside = FALSE, !.counted = TRUE, !.next = 0].counted
         /\ [entry[j] EXCEPT !.outside = FALSE, !.counted = TRUE, !.next = 0].rid = entry[j].rid
  <2> SUFFICES ASSUME NEW j \in Index
               PROVE  /\ [entry[j] EXCEPT !.outside = FALSE, !.counted = TRUE, !.next = 0] \in Entry
                      /\ ~[entry[j] EXCEPT !.outside = FALSE, !.counted = TRUE, !.next = 0].outside
                      /\ [entry[j] EXCEPT !.outside = FALSE, !.counted = TRUE, !.next = 0].counted
                      /\ [entry[j] EXCEPT !.outside = FALSE, !.counted = TRUE, !.next = 0].rid = entry[j].rid
    OBVIOUS
  <2>1. entry[j] \in Entry /\ 0 \in 0..UsingSize
    BY <1>1
  <2> QED
    BY <2>1 DEF Entry
<1>6. entry' \in [Index -> Entry]
  BY <1>1, <1>3, <1>5
<1>7. \A j \in Index : /\ j = i => entry'[j] = left
                       /\ j # i /\ j \in Let(s) => /\ ~entry'[j].outside /\ entry'[j].counted
                                                   /\ entry'[j].rid = entry[j].rid
                       /\ j # i /\ j \notin Let(s) => entry'[j] = entry[j]
  <2>1. \A j \in Index : entry'[j] = IF j = i THEN left
             ELSE IF j \in Let(s)
                  THEN [entry[j] EXCEPT !.outside = FALSE, !.counted = TRUE, !.next = 0]
                  ELSE entry[j]
    BY <1>3
  <2> QED
    BY <2>1, <1>5
<1>8. \A j \in Let(s) : j \in Index /\ j # i /\ entry[j].outside /\ ~entry[j].counted /\ Dest[entry[j].rid] = s
  BY <1>1 DEF Outside, Unsent
<1>9. ASSUME NEW t \in Sites
      PROVE  /\ Outside(t)' = Outside(t) \ Let(s)
             /\ Counted(t)' = IF t = s THEN (Counted(t) \ {i}) \cup Let(s) ELSE Counted(t)
             /\ t # s => Outside(t) \cap Let(s) = {}
             /\ i \notin Outside(t)
  <2>1. \A j \in Index : j \in Outside(t)' <=> j \in Outside(t) /\ j \notin Let(s)
    BY <1>1, <1>7 DEF Outside
  <2>2. \A j \in Index : j \in Counted(t)' <=> \/ j \in Counted(t) /\ j # i
                                               \/ t = s /\ j \in Let(s)
    BY <1>1, <1>7, <1>8 DEF Counted
  <2>3. /\ Outside(t)' \subseteq Index /\ Outside(t) \subseteq Index
        /\ Counted(t)' \subseteq Index /\ Counted(t) \subseteq Index
    BY DEF Outside, Counted
  <2>4. t # s => i \notin Counted(t)
    BY <1>1 DEF Counted
  <2>5. Outside(t)' = Outside(t) \ Let(s)
    BY <2>1, <2>3
  <2>6. Counted(t)' = IF t = s THEN (Counted(t) \ {i}) \cup Let(s) ELSE Counted(t)
    <3>1. CASE t = s
      BY <3>1, <2>2, <2>3, <1>8
    <3>2. CASE t # s
      BY <3>2, <2>2, <2>3, <2>4
    <3> QED
      BY <3>1, <3>2
  <2>7. t # s => Outside(t) \cap Let(s) = {}
    BY <1>8 DEF Outside
  <2>8. i \notin Outside(t)
    BY <1>1 DEF Outside
  <2> QED
    BY <2>5, <2>6, <2>7, <2>8
<1> DEFINE n == Cardinality(Admitted(s))
           rest == IF n < UsingSize /\ n > 0 THEN Queue(s)[n + 1]
                   ELSE IF n = 0 THEN site[s].head ELSE 0
<1>10. site' = [site EXCEPT ![s].count = @ - 1 + n, ![s].head = rest,
                            ![s].tail = IF rest = 0 THEN 0 ELSE @]
  BY <1>2 DEF WindowOpens
<1>11. IsFiniteSet(Counted(s)) /\ site[s].count = Cardinality(Counted(s))
  BY <1>1, CountedFinite DEF Window
<1>12. PICK m \in Nat : \E q \in [1..m -> Index] : Hangs(s, m, q)
  BY <1>1 DEF Window
<1>13. PICK q \in [1..m -> Index] : Hangs(s, m, q)
  BY <1>12
<1>14. CASE site[s].head = 0
  <2>1. Outside(s) = {} /\ Let(s) = {} /\ n = 0 /\ rest = 0
    BY <1>14, LetIn DEF Outside, Index
  <2>2. /\ site' \in [Sites -> SiteEntry] /\ site'[s].count = site[s].count - 1
        /\ site'[s].head = 0 /\ site'[s].tail = 0
        /\ \A t \in Sites : site'[t].status = site[t].status
        /\ \A t \in Sites \ {s} : site'[t] = site[t]
    <3>1. site[s].count - 1 + n \in 0..WindowSize /\ site[s].count - 1 + n = site[s].count - 1
      BY <1>1, <1>2, <2>1
    <3> HIDE DEF rest, n
    <3>2. site' = [site EXCEPT ![s] = [site[s] EXCEPT !.count = site[s].count - 1, !.head = 0, !.tail = 0]]
      BY <1>1, <1>10, <2>1, <3>1
    <3>3. site[s] \in SiteEntry /\ 0 \in 0..UsingSize /\ site[s].count - 1 \in 0..WindowSize
      BY <1>1, <3>1
    <3> DEFINE f == [site[s] EXCEPT !.count = site[s].count - 1, !.head = 0, !.tail = 0]
    <3>4. /\ f \in SiteEntry /\ f.count = site[s].count - 1 /\ f.head = 0 /\ f.tail = 0
          /\ f.status = site[s].status
      BY <3>3 DEF SiteEntry
    <3>5. site' = [site EXCEPT ![s] = f]
      BY <3>2
    <3> HIDE DEF f
    <3> QED
      BY <1>1, <3>4, <3>5
  <2>3. Cardinality(Counted(s)') = site[s].count - 1
    BY <1>9, <1>11, <2>1, FS_RemoveElement
  <2>4. Hangs(s, 0, <<>>)' /\ <<>> \in [1..0 -> Index]
    BY <2>1, <2>2, <1>9 DEF Hangs
  <2>5. (\E l \in Nat : \E r \in [1..l -> Index] : Hangs(s, l, r))'
    BY <2>4
  <2>6. Window(s)'
    BY <2>2, <2>3, <2>5 DEF Window
  <2>7. ASSUME NEW t \in Sites, IsMember(t)' PROVE Window(t)'
    <3>1. CASE t = s
      BY <3>1, <2>6
    <3>2. CASE t # s
      <4>1. Window(t)
        BY <2>2, <2>7 DEF IsMember, WindowInv
      <4>2. \A j \in Outside(t) : entry'[j] = entry[j]
        BY <1>7, <1>9, <2>1 DEF Outside
      <4> QED
        BY <4>1, <4>2, <3>2, <2>1, <2>2, <1>9, WindowFrame
    <3> QED
      BY <3>1, <3>2
  <2> QED
    BY <1>1, <1>3, <1>4, <1>6, <2>2, <2>7
<1>15. CASE site[s].head # 0
  <2> DEFINE h == site[s].head
  <2>1. /\ h \in Outside(s) /\ Let(s) = {h} /\ n = 1 /\ rest = entry[h].next
        /\ site[s].count = WindowSize
    BY <1>15, LetIn
  <2>2. /\ site' \in [Sites -> SiteEntry] /\ site'[s].count = site[s].count
        /\ site'[s].head = entry[h].next
        /\ site'[s].tail = (IF entry[h].next = 0 THEN 0 ELSE site[s].tail)
        /\ \A t \in Sites : site'[t].status = site[t].status
        /\ \A t \in Sites \ {s} : site'[t] = site[t]
    <3>1. entry[h].next \in 0..UsingSize
      BY <1>1, <2>1 DEF Outside, Entry
    <3>2. site[s].count - 1 + n = site[s].count
      BY <2>1, <1>2
    <3> HIDE DEF rest, n
    <3>3. site' = [site EXCEPT ![s] = [site[s] EXCEPT !.count = site[s].count, !.head = entry[h].next,
                                         !.tail = IF entry[h].next = 0 THEN 0 ELSE site[s].tail]]
      BY <1>1, <1>10, <2>1, <3>2
    <3>4. /\ site[s] \in SiteEntry /\ site[s].count \in 0..WindowSize
          /\ (IF entry[h].next = 0 THEN 0 ELSE site[s].tail) \in 0..UsingSize
      BY <1>1 DEF SiteEntry
    <3> DEFINE l == IF entry[h].next = 0 THEN 0 ELSE site[s].tail
               f == [site[s] EXCEPT !.count = site[s].count, !.head = entry[h].next, !.tail = l]
    <3>5. /\ f \in SiteEntry /\ f.count = site[s].count /\ f.head = entry[h].next /\ f.tail = l
          /\ f.status = site[s].status
      <4> HIDE DEF l
      <4>1. l \in 0..UsingSize
        BY <3>4 DEF l
      <4> QED
        BY <3>1, <3>4, <4>1 DEF SiteEntry
    <3>6. site' = [site EXCEPT ![s] = f]
      BY <3>3
    <3> HIDE DEF f
    <3> QED
      BY <1>1, <3>5, <3>6
  <2>3. Cardinality(Counted(s)') = site[s].count
    <3>1. Cardinality(Counted(s) \ {i}) = site[s].count - 1 /\ IsFiniteSet(Counted(s) \ {i})
      BY <1>11, FS_RemoveElement
    <3>2. Counted(s)' = (Counted(s) \ {i}) \cup {h} /\ h \notin Counted(s)
      BY <1>8, <1>9, <2>1 DEF Counted
    <3>3. Cardinality((Counted(s) \ {i}) \cup {h}) = Cardinality(Counted(s) \ {i}) + 1
      BY <3>1, <3>2, FS_AddElement
    <3> QED
      BY <3>1, <3>2, <3>3, <1>2
  <2>4. m # 0 /\ h = q[1] /\ 1 \in 1..m
    BY <1>13, <1>15 DEF Hangs
  <2>5. (\E l \in Nat : \E r \in [1..l -> Index] : Hangs(s, l, r))'
    <3> DEFINE l == m - 1
               r == [k \in 1..l |-> q[k + 1]]
    <3>1. l \in Nat /\ \A k \in 1..l : k + 1 \in 1..m
      BY <2>4
    <3>2. r \in [1..l -> Index]
      BY <3>1
    <3>3. \A j, k \in 1..m : q[j] = q[k] => j = k
      BY <1>13 DEF Hangs
    <3>4. \A j, k \in 1..l : r[j] = r[k] => j = k
      <4>1. \A j, k \in 1..l : r[j] = r[k] => j + 1 = k + 1
        BY <3>1, <3>3
      <4> QED
        BY <4>1, <3>1
    <3>5. ASSUME NEW j \in Index PROVE j \in Outside(s)' <=> \E k \in 1..l : r[k] = j
      <4>1. j \in Outside(s) <=> \E k \in 1..m : q[k] = j
        BY <1>13 DEF Hangs
      <4>2. ASSUME NEW k \in 1..l, r[k] = j PROVE j \in Outside(s)'
        <5>1. q[k + 1] = j /\ k + 1 \in 1..m /\ k + 1 # 1
          BY <4>2, <3>1
        <5>2. j # h
          BY <5>1, <2>4, <3>3
        <5> QED
          BY <5>1, <5>2, <4>1, <1>9, <2>1
      <4>3. ASSUME j \in Outside(s)' PROVE \E k \in 1..l : r[k] = j
        <5>1. j \in Outside(s) /\ j # h
          BY <4>3, <1>9, <2>1
        <5>2. PICK k \in 1..m : q[k] = j
          BY <5>1, <4>1
        <5>3. k # 1
          BY <5>1, <5>2, <2>4
        <5>4. k - 1 \in 1..l /\ r[k - 1] = q[k]
          BY <5>3, <2>4
        <5> QED
          BY <5>2, <5>4
      <4> QED
        BY <4>2, <4>3
    <3>6. entry[h].next = IF 1 = m THEN 0 ELSE q[2]
      BY <1>13, <2>4 DEF Hangs
    <3>7. \A k \in 1..m : q[k] \in Index /\ q[k] # 0
      BY <1>1 DEF Index
    <3>8. site'[s].head = IF l = 0 THEN 0 ELSE r[1]
      BY <3>6, <2>2, <2>4
    <3>9. site'[s].tail = IF l = 0 THEN 0 ELSE r[l]
      <4>1. site[s].tail = q[m]
        BY <1>13, <2>4 DEF Hangs
      <4>2. l # 0 => r[l] = q[m] /\ q[2] # 0
        BY <2>4, <3>7
      <4> QED
        BY <4>1, <4>2, <3>6, <2>2, <2>4
    <3>10. ASSUME NEW k \in 1..l
           PROVE  entry'[r[k]].next = IF k = l THEN 0 ELSE r[k + 1]
      <4>1. r[k] = q[k + 1] /\ k + 1 \in 1..m /\ k + 1 # 1
        BY <3>1
      <4>2. r[k] \in Outside(s)' /\ r[k] \in Index
        BY <3>2, <3>5
      <4>3. entry'[r[k]] = entry[r[k]]
        BY <4>2, <1>7, <1>9, <1>1
      <4>4. entry[q[k + 1]].next = IF k + 1 = m THEN 0 ELSE q[(k + 1) + 1]
        BY <4>1, <1>13 DEF Hangs
      <4>5. k # l => r[k + 1] = q[(k + 1) + 1] /\ k + 1 # m
        BY <3>1
      <4> QED
        BY <4>1, <4>3, <4>4, <4>5, <3>1
    <3> HIDE DEF r, l
    <3>11. Hangs(s, l, r)'
      BY <3>1, <3>2, <3>4, <3>5, <3>8, <3>9, <3>10 DEF Hangs
    <3> QED
      BY <3>1, <3>2, <3>11
  <2>6. Window(s)'
    BY <2>1, <2>2, <2>3, <2>5 DEF Window
  <2>7. ASSUME NEW t \in Sites, IsMember(t)' PROVE Window(t)'
    <3>1. CASE t = s
      BY <3>1, <2>6
    <3>2. CASE t # s
      <4>1. Window(t)
        BY <2>2, <2>7 DEF IsMember, WindowInv
      <4>2. \A j \in Outside(t) : entry'[j] = entry[j]
        BY <1>7, <1>9, <3>2 DEF Outside
      <4>3. Outside(t)' = Outside(t)
        BY <1>9, <3>2
      <4> QED
        BY <4>1, <4>2, <4>3, <3>2, <2>2, <1>9, WindowFrame
    <3> QED
      BY <3>1, <3>2
  <2> QED
    BY <1>1, <1>3, <1>4, <1>6, <2>2, <2>7
<1> QED
  BY <1>14, <1>15

\* An answer to call c, which frees its entry i or leaves it uncounted, and lets
\* the entries H into the window.
AnswerStep(c, i, H) ==
  /\ H \subseteq Index
  /\ \A j \in H : entry[j].outside
  /\ \/ /\ entry'[i] = FreeEntry
        /\ call' = [call EXCEPT ![c].st = Returned(c)]
     \/ /\ entry'[i].rid = c /\ entry'[i].used
        /\ ~entry'[i].outside /\ ~entry'[i].counted
        /\ UNCHANGED call
  /\ \A j \in Index \ {i} : entry'[j] =
        IF j \in H THEN [entry[j] EXCEPT !.outside = FALSE, !.counted = TRUE, !.next = 0]
        ELSE entry[j]
  /\ asked' = asked \cup {entry[j].rid : j \in H}
  /\ timers' = (timers \ {c}) \cup {entry[j].rid : j \in H}
  /\ UNCHANGED failures

\* An answer, but for the windows.
LEMMA Answered ==
  ASSUME WindowInv, NEW c \in asked, NEW i \in EntryOf(c), NEW H, AnswerStep(c, i, H),
         entry' \in [Index -> Entry],
         site' \in [Sites -> SiteEntry], \A s \in Sites : site'[s].status = site[s].status
  PROVE  TypeOK' /\ Owned' /\ Unsent' /\ Members'
<1>1. /\ TypeOK /\ Owned /\ Unsent /\ Members /\ Dest \in [Calls -> Sites]
      /\ c \in Calls /\ i \in Index /\ entry[i].used /\ entry[i].rid = c
      /\ call[c].index = i /\ call[c].st = "wait" /\ Returned(c) = "over"
  BY WindowAssumption DEF WindowInv, TypeOK, EntryOf, Owned, Unsent, Returned
<1>2. /\ call' \in [Calls -> Call] /\ \A d \in Calls \ {c} : call'[d] = call[d]
      /\ entry'[i].used => call'[c] = call[c] /\ entry'[i].rid = c
      /\ ~entry'[i].used => call'[c].st = "over" /\ entry'[i] = FreeEntry
      /\ ~entry'[i].outside /\ ~entry'[i].counted
  <2>1. CASE entry'[i] = FreeEntry /\ call' = [call EXCEPT ![c].st = Returned(c)]
    <3>1. call[c] \in Call /\ call \in [Calls -> Call]
      BY <1>1 DEF TypeOK
    <3>2. [call[c] EXCEPT !.st = "over"] \in Call /\ [call[c] EXCEPT !.st = "over"].st = "over"
      BY <3>1 DEF Call, CallState
    <3>3. call' = [call EXCEPT ![c] = [call[c] EXCEPT !.st = "over"]]
      BY <2>1, <1>1
    <3>4. /\ call' \in [Calls -> Call] /\ call'[c].st = "over"
          /\ \A d \in Calls \ {c} : call'[d] = call[d]
      BY <3>1, <3>2, <3>3, <1>1
    <3> QED
      BY <2>1, <3>4 DEF FreeEntry
  <2>2. CASE /\ entry'[i].rid = c /\ entry'[i].used /\ ~entry'[i].outside /\ ~entry'[i].counted
             /\ UNCHANGED call
    BY <2>2, <1>1 DEF TypeOK
  <2> QED
    BY <2>1, <2>2 DEF AnswerStep
<1>3. \A j \in H : /\ j \in Index /\ entry[j].used /\ entry[j].rid \in Calls \ {c}
                   /\ call[entry[j].rid].st = "wait"
  BY <1>1 DEF Owned, Unsent, AnswerStep
<1>4. i \notin H
  BY <1>1, <1>3
<1>5. \A j \in Index \ {i} : /\ entry'[j].rid = entry[j].rid /\ entry'[j].used = entry[j].used
                             /\ j \notin H => entry'[j] = entry[j]
                             /\ j \in H => entry[j].used /\ ~entry'[j].outside
  <2> SUFFICES ASSUME NEW j \in Index \ {i}
               PROVE  /\ entry'[j].rid = entry[j].rid /\ entry'[j].used = entry[j].used
                      /\ j \notin H => entry'[j] = entry[j]
                      /\ j \in H => entry[j].used /\ ~entry'[j].outside
    OBVIOUS
  <2>1. CASE j \in H
    <3>1. entry[j] \in Entry /\ entry'[j] = [entry[j] EXCEPT !.outside = FALSE, !.counted = TRUE, !.next = 0]
      BY <2>1, <1>1 DEF TypeOK, AnswerStep
    <3>2. entry'[j].rid = entry[j].rid /\ entry'[j].used = entry[j].used /\ ~entry'[j].outside
      BY <3>1 DEF Entry
    <3> QED
      BY <3>2, <2>1, <1>3
  <2>2. CASE j \notin H
    BY <2>2 DEF AnswerStep
  <2> QED
    BY <2>1, <2>2
<1>6. TypeOK'
  <2>1. asked' \subseteq Calls /\ timers' \subseteq Calls
    BY <1>1, <1>3 DEF TypeOK, AnswerStep
  <2> QED
    BY <1>1, <1>2, <2>1 DEF TypeOK, AnswerStep
<1>7. \A j \in Index \ {i} : entry[j].used => entry[j].rid \in Calls \ {c}
  BY <1>1 DEF Owned
<1>8. Owned'
  <2>1. \A j \in Index : ~entry'[j].used => entry'[j] = FreeEntry
    BY <1>1, <1>2, <1>5 DEF Owned
  <2>2. ASSUME NEW j \in Index, entry'[j].used
        PROVE  /\ entry'[j].rid \in Calls
               /\ call'[entry'[j].rid].index = j
               /\ call'[entry'[j].rid].st \in {"send", "wait"}
    <3>1. CASE j = i
      BY <3>1, <2>2, <1>1, <1>2
    <3>2. CASE j # i
      BY <3>2, <2>2, <1>1, <1>2, <1>5, <1>7 DEF Owned
    <3> QED
      BY <3>1, <3>2
  <2>3. ASSUME NEW d \in Calls, call'[d].st \in {"send", "wait"}
        PROVE  /\ call'[d].index \in Index
               /\ entry'[call'[d].index].used
               /\ entry'[call'[d].index].rid = d
    <3>1. CASE d = c
      BY <3>1, <2>3, <1>1, <1>2
    <3>2. CASE d # c
      <4>1. /\ call'[d] = call[d] /\ call[d].index \in Index \ {i}
            /\ entry[call[d].index].used /\ entry[call[d].index].rid = d
        BY <3>2, <2>3, <1>1, <1>2 DEF Owned
      <4> QED
        BY <4>1, <1>5
    <3> QED
      BY <3>1, <3>2
  <2> QED
    BY <2>1, <2>2, <2>3 DEF Owned
<1>9. Unsent'
  <2>1. ASSUME NEW d \in asked' PROVE call'[d].st \in {"wait", "over"}
    <3>1. CASE d = c
      BY <3>1, <1>1, <1>2
    <3>2. CASE d # c /\ d \in asked
      BY <3>2, <1>1, <1>2 DEF Unsent, TypeOK
    <3>3. CASE d # c /\ d \notin asked
      <4>1. PICK j \in H : d = entry[j].rid
        BY <2>1, <3>3 DEF AnswerStep
      <4> QED
        BY <4>1, <3>3, <1>2, <1>3
    <3> QED
      BY <3>1, <3>2, <3>3
  <2>2. ASSUME NEW j \in Index, entry'[j].outside
        PROVE  /\ entry'[j].used /\ ~entry'[j].counted
               /\ entry'[j].rid \notin asked' /\ call'[entry'[j].rid].st = "wait"
    <3>1. /\ j # i /\ j \notin H /\ entry'[j] = entry[j]
          /\ entry[j].used /\ ~entry[j].counted /\ entry[j].rid \notin asked
          /\ entry[j].rid \in Calls \ {c} /\ call[entry[j].rid].st = "wait"
          /\ call[entry[j].rid].index = j
      BY <2>2, <1>1, <1>2, <1>5, <1>7 DEF Unsent, Owned
    <3>2. \A k \in H : entry[k].rid # entry[j].rid
      BY <3>1, <1>1, <1>3 DEF Owned
    <3>3. \A d \in asked' : d \in asked \/ \E k \in H : d = entry[k].rid
      BY DEF AnswerStep
    <3>4. entry'[j].rid \notin asked'
      BY <3>1, <3>2, <3>3
    <3> QED
      BY <3>1, <3>4, <1>2
  <2>3. \A j \in Index : entry'[j].counted => entry'[j].used
    BY <1>1, <1>2, <1>5 DEF Unsent
  <2>4. timers' \subseteq asked'
    BY <1>1 DEF Unsent, AnswerStep
  <2> QED
    BY <2>1, <2>2, <2>3, <2>4 DEF Unsent
<1>10. Members'
  <2>1. \A d \in Calls : call'[d].st \in {"get", "send"} => IsMember(Dest[d])
    BY <1>1, <1>2 DEF Members
  <2>2. \A j \in Index : entry'[j].used => /\ entry[j].used /\ entry'[j].rid = entry[j].rid
                                           /\ Dest[entry[j].rid] \in Sites
    BY <1>1, <1>2, <1>5 DEF Owned
  <2> QED
    BY <1>1, <2>1, <2>2 DEF Members, IsMember
<1> QED
  BY <1>6, <1>8, <1>9, <1>10

\* The counted entry i of c is done with, and check_protocol_window() lets others in.
LEMMA CountedAnswerInv ==
  ASSUME WindowInv, NEW c \in asked, IsMember(Dest[c]), NEW i \in EntryOf(c), entry[i].counted,
         NEW left \in Entry, ~left.outside, ~left.counted,
         WindowOpens(Dest[c], i, left), timers' = (timers \ {c}) \cup Sent(Dest[c]),
         \/ left = FreeEntry /\ call' = [call EXCEPT ![c].st = Returned(c)]
         \/ left.rid = c /\ left.used /\ UNCHANGED call,
         UNCHANGED failures
  PROVE  WindowInv'
<1> DEFINE s == Dest[c]
<1>1. TypeOK /\ Unsent /\ c \in Calls /\ s \in Sites /\ i \in Index /\ i \in Counted(s)
  BY WindowAssumption DEF WindowInv, TypeOK, EntryOf, Counted
<1>2. /\ entry' \in [Index -> Entry] /\ site' \in [Sites -> SiteEntry]
      /\ \A t \in Sites : site'[t].status = site[t].status
      /\ \A t \in Sites : IsMember(t)' => Window(t)'
      /\ Let(s) \subseteq Outside(s) /\ entry'[i] = left
      /\ \A j \in Index \ {i} : entry'[j] =
           IF j \in Let(s) THEN [entry[j] EXCEPT !.outside = FALSE, !.counted = TRUE, !.next = 0]
           ELSE entry[j]
      /\ asked' = asked \cup Sent(s)
      /\ Sent(s) = {entry[j].rid : j \in Let(s)}
  BY <1>1, WindowOpensWindow
<1>3. Let(s) \subseteq Index /\ \A j \in Let(s) : entry[j].outside
  BY <1>2 DEF Outside
<1>4. PICK H : H = Let(s)
  OBVIOUS
<1>5. \/ entry'[i] = FreeEntry /\ call' = [call EXCEPT ![c].st = Returned(c)]
      \/ /\ entry'[i].rid = c /\ entry'[i].used /\ ~entry'[i].outside /\ ~entry'[i].counted
         /\ UNCHANGED call
  BY <1>2
<1>6. TypeOK' /\ Owned' /\ Unsent' /\ Members'
  <2>1. AnswerStep(c, i, H)
    BY <1>2, <1>3, <1>4, <1>5 DEF AnswerStep
  <2> QED
    BY <1>2, <2>1, Answered
<1> QED
  BY <1>2, <1>6 DEF WindowInv

\* The entry of c, which is not counted, is done with.
LEMMA UncountedAnswerInv ==
  ASSUME WindowInv, NEW c \in asked, NEW i \in EntryOf(c), ~entry[i].counted,
         timers' = timers \ {c}, UNCHANGED <<site, asked, failures>>,
         \/ /\ entry' = [entry EXCEPT ![i] = FreeEntry]
            /\ call' = [call EXCEPT ![c].st = Returned(c)]
         \/ UNCHANGED <<entry, call>>
  PROVE  WindowInv'
<1>1. /\ TypeOK /\ Unsent /\ c \in Calls /\ i \in Index /\ entry[i].rid = c /\ entry[i].used
      /\ ~entry[i].outside /\ UsingSize \in Nat
  BY WindowAssumption DEF WindowInv, TypeOK, EntryOf, Unsent
<1>2. /\ entry' \in [Index -> Entry] /\ \A j \in Index \ {i} : entry'[j] = entry[j]
      /\ \/ entry'[i] = FreeEntry /\ call' = [call EXCEPT ![c].st = Returned(c)]
         \/ /\ entry'[i].rid = c /\ entry'[i].used /\ ~entry'[i].outside /\ ~entry'[i].counted
            /\ UNCHANGED call
  <2>1. FreeEntry \in Entry
    BY <1>1 DEF FreeEntry, Entry
  <2> QED
    BY <2>1, <1>1 DEF TypeOK
<1>3. TypeOK' /\ Owned' /\ Unsent' /\ Members'
  <2>1. /\ {} \subseteq Index /\ \A j \in {} : entry[j].outside
        /\ \A j \in Index \ {i} : entry'[j] =
              IF j \in {} THEN [entry[j] EXCEPT !.outside = FALSE, !.counted = TRUE, !.next = 0]
              ELSE entry[j]
        /\ asked' = asked \cup {entry[j].rid : j \in {}}
        /\ timers' = (timers \ {c}) \cup {entry[j].rid : j \in {}}
        /\ site' \in [Sites -> SiteEntry] /\ \A s \in Sites : site'[s].status = site[s].status
    BY <1>1, <1>2 DEF TypeOK
  <2>2. PICK H : H = {}
    OBVIOUS
  <2> QED
    <3>1. AnswerStep(c, i, H)
      BY <1>2, <2>1, <2>2 DEF AnswerStep
    <3> QED
      BY <1>2, <2>1, <3>1, Answered
<1>4. ASSUME NEW t \in Sites, IsMember(t)' PROVE Window(t)'
  <2>1. Window(t)
    BY <1>4 DEF IsMember, WindowInv
  <2>2. ~entry'[i].outside /\ ~entry'[i].counted
    BY <1>2 DEF FreeEntry
  <2>3. Outside(t)' = Outside(t) /\ Counted(t)' = Counted(t) /\ i \notin Outside(t)
    BY <1>1, <1>2, <2>2 DEF Outside, Counted
  <2>4. \A j \in Outside(t) : entry'[j] = entry[j]
    BY <1>2, <2>3 DEF Outside
  <2> QED
    BY <2>1, <2>3, <2>4, WindowFrame
<1> QED
  BY <1>3, <1>4 DEF WindowInv

\* recv_reply().
LEMMA RecvReplyInv ==
  ASSUME WindowInv, NEW c \in Calls, recv_reply(c)
  PROVE  WindowInv'
<1>1. PICK i \in EntryOf(c) :
         \/ /\ entry[i].counted
            /\ WindowOpens(Dest[c], i, FreeEntry)
            /\ timers' = (timers \ {c}) \cup Sent(Dest[c])
         \/ /\ ~entry[i].counted
            /\ entry' = [entry EXCEPT ![i] = FreeEntry]
            /\ timers' = timers \ {c}
            /\ UNCHANGED <<site, asked>>
  BY DEF recv_reply
<1>2. /\ c \in asked /\ IsMember(Dest[c]) /\ UNCHANGED failures
      /\ call' = [call EXCEPT ![c].st = Returned(c)]
  BY DEF recv_reply
<1>3. FreeEntry \in Entry /\ ~FreeEntry.outside /\ ~FreeEntry.counted
  BY WindowAssumption DEF FreeEntry, Entry
<1>4. CASE entry[i].counted
  BY <1>1, <1>2, <1>3, <1>4, CountedAnswerInv
<1>5. CASE ~entry[i].counted
  BY <1>1, <1>2, <1>5, UncountedAnswerInv
<1> QED
  BY <1>4, <1>5

\* recv_slow_request().
LEMMA RecvSlowRequestInv ==
  ASSUME WindowInv, NEW c \in Calls, recv_slow_request(c)
  PROVE  WindowInv'
<1>1. PICK i \in EntryOf(c) :
         \/ /\ entry[i].counted
            /\ WindowOpens(Dest[c], i, [entry[i] EXCEPT !.counted = FALSE])
            /\ timers' = (timers \ {c}) \cup Sent(Dest[c])
         \/ /\ ~entry[i].counted
            /\ timers' = timers \ {c}
            /\ UNCHANGED <<entry, site, asked>>
  BY DEF recv_slow_request
<1>2. c \in asked /\ IsMember(Dest[c]) /\ UNCHANGED <<call, failures>>
  BY DEF recv_slow_request
<1>3. CASE entry[i].counted
  <2>1. PICK left : left = [entry[i] EXCEPT !.counted = FALSE]
    OBVIOUS
  <2>2. entry[i] \in Entry /\ entry[i].used /\ entry[i].rid = c /\ ~entry[i].outside
    BY <1>3 DEF EntryOf, WindowInv, TypeOK, Unsent
  <2>3. left \in Entry /\ left.rid = c /\ left.used /\ ~left.outside /\ ~left.counted
    BY <2>1, <2>2 DEF Entry
  <2> QED
    BY <1>1, <1>2, <1>3, <2>1, <2>3, CountedAnswerInv
<1>4. CASE ~entry[i].counted
  BY <1>1, <1>2, <1>4, UncountedAnswerInv
<1> QED
  BY <1>3, <1>4
-----------------------------------------------------------------------------
(* The theorems.                                                           *)

\* Every step of Next, and a stuttering one, preserves the invariant.
LEMMA NextInv == WindowInv /\ [Next]_vars => WindowInv'
<1> SUFFICES ASSUME WindowInv, [Next]_vars PROVE WindowInv'
  OBVIOUS
<1>1. ASSUME NEW c \in Calls, net_request(c) PROVE WindowInv'
  BY <1>1, NetRequestInv
<1>2. ASSUME NEW c \in Calls, get_using_array(c) PROVE WindowInv'
  BY <1>2, GetUsingArrayInv
<1>3. ASSUME NEW c \in Calls, dux_send(c) PROVE WindowInv'
  BY <1>3, DuxSendInv
<1>4. ASSUME NEW c \in Calls, retry_request(c) PROVE WindowInv'
  BY <1>4, RetryRequestInv
<1>5. ASSUME NEW c \in Calls, recv_reply(c) PROVE WindowInv'
  BY <1>5, RecvReplyInv
<1>6. ASSUME NEW c \in Calls, recv_slow_request(c) PROVE WindowInv'
  BY <1>6, RecvSlowRequestInv
<1>7. ASSUME NEW s \in Sites, cleanup_using_array(s) PROVE WindowInv'
  BY <1>7, CleanupInv
<1>8. ASSUME NEW s \in Sites, add_site(s) PROVE WindowInv'
  BY <1>8, AddSiteInv
<1>9. ASSUME NEW s \in Sites, NobodyInside(s), declare_failed(s) PROVE WindowInv'
  BY <1>9, DeclareFailedInv
<1>10. CASE UNCHANGED vars
  <2>1. TypeOK' /\ Owned' /\ Unsent' /\ Members'
    BY <1>10 DEF vars, WindowInv, TypeOK, Owned, Unsent, Members, IsMember
  <2>2. \A s \in Sites : IsMember(s)' => Window(s)'
    BY <1>10, WindowSame DEF vars
  <2> QED
    BY <2>1, <2>2 DEF WindowInv
<1> QED
  BY <1>1, <1>2, <1>3, <1>4, <1>5, <1>6, <1>7, <1>8, <1>9, <1>10 DEF Next, Step

\* The invariant holds, whatever the numbers of sites, requests and entries and
\* the size of the window, as long as nobody is inside net_request() for a site
\* when it is declared failed.
THEOREM WindowInvariant == Spec => []WindowInv
<1>1. Init => WindowInv
  BY InitInv
<1>2. WindowInv /\ [Next]_vars => WindowInv'
  BY NextInv
<1> QED
  BY <1>1, <1>2, PTL DEF Spec

\* The links of req_waiting_Q lead through the entries that wait outside the
\* window of the site, each once, and end at its tail.
THEOREM QueuesAreSound == Spec => []QueueSound
<1>1. WindowInv => QueueSound
  BY InvImplies
<1> QED
  BY <1>1, WindowInvariant, PTL

\* req_count is exact and at most dux_window_size, and nobody waits outside a
\* window that is open.
THEOREM WindowsAreExact == Spec => []WindowExact
<1>1. WindowInv => WindowExact
  BY InvImplies
<1> QED
  BY <1>1, WindowInvariant, PTL

\* None of the panics of check_protocol_window() and free_using_entry() about
\* the window queue happens.
THEOREM WindowNeverPanics == Spec => []NoPanic
<1>1. WindowInv => NoPanic
  BY InvImplies
<1> QED
  BY <1>1, WindowInvariant, PTL
=============================================================================
