------------------------------ MODULE Sitemap ------------------------------
(***************************************************************************)
(* Who uses a file: dux/sitemap.c and the messages that keep its two       *)
(* sides in step (serve_ref_update() and update_duxref() of dux_vnops.c).  *)
(*                                                                         *)
(* The server of a file has a site map, with the number of references of   *)
(* each site: one entry in the map itself, or a list of arrays.  Network   *)
(* server processes update it; one that needs a new array sleeps in        *)
(* kmem_alloc() with the map locked.  A client has a double count: d_rcount *)
(* is its real number of references, d_vcount what it takes the server to  *)
(* count for it.  The two differ so that most references need no message.  *)
(*                                                                         *)
(* Messages overtake each other: a request that is lost is sent again      *)
(* seconds later (DuxProto).  One file is modelled; a lookup that gets two *)
(* files and gives the first one back for lack of the second is left out.  *)
(***************************************************************************)
EXTENDS Integers, Sequences, FiniteSets, Functions, Bags

CONSTANTS Clients,
          Servers,        \* the server's NSPs
          SITEARRAYSIZE,
          CHECKVCOUNT,
          MaxRefs         \* bound: references obtained

ASSUME SitemapAssumption == /\ IsFiniteSet(Clients) /\ IsFiniteSet(Servers)
                            /\ Clients # {}
                            /\ SITEARRAYSIZE \in Nat \ {0, 1}
                            /\ CHECKVCOUNT \in Nat /\ MaxRefs \in Nat

VARIABLES s_maptype, s_count,  \* the map
          s_onesite,           \* its entry, if S_ONESITE
          s_array,             \* its arrays, in the order of the list
          nsp,                 \* nsp[p]: what a server process does
          dcount,              \* dcount[c]: d_rcount and d_vcount
          msgs,                \* requests on their way to the server
          replies,             \* replies[c]: lookups answered on their way
          adding,              \* adding[c]: processes asleep in an addition
          refs,                \* references still to be obtained
          panicked             \* sites whose update made the server panic

map == <<s_maptype, s_count, s_onesite, s_array>>
vars == <<map, nsp, dcount, msgs, replies, adding, refs, panicked>>

(* A request: a lookup makes the server count a reference of the site; the *)
(* others carry -subtract, named for the case of updatedcount(), or take   *)
(* back an unused lookup.                                                  *)
Message == [site: Clients, value: Int,
            kind: {"lookup", "first", "last", "limit", "unused"}]

(* An entry that is not in use has the count 0; its site is not looked at, *)
(* and always the same here.                                               *)
Empty == [s_site |-> CHOOSE c \in Clients: TRUE, s_count |-> 0]
Slots == 1..SITEARRAYSIZE

Idle == [pc |-> "idle"]

Init ==
    /\ s_maptype = "S_MAPEMPTY" /\ s_count = 0
    /\ s_onesite = Empty /\ s_array = <<>>
    /\ nsp = [p \in Servers |-> Idle]
    /\ dcount = [c \in Clients |-> [d_rcount |-> 0, d_vcount |-> 0]]
    /\ msgs = EmptyBag
    /\ replies = [c \in Clients |-> 0] /\ adding = [c \in Clients |-> 0]
    /\ refs = MaxRefs /\ panicked = {}

Locked == s_maptype \in {"S_LOCKED", "S_WAITING"}
-----------------------------------------------------------------------------
(* The map.                                                                *)

(* Positions in the arrays, in the order in which getsiteentry() looks.    *)
Positions == (1..Len(s_array)) \X Slots
Before(x, y) == x[1] < y[1] \/ (x[1] = y[1] /\ x[2] < y[2])
At(x) == s_array[x[1]][x[2]]

\* Faulty: an entry that is no longer used is taken for the site's.
Bug_Stale(c) == {x \in Positions: At(x).s_site = c}

(* getsiteentry() of an S_ARRAY: the site's entries, and the free ones.    *)
EntriesOf(c) == {x \in Positions: At(x).s_count # 0 /\ At(x).s_site = c}

FreeSlots == {x \in Positions: At(x).s_count = 0}
FirstOf(X) == CHOOSE x \in X: \A y \in X \ {x}: Before(x, y)

(* The state in which the map is after the entry of m's site, found or     *)
(* made by getsiteentry(), has got the update (updatesitecount()).         *)
EntryOf(m, n) == IF n = 0 THEN Empty ELSE [s_site |-> m.site, s_count |-> n]

OneSite(m, n) ==
    /\ s_onesite' = EntryOf(m, n)
    /\ s_maptype' = IF n = 0 THEN "S_MAPEMPTY" ELSE "S_ONESITE"
    /\ s_count' = IF n = 0 THEN 0 ELSE 1
    /\ UNCHANGED s_array

InArray(arrays, total, x, m) ==
    LET n == arrays[x[1]][x[2]].s_count + m.value
        left == IF n = 0 THEN total - 1 ELSE total
    IN  /\ s_count' = left
        /\ s_maptype' = IF left = 0 THEN "S_MAPEMPTY" ELSE "S_ARRAY"
        /\ s_array' = IF left = 0 THEN <<>>
                      ELSE [arrays EXCEPT ![x[1]][x[2]] = EntryOf(m, n)]
        /\ s_onesite' = Empty

(* The request has been dealt with: the sender of a lookup gets its reply, *)
(* a process that sleeps for an addition goes on.                          *)
Answer(m) ==
    /\ replies' = [replies EXCEPT ![m.site] = IF m.kind = "lookup" THEN @ + 1 ELSE @]
    /\ adding' = [adding EXCEPT ![m.site] =
                     IF m.kind # "lookup" /\ m.value > 0 THEN @ - 1 ELSE @]
    /\ UNCHANGED panicked

Done(p, m) == Answer(m) /\ nsp' = [nsp EXCEPT ![p] = Idle]

\* Faulty: the lock is not marked.
Bug_NotMarked(p, m) ==
    /\ nsp' = [nsp EXCEPT ![p] = [pc |-> "wait", msg |-> m]]
    /\ UNCHANGED <<map, replies, adding, panicked>>

(* waitlock(): the lock is marked and the process sleeps on the map.       *)
waitlock(p, m) ==
    /\ s_maptype' = "S_WAITING"
    /\ nsp' = [nsp EXCEPT ![p] = [pc |-> "wait", msg |-> m]]
    /\ UNCHANGED <<s_count, s_onesite, s_array, replies, adding, panicked>>

(* The first half of getnewsitearray(): locked, asleep in kmem_alloc().    *)
getnewsitearray(p, m, where) ==
    /\ s_maptype' = "S_LOCKED"
    /\ nsp' = [nsp EXCEPT ![p] = [pc |-> where, msg |-> m]]
    /\ UNCHANGED <<s_onesite, s_array, replies, adding, panicked>>

(* updatesitecount() by p, when it is not held up by the lock.  A decrement *)
(* that finds no entry, or too small a one, is a panic.                    *)
updatesitecount(p, m) ==
    LET found == EntriesOf(m.site)
        here  == s_maptype = "S_ONESITE" /\ s_onesite.s_site = m.site
        count == IF here THEN s_onesite.s_count
                 ELSE IF s_maptype = "S_ARRAY" /\ found # {}
                 THEN At(FirstOf(found)).s_count ELSE 0
    IN
    IF count + m.value < 0
    THEN /\ panicked' = panicked \cup {m.site}
         /\ nsp' = [nsp EXCEPT ![p] = Idle]
         /\ UNCHANGED <<map, replies, adding>>
    ELSE
    \/ /\ here \/ s_maptype = "S_MAPEMPTY"
       /\ OneSite(m, count + m.value) /\ Done(p, m)
    \/ /\ s_maptype = "S_ONESITE" /\ ~here
       /\ getnewsitearray(p, m, "second")
       /\ UNCHANGED s_count
    \/ /\ s_maptype = "S_ARRAY" /\ found # {}
       /\ InArray(s_array, s_count, FirstOf(found), m) /\ Done(p, m)
    \/ /\ s_maptype = "S_ARRAY" /\ found = {} /\ FreeSlots # {}
       /\ InArray(s_array, s_count + 1, FirstOf(FreeSlots), m) /\ Done(p, m)
    \/ /\ s_maptype = "S_ARRAY" /\ found = {} /\ FreeSlots = {}
       /\ getnewsitearray(p, m, "next")
       /\ s_count' = s_count + 1

Attempt(p, m) == IF Locked THEN waitlock(p, m) ELSE updatesitecount(p, m)

(* A server process takes a request: serve_ref_update(), or a lookup that  *)
(* ends at the file.                                                       *)
serve(p) ==
    /\ panicked = {} /\ nsp[p] = Idle
    /\ \E m \in BagToSet(msgs):
          Attempt(p, m) /\ msgs' = msgs (-) SetToBag({m})
    /\ UNCHANGED <<dcount, refs>>

(* A process woken up in waitlock() looks at the map again.                *)
resume(p) ==
    /\ panicked = {} /\ nsp[p].pc = "woken"
    /\ Attempt(p, nsp[p].msg)
    /\ UNCHANGED <<msgs, dcount, refs>>

(* The new array is there: the second half of getnewsitearray(), and the   *)
(* rest of getsiteentry() and updatesitecount().                           *)
NewArray == [i \in Slots |-> Empty]

\* Faulty: the single entry of the map is not copied.
Bug_NotCopied == <<NewArray>>

(* The arrays with the new one: with the single entry of the map copied    *)
(* into it, or in front of the others.                                     *)
Converted == <<[NewArray EXCEPT ![1] = s_onesite]>>

Prepended == <<NewArray>> \o s_array

(* wakeup() on the map, if somebody has marked the lock.                   *)
Woken(p) ==
    [q \in Servers |-> IF q # p /\ nsp[q].pc = "wait" /\ s_maptype = "S_WAITING"
                       THEN [nsp[q] EXCEPT !.pc = "woken"] ELSE nsp[q]]

kmem_alloc(p) ==
    LET m == nsp[p].msg
        second == nsp[p].pc = "second"
    IN
    /\ panicked = {} /\ nsp[p].pc \in {"second", "next"}
    /\ InArray(IF second THEN Converted ELSE Prepended,
               IF second THEN 2 ELSE s_count,
               IF second THEN <<1, 2>> ELSE <<1, 1>>, m)
    /\ Answer(m) /\ nsp' = [Woken(p) EXCEPT ![p] = Idle]
    /\ UNCHANGED <<dcount, msgs, refs>>
-----------------------------------------------------------------------------
(* The clients.                                                            *)

\* Faulty: the difference is taken the wrong way round.
Bug_WrongWay(r, v) == IF r = 0 THEN v
                      ELSE IF v = 0 THEN -1
                      ELSE IF v > CHECKVCOUNT THEN r ELSE 0

\* Faulty: nothing is sent for the first reference.
Bug_NoAdd(r, v) == IF r = 0 THEN v
                   ELSE IF v > CHECKVCOUNT THEN v - r ELSE 0

(* updatedcount(): what the server is to subtract, of the new counts r, v. *)
Subtract(r, v) == IF r = 0 THEN v
                  ELSE IF v = 0 THEN -1
                  ELSE IF v > CHECKVCOUNT THEN v - r
                  ELSE 0

Kind(r, v) == IF r = 0 THEN "last" ELSE IF v = 0 THEN "first" ELSE "limit"

\* Faulty: nobody sleeps.
Bug_NoSleep(subtract) == FALSE

(* send_ref_update(): the sender of an addition sleeps till it is done.    *)
Sleeps(subtract) == subtract < 0

(* update_duxref().                                                        *)
update_duxref(c, delta, serverinitiated) ==
    LET r == dcount[c].d_rcount + delta
        v == dcount[c].d_vcount + (IF serverinitiated THEN delta ELSE 0)
        subtract == Subtract(r, v)
        request == [site |-> c, value |-> -subtract, kind |-> Kind(r, v)]
    IN  /\ dcount' = [dcount EXCEPT ![c] = [d_rcount |-> r, d_vcount |-> v - subtract]]
        /\ msgs' = IF subtract = 0 THEN msgs ELSE msgs (+) SetToBag({request})
        /\ adding' = [adding EXCEPT ![c] = IF Sleeps(subtract) THEN @ + 1 ELSE @]
        /\ UNCHANGED <<map, nsp, panicked>>

(* A pathname that leads to the file is looked up at the server.           *)
lookup(c) ==
    /\ refs > 0 /\ refs' = refs - 1
    /\ msgs' = msgs (+) SetToBag({[site |-> c, value |-> 1, kind |-> "lookup"]})
    /\ UNCHANGED <<map, nsp, dcount, replies, adding, panicked>>

lookup_reply(c) ==
    /\ replies[c] > 0 /\ replies' = [replies EXCEPT ![c] = @ - 1]
    /\ update_duxref(c, 1, TRUE)
    /\ UNCHANGED refs

(* There is no inode for the file looked up: the reference that the server *)
(* has counted is sent back (send_ref_update_no_ino()).                    *)
lookup_fails(c) ==
    /\ replies[c] > 0 /\ replies' = [replies EXCEPT ![c] = @ - 1]
    /\ msgs' = msgs (+) SetToBag({[site |-> c, value |-> -1, kind |-> "unused"]})
    /\ UNCHANGED <<map, nsp, dcount, adding, refs, panicked>>

(* A reference of the site's own: fork(), chdir(), a vnode found by itself. *)
hold(c) ==
    /\ refs > 0 /\ refs' = refs - 1
    /\ update_duxref(c, 1, FALSE)
    /\ UNCHANGED replies

(* A reference is given up; not by a process that still sleeps.            *)
release(c) ==
    /\ dcount[c].d_rcount > adding[c]
    /\ update_duxref(c, -1, FALSE)
    /\ UNCHANGED <<replies, refs>>
-----------------------------------------------------------------------------
Next == \/ \E p \in Servers: serve(p) \/ resume(p) \/ kmem_alloc(p)
        \/ \E c \in Clients: \/ lookup(c) \/ lookup_reply(c) \/ lookup_fails(c)
                             \/ hold(c) \/ release(c)

(* A sleeping process that has been woken up runs again, and memory is     *)
(* found in the end; nobody has to use the file.                           *)
Fairness == \A p \in Servers: WF_vars(resume(p)) /\ WF_vars(kmem_alloc(p))

Spec == Init /\ [][Next]_vars /\ Fairness
-----------------------------------------------------------------------------
(* What the server counts for a site.                                      *)
Count(c) ==
    LET X == EntriesOf(c) IN
    IF s_array # <<>> THEN (IF X = {} THEN 0 ELSE At(FirstOf(X)).s_count)
    ELSE IF s_onesite.s_site = c THEN s_onesite.s_count ELSE 0

(* Requests that have not reached the map are in msgs, or a process holds  *)
(* them.  Total(w) is the sum of the weights w of all of them.             *)
Total(w) == SumFunction([m \in BagToSet(msgs) |-> w[m] * msgs[m]])
            + SumFunction([p \in Servers |-> IF nsp[p] = Idle THEN 0 ELSE w[nsp[p].msg]])
Underway(c) == {m \in BagToSet(msgs) \cup {nsp[p].msg: p \in {q \in Servers: nsp[q] # Idle}}:
                   m.site = c}

(* What the requests of a site will do to its count.                       *)
Values(c) == [m \in Message |-> IF m.site = c THEN m.value ELSE 0]
Pending(c) == Total(Values(c))

(* Lookups that are not yet in d_vcount: on their way there or back.       *)
IsLookup(c) == [m \in Message |-> IF m.site = c /\ m.kind = "lookup" THEN 1 ELSE 0]
Lookups(c) == Total(IsLookup(c)) + replies[c]

(* Type correctness; neither count of a dcount ever is negative (the panic *)
(* of updatedcount(), sitemap.c:496).                                      *)
TypeOK ==
    /\ s_maptype \in {"S_MAPEMPTY", "S_ONESITE", "S_ARRAY", "S_LOCKED", "S_WAITING"}
    /\ s_count \in Nat
    /\ s_onesite \in [s_site: Clients, s_count: Nat]
    /\ \A i \in 1..Len(s_array): s_array[i] \in [Slots -> [s_site: Clients, s_count: Nat]]
    /\ \A p \in Servers: nsp[p] = Idle \/
          /\ nsp[p].pc \in {"wait", "woken", "second", "next"}
          /\ nsp[p].msg \in Message
    /\ dcount \in [Clients -> [d_rcount: Nat, d_vcount: Nat]]
    /\ BagToSet(msgs) \subseteq Message
    /\ replies \in [Clients -> Nat] /\ adding \in [Clients -> Nat]
    /\ refs \in 0..MaxRefs /\ panicked \subseteq Clients

(* d_vcount is what the server counts for the site once it has dealt with  *)
(* everything on its way, in whatever order the requests are served and    *)
(* whoever slept meanwhile: "the virtual count keeps track of what the     *)
(* server thinks the count is" (sitemap.c:466).                            *)
Balanced ==
    panicked = {} =>
        \A c \in Clients: Count(c) + Pending(c) = dcount[c].d_vcount + Lookups(c)

(* Each site has one entry in the map at most, and s_count is their        *)
(* number, the one for which an array is being allocated included.  The    *)
(* map is locked exactly while an array is being allocated.                *)
TotalExact ==
    LET used == {c \in Clients: Count(c) > 0}
        allocating == {p \in Servers: nsp[p].pc \in {"second", "next"}}
    IN  /\ \A c \in Clients: Cardinality(EntriesOf(c)) <= 1
        /\ s_count = Cardinality(used)
                     + Cardinality({p \in allocating: nsp[p].pc = "next"})
        /\ Cardinality(allocating) = IF Locked THEN 1 ELSE 0

(* A site that uses the file is known to the server, unless a process of   *)
(* the site still sleeps to tell it so: a file in use at a client is not   *)
(* taken for unused.                                                       *)
KnownInUse ==
    panicked = {} =>
        \A c \in Clients: dcount[c].d_rcount > 0 /\ adding[c] = 0 => Count(c) > 0

(* A decrement finds the references it takes away, though it may overtake  *)
(* an addition: the server panics (sitemap.c:319, 326) only if an addition *)
(* made because d_vcount had grown past CHECKVCOUNT is still under way.    *)
Decrements ==
    \A c \in panicked: \E m \in Underway(c): m.kind = "limit" /\ m.value > 0

(* A request that a process has taken is dealt with: no process sleeps on  *)
(* the map for ever (sitemap.c:80, 105).                                   *)
Updated == \A p \in Servers: nsp[p] # Idle ~> (nsp[p] = Idle \/ panicked # {})
=============================================================================
