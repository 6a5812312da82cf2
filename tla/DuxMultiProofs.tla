--------------------------- MODULE DuxMultiProofs ---------------------------
(***************************************************************************)
(* A request to several sites that may not be repeated: the count of sites *)
(* still to reply is exact, nobody is left out, and every site runs the    *)
(* request at most once; for any number of sites, frames, losses and       *)
(* failures.  (One that may be repeated can be answered "slow" after its   *)
(* reply, which spoils the count; see the README.)                         *)
(*                                                                         *)
(* The argument.  The frames to a site stay in order, and the requester    *)
(* sends nothing but acknowledgements to a site whose reply it has.  So    *)
(* when the site frees its entry, on the acknowledgement, there is no      *)
(* retry left that it would take for a new request.  A site that has run   *)
(* the request says "slow" no more: a site that is done stays done.        *)
(***************************************************************************)
EXTENDS DuxMulti, SequenceTheorems, FiniteSetTheorems, WellFoundedInduction, TLAPS

Has(q, x) == \E k \in 1..Len(q): q[k] = x

(* In q nothing of Y comes after an x.                                     *)
NoneAfter(q, x, Y) == \A j, k \in 1..Len(q): k < j /\ q[k] = x => q[j] \notin Y

(* The requester will not ask s again.                                     *)
Settled(s) == status[s] = "DONE" \/ pc = "over"

Asked(s) == Has(toSite[s], "request") \/ Has(toSite[s], "retry")

(* What holds of each site.                                                *)
SiteInv(s) ==
    /\ s \notin member => toSite[s] = <<>> /\ fromSite[s] = <<>>
    /\ ~Has(fromSite[s], "idem")
    /\ serving[s] \in {"serving", "slow"} => runs[s] = 0
    /\ serving[s] = "waitack" => runs[s] # 0
    /\ runs[s] \in 0..1
    /\ runs[s] = 0 => /\ ~Has(fromSite[s], "reply") /\ ~Has(toSite[s], "ack")
                      /\ status[s] = "DONE" => s \notin member
    /\ serving[s] = "none" /\ runs[s] # 0 => ~Asked(s) /\ Settled(s)
    /\ Has(toSite[s], "ack") => Settled(s)
    /\ NoneAfter(toSite[s], "ack", {"request", "retry"})
    /\ NoneAfter(fromSite[s], "reply", {"slow"})
    /\ s \in member /\ status[s] = "DONE" => ~Has(fromSite[s], "slow")

(* Nothing has been sent to s yet.                                         *)
Untouched(s) == /\ toSite[s] = <<>> /\ fromSite[s] = <<>>
                /\ serving[s] = "none" /\ runs[s] = 0
NotYet(s) == \/ pc = "idle"
             \/ pc = "sending" /\ (mode = "DM_CLUSTERCAST" \/ next <= s)

Course ==
    /\ pc = "idle" => valid = {} /\ \A s \in Sites: status[s] = "NORESP"
    /\ pc # "idle" => member \subseteq valid
    /\ timer => pc = "waiting"
    /\ dirty \cap member = {}
    /\ \A s \in Sites: NotYet(s) => Untouched(s)

(* A reply after a "slow" counts a second time in no_response_sites, which *)
(* may thus go below zero, but not by more than the sites that are done.   *)
Answerless == {s \in valid: status[s] = "NORESP"}
Done == {s \in valid: status[s] = "DONE"}

Counts ==
    /\ remain = Cardinality(Unfinished)
    /\ Live => remain > 0
    /\ pc = "over" => remain = 0
    /\ noresp >= Cardinality(Answerless) - Cardinality(Done)

OnceInv == /\ TypeOK /\ Course /\ Counts
           /\ \A s \in Sites: SiteInv(s)

MultiInv == repeatable \/ OnceInv
-----------------------------------------------------------------------------
(* Sequences of frames.                                                    *)

\* When the first frame is taken, no frame is new and no order is broken.
LEMMA TailFrames ==
    ASSUME NEW S, NEW q \in Seq(S), q # <<>>
    PROVE  /\ Tail(q) \in Seq(S) /\ Head(q) \in S /\ Has(q, Head(q))
           /\ \A x: Has(Tail(q), x) => Has(q, x)
           /\ \A x, Y: NoneAfter(q, x, Y) => NoneAfter(Tail(q), x, Y)
           /\ \A x, Y: NoneAfter(q, x, Y) /\ Head(q) = x => \A y \in Y: ~Has(Tail(q), y)
<1> DEFINE t == Tail(q)
           n == Len(q)
<1>1. n \in Nat \ {0}
  BY EmptySeq
<1>2. /\ t \in Seq(S) /\ Len(t) = n - 1 /\ \A k \in 1..Len(t): t[k] = q[k + 1]
      /\ Head(q) \in S
  BY HeadTailProperties
<1>3. Head(q) = q[1]
  OBVIOUS
<1> HIDE DEF t
<1>4. Has(q, Head(q))
  BY <1>1, <1>3 DEF Has
<1>5. \A x: Has(t, x) => Has(q, x)
  BY <1>1, <1>2 DEF Has
<1>6. ASSUME NEW x, NEW Y, NoneAfter(q, x, Y) PROVE NoneAfter(t, x, Y)
  BY <1>1, <1>2, <1>6 DEF NoneAfter
<1>7. ASSUME NEW x, NEW Y, NoneAfter(q, x, Y), Head(q) = x, NEW y \in Y PROVE ~Has(t, y)
  <2> SUFFICES ASSUME NEW k \in 1..Len(t), t[k] = y PROVE FALSE
    BY DEF Has
  <2>1. k + 1 \in 1..n /\ 1 \in 1..n /\ 1 < k + 1 /\ q[k + 1] = y
    BY <1>1, <1>2
  <2> QED
    BY <2>1, <1>3, <1>7 DEF NoneAfter
<1> QED
  BY <1>2, <1>4, <1>5, <1>6, <1>7 DEF t

\* A frame that is added comes after all the others.
LEMMA AppendFrames ==
    ASSUME NEW S, NEW q \in Seq(S), NEW e \in S
    PROVE  /\ Append(q, e) \in Seq(S)
           /\ \A x: Has(Append(q, e), x) <=> Has(q, x) \/ x = e
           /\ \A x, Y: NoneAfter(q, x, Y) /\ (e \notin Y \/ ~Has(q, x)) =>
                 NoneAfter(Append(q, e), x, Y)
<1> DEFINE t == Append(q, e)
           n == Len(q)
<1>1. n \in Nat
  BY LenProperties
<1>2. /\ t \in Seq(S) /\ Len(t) = n + 1 /\ \A k \in 1..n: t[k] = q[k]
      /\ t[n + 1] = e
  BY AppendProperties
<1> HIDE DEF t
<1>3. \A x: Has(t, x) <=> Has(q, x) \/ x = e
  BY <1>1, <1>2 DEF Has
<1>4. ASSUME NEW x, NEW Y, NoneAfter(q, x, Y), e \notin Y \/ ~Has(q, x)
      PROVE  NoneAfter(t, x, Y)
  <2> SUFFICES ASSUME NEW j \in 1..Len(t), NEW k \in 1..Len(t), k < j, t[k] = x, t[j] \in Y
               PROVE  FALSE
    BY DEF NoneAfter
  <2>1. k \in 1..n /\ q[k] = x
    BY <1>1, <1>2
  <2>2. CASE j \in 1..n
    BY <2>1, <2>2, <1>2, <1>4 DEF NoneAfter
  <2>3. CASE j = n + 1
    BY <2>1, <2>3, <1>2, <1>4 DEF Has
  <2> QED
    BY <2>2, <2>3, <1>1, <1>2
<1> QED
  BY <1>2, <1>3, <1>4 DEF t

\* Nothing is under way in an empty queue.
LEMMA NoFrames ==
    /\ \A x: ~Has(<<>>, x)
    /\ \A x, Y: NoneAfter(<<>>, x, Y)
  BY DEF Has, NoneAfter

(* The least of some sites.                                                *)
LEMMA LeastSite ==
    ASSUME NEW T, T \subseteq Sites, T # {}
    PROVE  Min(T) \in T /\ \A y \in T: Min(T) <= y
<1> DEFINE R == OpToRel(<, Nat)
<1>1. T \subseteq Nat
  BY MultiAssumption DEF Sites
<1>2. IsWellFoundedOn(R, Nat)
  BY NatLessThanWellFounded
<1>3. \A x, y \in Nat: x < y => <<x, y>> \in R
  BY DEF OpToRel
<1> HIDE DEF R
<1>4. PICK x \in T: \A y \in T: ~(<<y, x>> \in R)
  BY <1>1, <1>2, WFMin
<1>5. ASSUME NEW y \in T PROVE x <= y
  <2>1. x \in Nat /\ y \in Nat /\ ~(<<y, x>> \in R)
    BY <1>1, <1>4
  <2>2. ~(y < x)
    BY <2>1, <1>3
  <2> QED
    BY <2>1, <2>2
<1> QED
  BY <1>5 DEF Min

(* Sets of sites are finite; one more or one less.                         *)
LEMMA SitesFinite ==
    ASSUME NEW T, T \subseteq Sites
    PROVE  /\ IsFiniteSet(T) /\ Cardinality(T) \in 0..NumSites
           /\ Cardinality(T) = 0 <=> T = {}
           /\ \A s \in T: Cardinality(T \ {s}) = Cardinality(T) - 1
           /\ \A s: s \notin T => Cardinality(T \cup {s}) = Cardinality(T) + 1
<1>1. IsFiniteSet(Sites) /\ Cardinality(Sites) = NumSites
  BY MultiAssumption, FS_Interval DEF Sites
<1>2. IsFiniteSet(T) /\ Cardinality(T) <= NumSites
  BY <1>1, FS_Subset
<1>3. Cardinality(T) \in Nat
  BY <1>2, FS_CardinalityType
<1>4. Cardinality(T) = 0 <=> T = {}
  BY <1>2, FS_EmptySet
<1>5. \A s \in T: Cardinality(T \ {s}) = Cardinality(T) - 1
  BY <1>2, FS_RemoveElement
<1>6. \A s: s \notin T => Cardinality(T \cup {s}) = Cardinality(T) + 1
  BY <1>2, FS_AddElement
<1> QED
  BY <1>2, <1>3, <1>4, <1>5, <1>6, MultiAssumption

-----------------------------------------------------------------------------
\* The invariant holds before the request is made.
LEMMA InitInv == Init => MultiInv
<1> SUFFICES ASSUME Init PROVE OnceInv
  BY DEF MultiInv
<1>1. TypeOK
  <2>1. 0 \in 0..NumSites /\ 0 \in -NumSites..NumSites
    BY MultiAssumption
  <2>2. /\ pc = "idle" /\ mode \in {"DM_MULTISITE", "DM_CLUSTERCAST"}
        /\ remain = 0 /\ noresp = 0 /\ next = 0 /\ valid = {}
        /\ member = Sites /\ dirty = {}
    BY DEF Init
  <2>3. repeatable \in BOOLEAN /\ timer \in BOOLEAN
    BY DEF Init
  <2>4. /\ status \in [Sites -> {"NORESP", "SLOWOP", "DONE"}]
        /\ serving \in [Sites -> {"none", "serving", "slow", "waitack"}]
        /\ runs \in [Sites -> 0..2]
    BY DEF Init
  <2>5. /\ toSite \in [Sites -> Seq({"request", "retry", "ack"})]
        /\ fromSite \in [Sites -> Seq({"reply", "idem", "slow"})]
    BY DEF Init
  <2> QED
    BY <2>1, <2>2, <2>3, <2>4, <2>5 DEF TypeOK
<1>2. Course
  BY DEF Init, Course, Untouched
<1>3. Counts
  <2>1. Unfinished = {} /\ Answerless = {} /\ Done = {}
    BY DEF Init, Unfinished, Answerless, Done
  <2> QED
    BY <2>1, FS_EmptySet DEF Init, Counts, Live
<1>4. ASSUME NEW s \in Sites PROVE SiteInv(s)
  <2>1. /\ s \in member /\ toSite[s] = <<>> /\ fromSite[s] = <<>> /\ serving[s] = "none"
        /\ runs[s] = 0 /\ status[s] = "NORESP"
    BY DEF Init
  <2> QED
    BY <2>1, NoFrames DEF SiteInv
<1> QED
  BY <1>1, <1>2, <1>3, <1>4 DEF OnceInv

-----------------------------------------------------------------------------
(* A site that a step does not concern.                                    *)
SiteSame(s) == /\ toSite'[s] = toSite[s] /\ fromSite'[s] = fromSite[s]
               /\ serving'[s] = serving[s] /\ runs'[s] = runs[s]
               /\ status'[s] = status[s] /\ (s \in member' <=> s \in member)
               /\ pc = "over" => pc' = "over"

\* A step that leaves what SiteInv says of a site alone preserves it.
LEMMA SameSite ==
    ASSUME NEW s \in Sites, SiteInv(s), SiteSame(s)
    PROVE  SiteInv(s)'
  BY DEF SiteInv, SiteSame, Settled, Asked

(* The counts of a request whose list did not change.                      *)
LEMMA SameCounts ==
    ASSUME OnceInv, UNCHANGED list, Live' => Live, pc' = "over" => pc = "over"
    PROVE  Counts'
  BY DEF OnceInv, Counts, list, Unfinished, Answerless, Done

(* The course of a request is kept by what happens once it is made.        *)
LEMMA SameCourse ==
    ASSUME OnceInv, UNCHANGED <<mode, next, valid>>,
           pc' = pc \/ (pc # "idle" /\ pc' = "over"),
           member' \subseteq member, dirty' \cap member' = {},
           timer' => pc' = "waiting",
           pc = "idle" => status' = status,
           \A s \in Sites: NotYet(s) => Untouched(s)'
    PROVE  Course'
  BY DEF OnceInv, Course, NotYet

(* A site that has something of the request has been asked.                *)
LEMMA Touched ==
    ASSUME OnceInv, NEW s \in Sites, ~Untouched(s)
    PROVE  ~NotYet(s) /\ pc # "idle"
  BY DEF OnceInv, Course, NotYet

-----------------------------------------------------------------------------
(* The requester sends.                                                    *)

\* net_request() preserves the invariant.
LEMMA NetRequestInv ==
    ASSUME OnceInv, net_request
    PROVE  OnceInv'
<1> USE DEF OnceInv
<1>1. /\ pc = "idle" /\ valid' = member
      /\ remain' = Cardinality(member) /\ noresp' = Cardinality(member)
      /\ next' = IF member = {} THEN 0 ELSE Min(member)
      /\ pc' = IF member = {} THEN "over" ELSE "sending"
      /\ UNCHANGED <<mode, repeatable, status, timer, toSite, fromSite, serving,
                     runs, member, dirty, lost, failures>>
  BY DEF net_request, dest_count
<1>2. member \subseteq Sites
  BY DEF TypeOK
<1>3. Cardinality(member) \in 0..NumSites /\ (Cardinality(member) = 0 <=> member = {})
  BY <1>2, SitesFinite
<1>4. next' \in 0..NumSites
  <2>1. member # {} => Min(member) \in Sites
    BY <1>2, LeastSite
  <2> QED
    BY <2>1, <1>1, MultiAssumption DEF Sites
<1>5. TypeOK'
  <2>1. remain' \in 0..NumSites /\ noresp' \in -NumSites..NumSites
    BY <1>1, <1>3, MultiAssumption
  <2>2. pc' \in {"idle", "sending", "waiting", "over"} /\ valid' \subseteq Sites
    BY <1>1, <1>2
  <2> QED
    BY <1>1, <1>4, <2>1, <2>2 DEF TypeOK
<1>6. Course'
  <2>1. \A s \in Sites: Untouched(s)'
    BY <1>1 DEF Course, NotYet, Untouched
  <2>2. ~timer'
    BY <1>1 DEF Course
  <2> QED
    BY <1>1, <2>1, <2>2 DEF Course
<1>7. Counts'
  <2>1. Unfinished' = member /\ Answerless' = member /\ Done' = {}
    BY <1>1, <1>2 DEF Course, Unfinished, Answerless, Done
  <2>2. Cardinality(Done') = 0
    BY <2>1, FS_EmptySet
  <2> QED
    BY <1>1, <1>3, <2>1, <2>2 DEF Counts, Live
<1>8. \A s \in Sites: SiteSame(s)
  BY <1>1 DEF SiteSame
<1> QED
  BY <1>5, <1>6, <1>7, <1>8, SameSite

(* A frame to a site that has none.                                        *)
LEMMA FirstFrame ==
    ASSUME NEW s \in Sites, SiteInv(s), Untouched(s),
           toSite'[s] = Append(toSite[s], "request"),
           UNCHANGED <<fromSite, serving, runs, status>>, member' = member, s \in member
    PROVE  SiteInv(s)'
<1>1. toSite[s] \in Seq({"request", "retry", "ack"})
  BY DEF Untouched
<1>2. ~Has(toSite[s], "ack") /\ NoneAfter(toSite[s], "ack", {"request", "retry"})
  BY NoFrames DEF Untouched
<1>3. ~Has(toSite'[s], "ack") /\ NoneAfter(toSite'[s], "ack", {"request", "retry"})
  BY <1>1, <1>2, AppendFrames
<1> QED
  BY <1>3 DEF SiteInv, Untouched, Settled, Asked

\* So does send_clustercast().
LEMMA ClustercastInv ==
    ASSUME OnceInv, send_clustercast
    PROVE  OnceInv'
<1> USE DEF OnceInv
<1>1. /\ pc = "sending" /\ mode = "DM_CLUSTERCAST" /\ pc' = "waiting" /\ timer' = TRUE
      /\ toSite' = [s \in Sites |-> IF s \in member THEN Append(toSite[s], "request")
                                    ELSE toSite[s]]
      /\ UNCHANGED <<mode, repeatable, list, next, fromSite, serving, runs,
                     member, dirty, lost, failures>>
  BY DEF send_clustercast
<1>2. \A s \in Sites: Untouched(s)
  BY <1>1 DEF Course, NotYet
<1>3. toSite' \in [Sites -> Seq({"request", "retry", "ack"})]
  <2>1. \A s \in Sites: toSite[s] \in Seq({"request", "retry", "ack"})
    BY DEF TypeOK
  <2>2. \A s \in Sites: Append(toSite[s], "request") \in Seq({"request", "retry", "ack"})
    BY <2>1, AppendFrames
  <2> QED
    BY <1>1, <2>1, <2>2
<1>4. TypeOK'
  <2>1. timer' \in BOOLEAN
    BY <1>1
  <2> QED
    BY <1>1, <1>3, <2>1 DEF TypeOK, list
<1>5. Course'
  BY <1>1 DEF Course, NotYet, list
<1>6. Counts'
  BY <1>1, SameCounts DEF Live
<1>7. ASSUME NEW s \in Sites PROVE SiteInv(s)'
  <2>1. CASE s \in member
    BY <1>1, <1>2, <2>1, FirstFrame DEF list
  <2>2. CASE s \notin member
    <3>1. SiteSame(s)
      BY <1>1, <2>2 DEF SiteSame, list
    <3> QED
      BY <3>1, SameSite
  <2> QED
    BY <2>1, <2>2
<1> QED
  BY <1>4, <1>5, <1>6, <1>7

\* send_multisite() sends the next frame, and starts the timer after the last.
LEMMA MultisiteInv ==
    ASSUME OnceInv, send_multisite
    PROVE  OnceInv'
<1> USE DEF OnceInv
<1> DEFINE rest == Silent(next + 1)
<1>1. /\ pc = "sending" /\ mode = "DM_MULTISITE"
      /\ toSite' = IF next \in member
                   THEN [toSite EXCEPT ![next] = Append(@, "request")]
                   ELSE toSite
      /\ next' = IF rest = {} THEN 0 ELSE Min(rest)
      /\ pc' = IF rest = {} THEN "waiting" ELSE pc
      /\ timer' = (rest = {})
      /\ UNCHANGED <<mode, repeatable, list, fromSite, serving, runs, member,
                     dirty, lost, failures>>
  BY DEF send_multisite
<1>2. rest \subseteq Sites /\ \A s \in rest: next + 1 <= s
  BY DEF TypeOK, Silent
<1>3. toSite \in [Sites -> Seq({"request", "retry", "ack"})] /\ member \subseteq Sites
      /\ next \in 0..NumSites
  BY DEF TypeOK
<1> HIDE DEF rest
<1>4. next' \in 0..NumSites /\ (rest # {} => next + 1 <= next')
  <2>1. rest # {} => Min(rest) \in Sites /\ next + 1 <= Min(rest)
    BY <1>2, LeastSite
  <2> QED
    BY <2>1, <1>1, MultiAssumption DEF Sites
<1>5. toSite' \in [Sites -> Seq({"request", "retry", "ack"})]
  <2>1. CASE next \in member
    <3>1. Append(toSite[next], "request") \in Seq({"request", "retry", "ack"})
      BY <1>3, <2>1, AppendFrames
    <3> QED
      BY <1>1, <1>3, <2>1, <3>1
  <2> QED
    BY <1>1, <1>3, <2>1
<1>6. TypeOK'
  <2>1. timer' \in BOOLEAN
    BY <1>1
  <2>2. pc' \in {"sending", "waiting"}
    BY <1>1
  <2> QED
    BY <1>1, <1>4, <1>5, <2>1, <2>2 DEF TypeOK, list
<1>7. \A s \in Sites: s # next => toSite'[s] = toSite[s]
  BY <1>1, <1>3
<1>8. Course'
  <2>1. ASSUME NEW s \in Sites, NotYet(s)' PROVE Untouched(s)'
    <3>1. rest # {} /\ next' <= s
      BY <2>1, <1>1 DEF NotYet
    <3>2. next <= s /\ s # next
      BY <3>1, <1>3, <1>4, MultiAssumption DEF Sites
    <3>3. Untouched(s)
      BY <3>2, <1>1 DEF Course, NotYet
    <3> QED
      BY <3>2, <3>3, <1>1, <1>7 DEF Untouched
  <2>2. timer' => pc' = "waiting"
    BY <1>1
  <2> QED
    BY <1>1, <2>1, <2>2 DEF Course, list
<1>9. Counts'
  BY <1>1, SameCounts DEF Live
<1>10. ASSUME NEW s \in Sites PROVE SiteInv(s)'
  <2>1. CASE s = next /\ s \in member
    <3>1. Untouched(s)
      BY <2>1, <1>1, <1>3 DEF Course, NotYet
    <3>2. toSite'[s] = Append(toSite[s], "request")
      BY <2>1, <1>1, <1>3
    <3> QED
      BY <1>1, <2>1, <3>1, <3>2, FirstFrame DEF list
  <2>2. CASE ~(s = next /\ s \in member)
    <3>1. SiteSame(s)
      BY <1>1, <1>7, <2>2 DEF SiteSame, list
    <3> QED
      BY <3>1, SameSite
  <2> QED
    BY <2>1, <2>2
<1> QED
  BY <1>6, <1>8, <1>9, <1>10

\* retry_request() sends a retry to each site that has not responded.
LEMMA RetryRequestInv ==
    ASSUME OnceInv, retry_request
    PROVE  OnceInv'
<1> USE DEF OnceInv
<1>1. /\ timer /\ mode' = "DM_MULTISITE" /\ timer' = (Silent(1) # {})
      /\ toSite' = [s \in Sites |-> IF s \in Silent(1) \cap member
                                    THEN Append(toSite[s], "retry") ELSE toSite[s]]
      /\ UNCHANGED <<pc, repeatable, list, next, fromSite, serving, runs, member,
                     dirty, lost, failures>>
  BY DEF retry_request
<1>2. pc = "waiting"
  BY <1>1 DEF Course
<1>3. \A s \in Sites: toSite[s] \in Seq({"request", "retry", "ack"})
  BY DEF TypeOK
<1>4. toSite' \in [Sites -> Seq({"request", "retry", "ack"})]
  <2>1. \A s \in Sites: Append(toSite[s], "retry") \in Seq({"request", "retry", "ack"})
    BY <1>3, AppendFrames
  <2> QED
    BY <1>1, <1>3, <2>1
<1>5. TypeOK'
  <2>1. timer' \in BOOLEAN
    BY <1>1
  <2> QED
    BY <1>1, <1>4, <2>1 DEF TypeOK, list
<1>6. Course'
  BY <1>1, <1>2 DEF Course, NotYet, list
<1>7. Counts'
  BY <1>1, SameCounts DEF Live
<1>8. ASSUME NEW s \in Sites PROVE SiteInv(s)'
  <2>1. CASE s \in Silent(1) \cap member
    <3>1. ~Settled(s)
      BY <2>1, <1>2 DEF Settled, Silent
    <3>2. ~Has(toSite[s], "ack") /\ ~(serving[s] = "none" /\ runs[s] # 0)
      BY <3>1 DEF SiteInv
    <3>3. toSite'[s] = Append(toSite[s], "retry")
      BY <2>1, <1>1
    <3>4. ~Has(toSite'[s], "ack") /\ NoneAfter(toSite'[s], "ack", {"request", "retry"})
      BY <3>2, <3>3, <1>3, AppendFrames DEF SiteInv
    <3> QED
      BY <3>2, <3>4, <2>1, <1>1 DEF SiteInv, Settled, Asked, list
  <2>2. CASE s \notin Silent(1) \cap member
    <3>1. SiteSame(s)
      BY <1>1, <2>2 DEF SiteSame, list
    <3> QED
      BY <3>1, SameSite
  <2> QED
    BY <2>1, <2>2
<1> QED
  BY <1>5, <1>6, <1>7, <1>8

-----------------------------------------------------------------------------
(* What happens at a site, or to its frames, while the list stays as it is.*)

(* The other sites, and the course of the request, are not concerned.      *)
LEMMA SiteStep ==
    ASSUME OnceInv, NEW s \in Sites, SiteInv(s)',
           UNCHANGED <<pc, mode, repeatable, list, next, timer, member, dirty>>,
           \A d \in Sites: d # s => /\ toSite'[d] = toSite[d] /\ fromSite'[d] = fromSite[d]
                                    /\ serving'[d] = serving[d] /\ runs'[d] = runs[d],
           ~Untouched(s),
           toSite' \in [Sites -> Seq({"request", "retry", "ack"})],
           fromSite' \in [Sites -> Seq({"reply", "idem", "slow"})],
           serving' \in [Sites -> {"none", "serving", "slow", "waitack"}],
           runs' \in [Sites -> 0..2]
    PROVE  OnceInv'
<1> USE DEF OnceInv
<1>1. TypeOK'
  BY DEF TypeOK, list
<1>2. Course'
  <2>1. ASSUME NEW d \in Sites, NotYet(d) PROVE Untouched(d)'
    <3>1. Untouched(d) /\ d # s
      BY <2>1 DEF Course
    <3> QED
      BY <3>1 DEF Untouched
  <2>2. dirty' \cap member' = {} /\ (timer' => pc' = "waiting")
    BY DEF Course
  <2> QED
    BY <2>1, <2>2, SameCourse DEF list
<1>3. Counts'
  BY SameCounts DEF Live
<1>4. \A d \in Sites: d # s => SiteSame(d)
  BY DEF SiteSame, list
<1> QED
  BY <1>1, <1>2, <1>3, <1>4, SameSite

\* The types of what belongs to one site, for the steps of that site.
LEMMA SiteTypes ==
    ASSUME OnceInv, NEW s \in Sites
    PROVE  /\ toSite \in [Sites -> Seq({"request", "retry", "ack"})]
           /\ fromSite \in [Sites -> Seq({"reply", "idem", "slow"})]
           /\ serving \in [Sites -> {"none", "serving", "slow", "waitack"}]
           /\ runs \in [Sites -> 0..2]
           /\ toSite[s] \in Seq({"request", "retry", "ack"})
           /\ fromSite[s] \in Seq({"reply", "idem", "slow"})
           /\ SiteInv(s)
  BY DEF OnceInv, TypeOK

\* A site that gets the request serves it, answers "slow" or drops it.
LEMMA RecvRequestInv ==
    ASSUME OnceInv, NEW s \in Sites, recv_request(s)
    PROVE  OnceInv'
<1> DEFINE q == toSite[s]
           f == Head(q)
<1>1. /\ s \in member /\ q # <<>> /\ toSite' = [toSite EXCEPT ![s] = Tail(q)]
      /\ UNCHANGED <<pc, mode, repeatable, list, next, timer, runs, member, dirty>>
  BY DEF recv_request, Took
<1>2. /\ toSite \in [Sites -> Seq({"request", "retry", "ack"})]
      /\ fromSite \in [Sites -> Seq({"reply", "idem", "slow"})]
      /\ serving \in [Sites -> {"none", "serving", "slow", "waitack"}]
      /\ runs \in [Sites -> 0..2]
      /\ q \in Seq({"request", "retry", "ack"})
      /\ fromSite[s] \in Seq({"reply", "idem", "slow"})
      /\ SiteInv(s)
  BY SiteTypes
<1>3. /\ Tail(q) \in Seq({"request", "retry", "ack"}) /\ Has(q, f)
      /\ \A x: Has(Tail(q), x) => Has(q, x)
      /\ NoneAfter(Tail(q), "ack", {"request", "retry"})
      /\ f = "ack" => ~Has(Tail(q), "request") /\ ~Has(Tail(q), "retry")
  <2>1. NoneAfter(q, "ack", {"request", "retry"})
    BY <1>2 DEF SiteInv
  <2>2. q \in Seq({"request", "retry", "ack"}) /\ q # <<>>
    BY <1>1, <1>2
  <2> DEFINE Y == {"request", "retry"}
  <2>3. "request" \in Y /\ "retry" \in Y
    OBVIOUS
  <2> HIDE DEF q, Y
  <2>4. /\ Tail(q) \in Seq({"request", "retry", "ack"}) /\ Has(q, f)
        /\ \A x: Has(Tail(q), x) => Has(q, x)
        /\ NoneAfter(q, "ack", Y) => NoneAfter(Tail(q), "ack", Y)
        /\ NoneAfter(q, "ack", Y) /\ f = "ack" => \A y \in Y: ~Has(Tail(q), y)
    BY <2>2, TailFrames
  <2> QED
    BY <2>1, <2>3, <2>4 DEF Y
<1>4. /\ toSite'[s] = Tail(q) /\ \A d \in Sites: d # s => toSite'[d] = toSite[d]
      /\ toSite' \in [Sites -> Seq({"request", "retry", "ack"})]
  BY <1>1, <1>2, <1>3
<1>5. ~Untouched(s)
  BY <1>1 DEF Untouched
<1> HIDE DEF q, f
<1>6. CASE f \in {"request", "retry"} /\ serving[s] = "none"
           /\ serving' = [serving EXCEPT ![s] = "serving"] /\ UNCHANGED fromSite
  <2>1. runs[s] = 0
    BY <1>2, <1>3, <1>6 DEF SiteInv, Asked, q
  <2>2. /\ serving'[s] = "serving" /\ \A d \in Sites: d # s => serving'[d] = serving[d]
        /\ serving' \in [Sites -> {"none", "serving", "slow", "waitack"}]
    BY <1>2, <1>6
  <2>3. SiteInv(s)'
    BY <1>1, <1>2, <1>3, <1>4, <1>6, <2>1, <2>2 DEF SiteInv, Asked, Settled, list, q
  <2> QED
    BY <1>1, <1>2, <1>4, <1>5, <1>6, <2>2, <2>3, SiteStep
<1>7. CASE f = "retry" /\ serving[s] \in {"serving", "slow"}
           /\ serving' = [serving EXCEPT ![s] = "slow"]
           /\ fromSite' = [fromSite EXCEPT ![s] = Append(@, "slow")]
  <2>1. runs[s] = 0 /\ ~Has(fromSite[s], "reply") /\ status[s] # "DONE"
    BY <1>1, <1>2, <1>7 DEF SiteInv
  <2>2. /\ serving'[s] = "slow" /\ \A d \in Sites: d # s => serving'[d] = serving[d]
        /\ serving' \in [Sites -> {"none", "serving", "slow", "waitack"}]
    BY <1>2, <1>7
  <2>3. /\ Append(fromSite[s], "slow") \in Seq({"reply", "idem", "slow"})
        /\ \A x: Has(Append(fromSite[s], "slow"), x) <=> Has(fromSite[s], x) \/ x = "slow"
        /\ NoneAfter(Append(fromSite[s], "slow"), "reply", {"slow"})
    BY <1>2, <2>1, AppendFrames DEF SiteInv
  <2>4. /\ fromSite'[s] = Append(fromSite[s], "slow")
        /\ \A d \in Sites: d # s => fromSite'[d] = fromSite[d]
        /\ fromSite' \in [Sites -> Seq({"reply", "idem", "slow"})]
    BY <1>2, <1>7, <2>3
  <2>5. SiteInv(s)'
    BY <1>1, <1>2, <1>3, <1>4, <2>1, <2>2, <2>3, <2>4 DEF SiteInv, Asked, Settled, list, q
  <2> QED
    BY <1>1, <1>2, <1>4, <1>5, <2>2, <2>4, <2>5, SiteStep
<1>8. CASE f = "retry" /\ serving[s] = "waitack" /\ UNCHANGED <<serving, fromSite>>
  <2>1. SiteInv(s)'
    BY <1>1, <1>2, <1>3, <1>4, <1>8 DEF SiteInv, Asked, Settled, list, q
  <2> QED
    BY <1>1, <1>2, <1>4, <1>5, <1>8, <2>1, SiteStep
<1>9. CASE f = "ack" /\ UNCHANGED fromSite
           /\ serving' = [serving EXCEPT ![s] = IF @ = "waitack" THEN "none" ELSE @]
  <2>1. runs[s] # 0 /\ Settled(s) /\ serving[s] \in {"none", "waitack"}
    BY <1>2, <1>3, <1>9 DEF SiteInv, q
  <2>2. /\ serving'[s] = "none" /\ \A d \in Sites: d # s => serving'[d] = serving[d]
        /\ serving' \in [Sites -> {"none", "serving", "slow", "waitack"}]
    BY <1>2, <1>9, <2>1
  <2>3. SiteInv(s)'
    BY <1>1, <1>2, <1>3, <1>4, <1>9, <2>1, <2>2 DEF SiteInv, Asked, Settled, list, q
  <2> QED
    BY <1>1, <1>2, <1>4, <1>5, <1>9, <2>2, <2>3, SiteStep
<1> QED
  BY <1>6, <1>7, <1>8, <1>9 DEF recv_request, q, f

\* net_reply(): the site has served the request.
LEMMA NetReplyInv ==
    ASSUME OnceInv, ~repeatable, NEW s \in Sites, net_reply(s)
    PROVE  OnceInv'
<1>1. /\ s \in member /\ serving[s] \in {"serving", "slow"}
      /\ runs' = [runs EXCEPT ![s] = IF @ = 0 THEN 1 ELSE 2]
      /\ serving' = [serving EXCEPT ![s] = "waitack"]
      /\ fromSite' = [fromSite EXCEPT ![s] = Append(@, "reply")]
      /\ UNCHANGED <<pc, mode, repeatable, list, next, timer, toSite, member, dirty>>
  BY DEF net_reply, NotKept
<1>2. /\ toSite \in [Sites -> Seq({"request", "retry", "ack"})]
      /\ fromSite \in [Sites -> Seq({"reply", "idem", "slow"})]
      /\ serving \in [Sites -> {"none", "serving", "slow", "waitack"}]
      /\ runs \in [Sites -> 0..2]
      /\ fromSite[s] \in Seq({"reply", "idem", "slow"})
      /\ SiteInv(s)
  BY SiteTypes
<1>3. runs[s] = 0
  BY <1>1, <1>2 DEF SiteInv
<1>4. /\ runs'[s] = 1 /\ serving'[s] = "waitack"
      /\ \A d \in Sites: d # s => runs'[d] = runs[d] /\ serving'[d] = serving[d]
      /\ runs' \in [Sites -> 0..2]
      /\ serving' \in [Sites -> {"none", "serving", "slow", "waitack"}]
  BY <1>1, <1>2, <1>3
<1>5. /\ Append(fromSite[s], "reply") \in Seq({"reply", "idem", "slow"})
      /\ \A x: Has(Append(fromSite[s], "reply"), x) <=> Has(fromSite[s], x) \/ x = "reply"
      /\ NoneAfter(Append(fromSite[s], "reply"), "reply", {"slow"})
  BY <1>2, AppendFrames DEF SiteInv
<1>6. /\ fromSite'[s] = Append(fromSite[s], "reply")
      /\ \A d \in Sites: d # s => fromSite'[d] = fromSite[d]
      /\ fromSite' \in [Sites -> Seq({"reply", "idem", "slow"})]
  BY <1>1, <1>2, <1>5
<1>7. SiteInv(s)'
  BY <1>1, <1>2, <1>4, <1>5, <1>6 DEF SiteInv, Asked, Settled, list
<1>8. ~Untouched(s)
  BY <1>1 DEF Untouched
<1> QED
  BY <1>1, <1>2, <1>4, <1>6, <1>7, <1>8, SiteStep

\* retry_reply(): a reply that was not acknowledged is sent again.
LEMMA RetryReplyInv ==
    ASSUME OnceInv, NEW s \in Sites, retry_reply(s)
    PROVE  OnceInv'
<1>1. /\ s \in member /\ serving[s] = "waitack"
      /\ fromSite' = [fromSite EXCEPT ![s] = Append(@, "reply")]
      /\ UNCHANGED <<pc, mode, repeatable, list, next, timer, toSite, serving, runs, member,
                     dirty>>
  BY DEF retry_reply
<1>2. /\ toSite \in [Sites -> Seq({"request", "retry", "ack"})]
      /\ fromSite \in [Sites -> Seq({"reply", "idem", "slow"})]
      /\ serving \in [Sites -> {"none", "serving", "slow", "waitack"}]
      /\ runs \in [Sites -> 0..2]
      /\ fromSite[s] \in Seq({"reply", "idem", "slow"})
      /\ SiteInv(s)
  BY SiteTypes
<1>3. /\ Append(fromSite[s], "reply") \in Seq({"reply", "idem", "slow"})
      /\ \A x: Has(Append(fromSite[s], "reply"), x) <=> Has(fromSite[s], x) \/ x = "reply"
      /\ NoneAfter(Append(fromSite[s], "reply"), "reply", {"slow"})
  BY <1>2, AppendFrames DEF SiteInv
<1>4. /\ fromSite'[s] = Append(fromSite[s], "reply")
      /\ \A d \in Sites: d # s => fromSite'[d] = fromSite[d]
      /\ fromSite' \in [Sites -> Seq({"reply", "idem", "slow"})]
  BY <1>1, <1>2, <1>3
<1>5. SiteInv(s)'
  BY <1>1, <1>2, <1>3, <1>4 DEF SiteInv, Asked, Settled, list
<1>6. ~Untouched(s)
  BY <1>1 DEF Untouched
<1> QED
  BY <1>1, <1>2, <1>4, <1>5, <1>6, SiteStep

\* A frame is lost.
LEMMA LoseInv ==
    ASSUME OnceInv, NEW s \in Sites, Lose(s)
    PROVE  OnceInv'
<1>1. UNCHANGED <<pc, mode, repeatable, list, next, timer, serving, runs, member, dirty>>
  BY DEF Lose
<1>2. /\ toSite \in [Sites -> Seq({"request", "retry", "ack"})]
      /\ fromSite \in [Sites -> Seq({"reply", "idem", "slow"})]
      /\ serving \in [Sites -> {"none", "serving", "slow", "waitack"}]
      /\ runs \in [Sites -> 0..2]
      /\ toSite[s] \in Seq({"request", "retry", "ack"})
      /\ fromSite[s] \in Seq({"reply", "idem", "slow"})
      /\ SiteInv(s)
  BY SiteTypes
<1>3. CASE /\ toSite[s] # <<>> /\ toSite' = [toSite EXCEPT ![s] = Tail(@)]
           /\ UNCHANGED fromSite
  <2>1. /\ Tail(toSite[s]) \in Seq({"request", "retry", "ack"})
        /\ \A x: Has(Tail(toSite[s]), x) => Has(toSite[s], x)
        /\ NoneAfter(Tail(toSite[s]), "ack", {"request", "retry"})
    BY <1>2, <1>3, TailFrames DEF SiteInv
  <2>2. /\ toSite'[s] = Tail(toSite[s]) /\ \A d \in Sites: d # s => toSite'[d] = toSite[d]
        /\ toSite' \in [Sites -> Seq({"request", "retry", "ack"})]
    BY <1>2, <1>3, <2>1
  <2>3. SiteInv(s)'
    BY <1>1, <1>2, <1>3, <2>1, <2>2 DEF SiteInv, Asked, Settled, list
  <2>4. ~Untouched(s)
    BY <1>3 DEF Untouched
  <2> QED
    BY <1>1, <1>2, <1>3, <2>2, <2>3, <2>4, SiteStep
<1>4. CASE /\ fromSite[s] # <<>> /\ fromSite' = [fromSite EXCEPT ![s] = Tail(@)]
           /\ UNCHANGED toSite
  <2>1. /\ Tail(fromSite[s]) \in Seq({"reply", "idem", "slow"})
        /\ \A x: Has(Tail(fromSite[s]), x) => Has(fromSite[s], x)
        /\ NoneAfter(Tail(fromSite[s]), "reply", {"slow"})
    BY <1>2, <1>4, TailFrames DEF SiteInv
  <2>2. /\ fromSite'[s] = Tail(fromSite[s]) /\ \A d \in Sites: d # s => fromSite'[d] = fromSite[d]
        /\ fromSite' \in [Sites -> Seq({"reply", "idem", "slow"})]
    BY <1>2, <1>4, <2>1
  <2>3. SiteInv(s)'
    BY <1>1, <1>2, <1>4, <2>1, <2>2 DEF SiteInv, Asked, Settled, list
  <2>4. ~Untouched(s)
    BY <1>4 DEF Untouched
  <2> QED
    BY <1>1, <1>2, <1>4, <2>2, <2>3, <2>4, SiteStep
<1> QED
  BY <1>3, <1>4 DEF Lose, Took

\* declare_failed(): a site stops being a member.
LEMMA FailedInv ==
    ASSUME OnceInv, NEW s \in Sites, declare_failed(s)
    PROVE  OnceInv'
<1> USE DEF OnceInv
<1>1. /\ s \in member /\ member' = member \ {s} /\ dirty' = dirty \cup {s}
      /\ toSite' = [toSite EXCEPT ![s] = <<>>] /\ fromSite' = [fromSite EXCEPT ![s] = <<>>]
      /\ UNCHANGED <<pc, mode, repeatable, list, next, timer, serving, runs, lost>>
  BY DEF declare_failed
<1>2. /\ toSite'[s] = <<>> /\ fromSite'[s] = <<>>
      /\ \A d \in Sites: d # s => toSite'[d] = toSite[d] /\ fromSite'[d] = fromSite[d]
      /\ toSite' \in [Sites -> Seq({"request", "retry", "ack"})]
      /\ fromSite' \in [Sites -> Seq({"reply", "idem", "slow"})]
  BY <1>1, SiteTypes
<1>3. TypeOK'
  BY <1>1, <1>2 DEF TypeOK, list
<1>4. Course'
  <2>1. \A d \in Sites: NotYet(d) => Untouched(d)'
    BY <1>1, <1>2 DEF Course, Untouched
  <2>2. dirty' \cap member' = {} /\ (timer' => pc' = "waiting")
    BY <1>1 DEF Course
  <2> QED
    BY <1>1, <2>1, <2>2, SameCourse DEF list
<1>5. Counts'
  BY <1>1, SameCounts DEF Live
<1>6. \A d \in Sites: d # s => SiteSame(d)
  BY <1>1, <1>2 DEF SiteSame, list
<1>7. SiteInv(s)'
  BY <1>1, <1>2, NoFrames DEF SiteInv, Asked, Settled, list
<1> QED
  BY <1>3, <1>4, <1>5, <1>6, <1>7, SameSite

-----------------------------------------------------------------------------
(* What changes the list of destinations.                                  *)

(* s is done with: it is one less to wait for, and the request is over     *)
(* when it was the last one.                                               *)
LEMMA OneDone ==
    ASSUME OnceInv, NEW s \in Sites, Live, s \in valid, status[s] # "DONE",
           status' = [status EXCEPT ![s] = "DONE"], valid' = valid, remain' = remain - 1,
           \/ noresp' = noresp - 1
           \/ status[s] = "SLOWOP" /\ noresp' = noresp,
           pc' = IF remain = 1 THEN "over" ELSE pc
    PROVE  Counts' /\ remain' \in 0..NumSites /\ noresp' \in -NumSites..NumSites
<1>1. /\ valid \subseteq Sites /\ status \in [Sites -> {"NORESP", "SLOWOP", "DONE"}]
      /\ remain \in 0..NumSites /\ noresp \in -NumSites..NumSites
      /\ pc \in {"sending", "waiting"} /\ remain > 0 /\ remain = Cardinality(Unfinished)
      /\ noresp >= Cardinality(Answerless) - Cardinality(Done)
  BY DEF OnceInv, TypeOK, Counts, Live
<1>2. status'[s] = "DONE" /\ \A d \in Sites: d # s => status'[d] = status[d]
  BY <1>1
<1>3. Unfinished' = Unfinished \ {s} /\ s \in Unfinished /\ Unfinished \subseteq Sites
  BY <1>1, <1>2 DEF Unfinished
<1>4. Done' = Done \cup {s} /\ s \notin Done /\ Done \subseteq Sites /\ Done' \subseteq Sites
  BY <1>1, <1>2 DEF Done
<1>5. /\ Answerless' = Answerless \ {s} /\ Answerless \subseteq Sites
      /\ Answerless' \subseteq Sites
      /\ s \in Answerless <=> status[s] = "NORESP"
  BY <1>1, <1>2 DEF Answerless
<1>6. Cardinality(Unfinished') = Cardinality(Unfinished) - 1
  BY <1>3, SitesFinite
<1>7. /\ Cardinality(Done') = Cardinality(Done) + 1
      /\ Cardinality(Done') \in 0..NumSites /\ Cardinality(Done) \in 0..NumSites
  BY <1>4, SitesFinite
<1>8. /\ Cardinality(Answerless') \in 0..NumSites /\ Cardinality(Answerless) \in 0..NumSites
      /\ status[s] = "NORESP" => Cardinality(Answerless') = Cardinality(Answerless) - 1
      /\ status[s] = "SLOWOP" => Cardinality(Answerless') = Cardinality(Answerless)
  <2>1. status[s] = "SLOWOP" => Answerless' = Answerless
    BY <1>5
  <2> QED
    BY <1>5, <2>1, SitesFinite
<1>9. status[s] \in {"NORESP", "SLOWOP"}
  BY <1>1
<1>10. noresp' >= Cardinality(Answerless') - Cardinality(Done')
  BY <1>1, <1>7, <1>8, <1>9, MultiAssumption
<1>11. remain' \in 0..NumSites /\ noresp' \in -NumSites..NumSites
  BY <1>1, <1>7, <1>8, <1>10, MultiAssumption
<1>12. /\ remain' = Cardinality(Unfinished') /\ (Live' => remain' > 0)
       /\ pc' = "over" => remain' = 0
  BY <1>1, <1>6, <1>11 DEF Live
<1> QED
  BY <1>10, <1>11, <1>12 DEF Counts

(* A reply at the requester: the site has run the request, is one of its   *)
(* destinations, and says "slow" no more.                                  *)
LEMMA RecvReplyInv ==
    ASSUME OnceInv, NEW s \in Sites, recv_reply(s)
    PROVE  OnceInv'
<1> DEFINE q == fromSite[s]
           f == Head(q)
<1>1. /\ s \in member /\ q # <<>> /\ f \in {"reply", "idem"}
      /\ fromSite' = [fromSite EXCEPT ![s] = Tail(q)]
      /\ toSite' = IF f = "reply" THEN [toSite EXCEPT ![s] = Append(@, "ack")] ELSE toSite
      /\ UNCHANGED <<mode, repeatable, valid, next, serving, runs, member, dirty>>
  BY DEF recv_reply
<1>2. \/ /\ Live /\ FirstReply(s)
         /\ status' = [status EXCEPT ![s] = "DONE"] /\ noresp' = noresp - 1
         /\ remain' = remain - 1
         /\ pc' = IF LastOne THEN "over" ELSE pc
         /\ timer' = IF LastOne THEN FALSE ELSE timer
      \/ /\ ~(Live /\ FirstReply(s)) /\ UNCHANGED <<status, noresp, remain>>
         /\ pc' = pc /\ timer' = timer
  BY DEF recv_reply
<1>3. /\ toSite \in [Sites -> Seq({"request", "retry", "ack"})]
      /\ fromSite \in [Sites -> Seq({"reply", "idem", "slow"})]
      /\ toSite[s] \in Seq({"request", "retry", "ack"})
      /\ q \in Seq({"reply", "idem", "slow"})
      /\ SiteInv(s)
  BY SiteTypes
<1>4. status \in [Sites -> {"NORESP", "SLOWOP", "DONE"}]
  BY DEF OnceInv, TypeOK
<1>5. /\ Tail(q) \in Seq({"reply", "idem", "slow"}) /\ Has(q, f)
      /\ \A x: Has(Tail(q), x) => Has(q, x)
      /\ NoneAfter(Tail(q), "reply", {"slow"})
      /\ f = "reply" => ~Has(Tail(q), "slow")
  <2>1. NoneAfter(q, "reply", {"slow"})
    BY <1>3 DEF SiteInv
  <2>2. q \in Seq({"reply", "idem", "slow"}) /\ q # <<>>
    BY <1>1, <1>3
  <2> DEFINE Y == {"slow"}
  <2>3. "slow" \in Y
    OBVIOUS
  <2> HIDE DEF q, Y
  <2>4. /\ Tail(q) \in Seq({"reply", "idem", "slow"}) /\ Has(q, f)
        /\ \A x: Has(Tail(q), x) => Has(q, x)
        /\ NoneAfter(q, "reply", Y) => NoneAfter(Tail(q), "reply", Y)
        /\ NoneAfter(q, "reply", Y) /\ f = "reply" => \A y \in Y: ~Has(Tail(q), y)
    BY <2>2, TailFrames
  <2> QED
    BY <2>1, <2>3, <2>4 DEF Y
<1>6. f = "reply" /\ runs[s] # 0
  BY <1>1, <1>3, <1>5 DEF SiteInv
<1>7. ~Untouched(s) /\ ~NotYet(s) /\ pc # "idle" /\ s \in valid
  <2>1. ~Untouched(s)
    BY <1>1 DEF Untouched
  <2>2. pc # "idle" /\ ~NotYet(s)
    BY <2>1, Touched
  <2> QED
    BY <1>1, <2>1, <2>2 DEF OnceInv, Course
<1>8. /\ Append(toSite[s], "ack") \in Seq({"request", "retry", "ack"})
      /\ \A x: Has(Append(toSite[s], "ack"), x) <=> Has(toSite[s], x) \/ x = "ack"
      /\ NoneAfter(Append(toSite[s], "ack"), "ack", {"request", "retry"})
  <2> DEFINE Y == {"request", "retry"}
  <2>1. NoneAfter(toSite[s], "ack", Y) /\ "ack" \notin Y
    BY <1>3 DEF SiteInv
  <2> HIDE DEF Y
  <2>2. /\ Append(toSite[s], "ack") \in Seq({"request", "retry", "ack"})
        /\ \A x: Has(Append(toSite[s], "ack"), x) <=> Has(toSite[s], x) \/ x = "ack"
        /\ NoneAfter(Append(toSite[s], "ack"), "ack", Y)
    BY <1>3, <2>1, AppendFrames
  <2> QED
    BY <2>2 DEF Y
<1>9. /\ toSite'[s] = Append(toSite[s], "ack") /\ fromSite'[s] = Tail(q)
      /\ \A d \in Sites: d # s => toSite'[d] = toSite[d] /\ fromSite'[d] = fromSite[d]
      /\ toSite' \in [Sites -> Seq({"request", "retry", "ack"})]
      /\ fromSite' \in [Sites -> Seq({"reply", "idem", "slow"})]
  BY <1>1, <1>3, <1>5, <1>6, <1>8
<1> HIDE DEF q, f
<1>10. /\ Settled(s)' /\ (pc' = pc \/ pc' = "over")
       /\ \A d \in Sites: d # s => status'[d] = status[d]
       /\ status' \in [Sites -> {"NORESP", "SLOWOP", "DONE"}]
       /\ Settled(s) => status'[s] = "DONE" \/ pc' = "over"
  <2>1. pc \in {"sending", "waiting", "over"}
    BY <1>7 DEF OnceInv, TypeOK
  <2> QED
    BY <1>2, <1>4, <2>1 DEF Settled, Live, FirstReply
<1>11. Counts' /\ remain' \in 0..NumSites /\ noresp' \in -NumSites..NumSites
  <2>1. CASE Live /\ FirstReply(s)
    BY <1>1, <1>2, <1>7, <2>1, OneDone DEF FirstReply, LastOne
  <2>2. CASE ~(Live /\ FirstReply(s))
    <3>1. UNCHANGED list /\ pc' = pc
      BY <1>1, <1>2, <2>2 DEF list
    <3>2. Counts'
      BY <3>1, SameCounts DEF Live
    <3> QED
      BY <3>1, <3>2 DEF OnceInv, TypeOK, list
  <2> QED
    BY <2>1, <2>2
<1>12. SiteInv(s)'
  BY <1>1, <1>3, <1>5, <1>6, <1>8, <1>9, <1>10 DEF SiteInv, Asked, Settled, q
<1>13. Course'
  <2>1. timer' => pc' = "waiting"
    BY <1>2 DEF OnceInv, Course
  <2>2. \A d \in Sites: NotYet(d) => Untouched(d)'
    BY <1>1, <1>7, <1>9 DEF OnceInv, Course, Untouched
  <2>3. dirty' \cap member' = {}
    BY <1>1 DEF OnceInv, Course
  <2> QED
    BY <1>1, <1>7, <1>10, <2>1, <2>2, <2>3, SameCourse
<1>14. TypeOK'
  <2>1. timer' \in BOOLEAN
    BY <1>2 DEF OnceInv, TypeOK
  <2>2. pc' \in {"idle", "sending", "waiting", "over"}
    BY <1>10 DEF OnceInv, TypeOK
  <2> QED
    BY <1>1, <1>9, <1>10, <1>11, <2>1, <2>2 DEF OnceInv, TypeOK
<1>15. \A d \in Sites: d # s => SiteSame(d)
  BY <1>1, <1>9, <1>10 DEF SiteSame
<1> QED
  BY <1>11, <1>12, <1>13, <1>14, <1>15, SameSite DEF OnceInv

(* A "slow" at the requester: its sender is not done, so it only leaves    *)
(* those that have sent no response.                                       *)
LEMMA RecvSlowInv ==
    ASSUME OnceInv, NEW s \in Sites, recv_slow_request(s)
    PROVE  OnceInv'
<1> DEFINE q == fromSite[s]
<1>1. /\ s \in member /\ q # <<>> /\ Head(q) = "slow"
      /\ fromSite' = [fromSite EXCEPT ![s] = Tail(q)]
      /\ UNCHANGED <<pc, mode, repeatable, valid, remain, next, toSite, serving,
                     runs, member, dirty>>
  BY DEF recv_slow_request
<1>2. \/ /\ Live /\ status[s] # "SLOWOP"
         /\ status' = [status EXCEPT ![s] = "SLOWOP"] /\ noresp' = noresp - 1
      \/ ~(Live /\ status[s] # "SLOWOP") /\ UNCHANGED <<status, noresp>>
  BY DEF recv_slow_request
<1>3. timer' \in BOOLEAN /\ (timer' => timer)
  <2>1. timer \in BOOLEAN
    BY DEF OnceInv, TypeOK
  <2> QED
    BY <2>1, Zenon DEF recv_slow_request
<1>4. /\ fromSite \in [Sites -> Seq({"reply", "idem", "slow"})]
      /\ q \in Seq({"reply", "idem", "slow"}) /\ SiteInv(s)
  BY SiteTypes
<1>5. /\ valid \subseteq Sites /\ status \in [Sites -> {"NORESP", "SLOWOP", "DONE"}]
      /\ noresp \in -NumSites..NumSites
  BY DEF OnceInv, TypeOK
<1>6. /\ Tail(q) \in Seq({"reply", "idem", "slow"}) /\ Has(q, "slow")
      /\ \A x: Has(Tail(q), x) => Has(q, x)
      /\ NoneAfter(Tail(q), "reply", {"slow"})
  BY <1>1, <1>4, TailFrames DEF SiteInv
<1>7. status[s] \in {"NORESP", "SLOWOP"}
  BY <1>1, <1>4, <1>5, <1>6 DEF SiteInv
<1>8. ~Untouched(s) /\ pc # "idle" /\ s \in valid
  <2>1. ~Untouched(s)
    BY <1>1 DEF Untouched
  <2>2. pc # "idle"
    BY <2>1, Touched
  <2> QED
    BY <1>1, <2>1, <2>2 DEF OnceInv, Course
<1>9. /\ fromSite'[s] = Tail(q)
      /\ \A d \in Sites: d # s => fromSite'[d] = fromSite[d]
      /\ fromSite' \in [Sites -> Seq({"reply", "idem", "slow"})]
  BY <1>1, <1>4, <1>6
<1> HIDE DEF q
<1>10. /\ status'[s] \in {"NORESP", "SLOWOP"}
       /\ \A d \in Sites: d # s => status'[d] = status[d]
       /\ status' \in [Sites -> {"NORESP", "SLOWOP", "DONE"}]
  BY <1>2, <1>5, <1>7
<1>11. Counts' /\ noresp' \in -NumSites..NumSites
  <2>1. CASE Live /\ status[s] # "SLOWOP"
    <3>1. status[s] = "NORESP" /\ status'[s] = "SLOWOP" /\ noresp' = noresp - 1
      BY <2>1, <1>2, <1>5, <1>7
    <3>2. Unfinished' = Unfinished
      BY <1>1, <1>5, <1>10, <3>1 DEF Unfinished
    <3>3. Done' = Done /\ Done \subseteq Sites
      BY <1>1, <1>5, <1>10, <3>1 DEF Done
    <3>4. /\ Answerless' = Answerless \ {s} /\ s \in Answerless /\ Answerless \subseteq Sites
          /\ Answerless' \subseteq Sites
      BY <1>1, <1>5, <1>8, <1>10, <3>1 DEF Answerless
    <3>5. /\ Cardinality(Answerless') = Cardinality(Answerless) - 1
          /\ Cardinality(Answerless') \in 0..NumSites
          /\ Cardinality(Answerless) \in 0..NumSites
      BY <3>4, SitesFinite
    <3>6. Cardinality(Done') = Cardinality(Done) /\ Cardinality(Done) \in 0..NumSites
      BY <3>3, SitesFinite
    <3>7. noresp >= Cardinality(Answerless) - Cardinality(Done)
      BY DEF OnceInv, Counts
    <3>8. noresp' >= Cardinality(Answerless') - Cardinality(Done')
      BY <1>5, <3>1, <3>5, <3>6, <3>7, MultiAssumption
    <3>9. noresp' \in -NumSites..NumSites
      BY <1>5, <3>1, <3>5, <3>6, <3>8, MultiAssumption
    <3>10. /\ remain' = Cardinality(Unfinished') /\ (Live' => remain' > 0)
           /\ pc' = "over" => remain' = 0
      BY <1>1, <3>2 DEF OnceInv, Counts, Live
    <3> QED
      BY <3>8, <3>9, <3>10 DEF Counts
  <2>2. CASE ~(Live /\ status[s] # "SLOWOP")
    <3>1. UNCHANGED list /\ pc' = pc
      BY <1>1, <1>2, <2>2 DEF list
    <3>2. Counts'
      BY <3>1, SameCounts DEF Live
    <3> QED
      BY <3>1, <3>2, <1>5 DEF list
  <2> QED
    BY <2>1, <2>2
<1>12. SiteInv(s)'
  BY <1>1, <1>4, <1>6, <1>7, <1>9, <1>10 DEF SiteInv, Asked, Settled, q
<1>13. Course'
  <2>1. timer' => pc' = "waiting"
    BY <1>1, <1>3 DEF OnceInv, Course
  <2>2. \A d \in Sites: NotYet(d) => Untouched(d)'
    BY <1>1, <1>8, <1>9 DEF OnceInv, Course, Untouched
  <2>3. dirty' \cap member' = {}
    BY <1>1 DEF OnceInv, Course
  <2> QED
    BY <1>1, <1>8, <2>1, <2>2, <2>3, SameCourse
<1>14. TypeOK'
  BY <1>1, <1>3, <1>9, <1>10, <1>11 DEF OnceInv, TypeOK
<1>15. \A d \in Sites: d # s => SiteSame(d)
  BY <1>1, <1>9, <1>10 DEF SiteSame
<1> QED
  BY <1>11, <1>12, <1>13, <1>14, <1>15, SameSite DEF OnceInv

(* A failed site is cleaned up after: it is no member, so nothing it sent  *)
(* is on its way and it may be done without having run the request.        *)
LEMMA CleanInv ==
    ASSUME OnceInv, NEW s \in Sites, clean_u_entry(s)
    PROVE  OnceInv'
<1>1. /\ s \in dirty /\ dirty' = dirty \ {s}
      /\ UNCHANGED <<mode, repeatable, valid, next, toSite, fromSite, serving, runs, member>>
  BY DEF clean_u_entry
<1>2. \/ /\ Live /\ StillAwaited(s)
         /\ status' = [status EXCEPT ![s] = "DONE"] /\ remain' = remain - 1
         /\ noresp' = IF status[s] = "NORESP" THEN noresp - 1 ELSE noresp
         /\ pc' = IF LastOne THEN "over" ELSE pc
      \/ /\ ~(Live /\ StillAwaited(s))
         /\ UNCHANGED <<status, remain, noresp, pc>>
  BY DEF clean_u_entry
<1>3. timer' \in BOOLEAN /\ (timer' => timer /\ pc' = pc)
  <2>1. timer \in BOOLEAN
    BY DEF OnceInv, TypeOK
  <2>2. CASE Live /\ StillAwaited(s)
    BY <2>2 DEF clean_u_entry
  <2>3. CASE ~(Live /\ StillAwaited(s))
    BY <2>1, <2>3 DEF clean_u_entry
  <2> QED
    BY <2>2, <2>3
<1>4. /\ s \notin member /\ status \in [Sites -> {"NORESP", "SLOWOP", "DONE"}]
      /\ pc \in {"idle", "sending", "waiting", "over"} /\ SiteInv(s)
  BY <1>1 DEF OnceInv, Course, TypeOK
<1>5. /\ pc' = pc \/ (pc # "idle" /\ pc' = "over")
      /\ status'[s] = status[s] \/ status'[s] = "DONE"
      /\ pc = "idle" => status' = status
      /\ \A d \in Sites: d # s => status'[d] = status[d]
      /\ status' \in [Sites -> {"NORESP", "SLOWOP", "DONE"}]
      /\ pc' \in {"idle", "sending", "waiting", "over"}
  BY <1>2, <1>4 DEF Live
<1>6. Counts' /\ remain' \in 0..NumSites /\ noresp' \in -NumSites..NumSites
  <2>1. CASE Live /\ StillAwaited(s)
    <3>1. s \in valid /\ status[s] # "DONE" /\ (status[s] = "NORESP" \/ status[s] = "SLOWOP")
      BY <2>1 DEF StillAwaited
    <3>2. \/ noresp' = noresp - 1
          \/ status[s] = "SLOWOP" /\ noresp' = noresp
      BY <1>2, <2>1, <3>1
    <3> QED
      BY <1>1, <1>2, <2>1, <3>1, <3>2, OneDone DEF LastOne
  <2>2. CASE ~(Live /\ StillAwaited(s))
    <3>1. UNCHANGED list /\ pc' = pc
      BY <1>1, <1>2, <2>2 DEF list
    <3>2. Counts'
      BY <3>1, SameCounts DEF Live
    <3> QED
      BY <3>1, <3>2 DEF OnceInv, TypeOK, list
  <2> QED
    BY <2>1, <2>2
<1>7. SiteInv(s)'
  BY <1>1, <1>4, <1>5 DEF SiteInv, Asked, Settled
<1>8. Course'
  <2>1. timer' => pc' = "waiting"
    BY <1>3 DEF OnceInv, Course
  <2>2. \A d \in Sites: NotYet(d) => Untouched(d)'
    BY <1>1 DEF OnceInv, Course, Untouched
  <2>3. dirty' \cap member' = {} /\ member' = member
    BY <1>1 DEF OnceInv, Course
  <2> QED
    BY <1>1, <1>5, <2>1, <2>2, <2>3, SameCourse
<1>9. TypeOK'
  BY <1>1, <1>3, <1>5, <1>6 DEF OnceInv, TypeOK
<1>10. \A d \in Sites: d # s => SiteSame(d)
  BY <1>1, <1>5 DEF SiteSame
<1> QED
  BY <1>6, <1>7, <1>8, <1>9, <1>10, SameSite DEF OnceInv
-----------------------------------------------------------------------------
(* Every step keeps the invariant.                                         *)
LEMMA StepInv == MultiInv /\ [Next]_vars => MultiInv'
<1> SUFFICES ASSUME MultiInv, [Next]_vars PROVE MultiInv'
  OBVIOUS
<1>1. repeatable' = repeatable
  BY DEF Next, vars, net_request, send_clustercast, send_multisite, retry_request,
         recv_request, net_reply, retry_reply, recv_reply, recv_slow_request, Lose,
         declare_failed, clean_u_entry
<1>2. CASE repeatable
  BY <1>1, <1>2 DEF MultiInv
<1>3. CASE ~repeatable
  <2>1. OnceInv
    BY <1>3 DEF MultiInv
  <2>2. CASE UNCHANGED vars
    BY <2>1, <2>2 DEF vars, list, MultiInv, OnceInv, TypeOK, Course, Counts, SiteInv, Live,
          Unfinished, Answerless, Done, NotYet, Untouched, Settled, Asked
  <2>3. CASE Next
    BY <1>3, <2>1, <2>3, NetRequestInv, ClustercastInv, MultisiteInv, RetryRequestInv,
       RecvRequestInv, NetReplyInv, RetryReplyInv, RecvReplyInv, RecvSlowInv, LoseInv,
       FailedInv, CleanInv DEF Next, MultiInv
  <2> QED
    BY <2>2, <2>3
<1> QED
  BY <1>2, <1>3

(* Whatever the number of sites, frames, losses and failures: a request    *)
(* that may not be repeated keeps the invariant above.                     *)
THEOREM MultiInvariant == Spec => []MultiInv
  BY InitInv, StepInv, PTL DEF Spec

(* remain_sites of dux/protocol.c is the number of destinations that have  *)
(* neither replied nor been cleaned up after, and the requesting process   *)
(* goes on exactly when there are none, for requests without               *)
(* DM_REPEATABLE.                                                          *)
THEOREM RemainIsExact == Spec => [](repeatable \/ RemainExact)
<1>1. MultiInv => (repeatable \/ RemainExact)
  BY DEF MultiInv, OnceInv, Counts, RemainExact
<1> QED
  BY <1>1, MultiInvariant, PTL

(* When the request is over, every site that was a member when it was made *)
(* has run it or has failed, for requests without DM_REPEATABLE.           *)
THEOREM NobodyLeftOut == Spec => [](repeatable \/ NotLeftOut)
<1>1. MultiInv => (repeatable \/ NotLeftOut)
  <2> SUFFICES ASSUME OnceInv, pc = "over", NEW s \in valid
               PROVE  runs[s] > 0 \/ s \notin member
    BY DEF MultiInv, NotLeftOut
  <2>1. s \in Sites /\ Unfinished \subseteq Sites
    BY DEF OnceInv, TypeOK, Unfinished
  <2>2. Cardinality(Unfinished) = 0
    BY DEF OnceInv, Counts
  <2>3. Unfinished = {}
    BY <2>1, <2>2, SitesFinite
  <2>4. status[s] = "DONE"
    BY <2>3 DEF Unfinished
  <2>5. runs[s] \in 0..1 /\ (runs[s] = 0 => s \notin member)
    BY <2>1, <2>4 DEF OnceInv, SiteInv
  <2> QED
    BY <2>5
<1> QED
  BY <1>1, MultiInvariant, PTL

(* recv_request() starts a request without DM_REPEATABLE at most once at   *)
(* each site, however often its frames are repeated, by the clustercast's  *)
(* change to a multisite request included.                                 *)
THEOREM RunAtMostOnceEverywhere == Spec => []RunOnce
<1>1. MultiInv => RunOnce
  BY DEF MultiInv, OnceInv, SiteInv, RunOnce
<1> QED
  BY <1>1, MultiInvariant, PTL
=============================================================================
