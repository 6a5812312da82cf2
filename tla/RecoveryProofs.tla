--------------------------- MODULE RecoveryProofs ---------------------------
(***************************************************************************)
(* Recovery for any number of clients, crashes and requests: failed_sites  *)
(* is exact and never left without a cleanup, nobody is back in the        *)
(* cluster before his old life is cleaned up after everywhere, and the     *)
(* root server goes on with a cleanup, or a join, only when the clients    *)
(* know of the failure.                                                    *)
(*                                                                         *)
(* The argument.  Nothing is held for a site that is CL_INACTIVE, so the   *)
(* root server and each client that has answered DM_ADD_MEMBER hold        *)
(* nothing of the site that joins; it is not up until all have answered.   *)
(* A client that is no longer waited for is no member, and becomes one     *)
(* again only by a join of its own, in which it starts with nothing.       *)
(***************************************************************************)
EXTENDS Recovery, FiniteSetTheorems, TLAPS

(* failed_sites counts, and somebody cleans up or is about to.             *)
Counting ==
    \A n \in Sites: /\ failed_sites[n] = Cardinality(FailedAt(n))
                    /\ failed_sites[n] > 0 => init[n] \/ cleaner[n] # "none"

(* A client that is not up knows nobody and holds nothing for anybody.     *)
Absent ==
    \A n \in Clients: up[n] # "up" =>
        /\ adding[n] = None
        /\ \A c \in Clients: /\ status[n][c] = "INACTIVE"
                             /\ nsp[n][c] = "none" /\ held[n][c] = {}

(* What is there for a client that is not up is of an old life, and there  *)
(* is nothing for one that has been cleaned up after.                      *)
Lives ==
    \A n \in Sites, c \in Clients:
        /\ up[c] # "up" => nsp[n][c] \notin {"new", "newwait"} /\ "new" \notin held[n][c]
        /\ status[n][c] = "INACTIVE" => nsp[n][c] = "none" /\ held[n][c] = {}

(* The site that joins is not up, and no member; from DM_ADD_MEMBER on the *)
(* root server is done with its old life.                                  *)
Joining ==
    /\ join.stage = "idle" => join = Idle
    /\ join.stage # "idle" => /\ join.site \in Clients /\ up[join.site] # "up"
                              /\ status[Root][join.site] \notin Member
    /\ join.asked => up[join.site] = "boot"
    /\ join.stage = "told" => status[Root][join.site] = "INACTIVE"
    /\ join.stage # "told" => joinWait = {}

(* A site in serve_add_member() does not have the other one as a member;   *)
(* if the root server has it as a member it is waited for.                 *)
Adding ==
    /\ adding[Root] = None
    /\ \A n \in Clients: adding[n] # None =>
          /\ status[n][adding[n]] \notin Member
          /\ n \in Members => /\ join.stage = "told" /\ adding[n] = join.site
                              /\ n \in joinWait

(* Who has answered DM_ADD_MEMBER holds nothing for the site that joins.   *)
Answered ==
    join.stage = "told" =>
        \A n \in Members \ joinWait: up[n] = "up" =>
            nsp[n][join.site] = "none" /\ held[n][join.site] = {}

(* Who has answered DM_MARK_FAILED no longer has the site as a member.     *)
Marking ==
    \A c \in Clients: mark[c] # {None} =>
        /\ mark[c] \subseteq Clients /\ status[Root][c] = "FAILED"
        /\ \A n \in Members \ mark[c]: up[n] = "up" => status[n][c] \notin Member

RecInv == /\ TypeOK /\ Counting /\ Absent /\ Lives /\ Joining /\ Adding
          /\ Answered /\ Marking /\ CleanBeforeJoin /\ Notified
-----------------------------------------------------------------------------
(* Counting failed sites.                                                  *)

(* The entry of c changes at n, and the count with it.                     *)
LEMMA Recount ==
    ASSUME TypeOK, Counting, NEW n \in Sites, NEW c \in Clients,
           \A d \in Clients: d # c => (status'[n][d] \in Failed <=> status[n][d] \in Failed),
           failed_sites'[n] = failed_sites[n] + (IF status'[n][c] \in Failed THEN 1 ELSE 0)
                                              - (IF status[n][c] \in Failed THEN 1 ELSE 0)
    PROVE  /\ failed_sites'[n] = Cardinality(FailedAt(n)')
           /\ failed_sites'[n] \in 0..Cardinality(Clients)
<1> DEFINE F == FailedAt(n)
           G == FailedAt(n)'
<1>1. F \subseteq Clients /\ G \subseteq Clients
  BY DEF FailedAt
<1>2. /\ IsFiniteSet(F) /\ Cardinality(F) \in Nat
      /\ IsFiniteSet(G) /\ Cardinality(G) \in Nat /\ Cardinality(G) <= Cardinality(Clients)
      /\ Cardinality(Clients) \in Nat
  BY <1>1, RecoveryAssumption, FS_Subset, FS_CardinalityType
<1>3. c \in F <=> status[n][c] \in Failed
  BY DEF FailedAt
<1>4. c \in G <=> status'[n][c] \in Failed
  BY DEF FailedAt
<1>5. failed_sites[n] = Cardinality(F)
  BY DEF Counting
<1>6. G = (IF status'[n][c] \in Failed THEN F \cup {c} ELSE F \ {c})
  BY <1>3, <1>4 DEF FailedAt
<1> HIDE DEF F, G
<1>7. Cardinality(F \cup {c}) = IF c \in F THEN Cardinality(F) ELSE Cardinality(F) + 1
  BY <1>2, FS_AddElement
<1>8. Cardinality(F \ {c}) = IF c \in F THEN Cardinality(F) - 1 ELSE Cardinality(F)
  BY <1>2, FS_RemoveElement
<1>9. failed_sites'[n] = Cardinality(G)
  BY <1>2, <1>3, <1>5, <1>6, <1>7, <1>8
<1> QED
  BY <1>2, <1>9 DEF G

(* Nothing changes at n, as far as failed sites go.                        *)
LEMMA CountStays ==
    ASSUME TypeOK, Counting, NEW n \in Sites,
           \A d \in Clients: status'[n][d] \in Failed <=> status[n][d] \in Failed,
           failed_sites'[n] = failed_sites[n]
    PROVE  failed_sites'[n] = Cardinality(FailedAt(n)')
<1>1. FailedAt(n)' = FailedAt(n)
  BY DEF FailedAt
<1> QED
  BY <1>1 DEF Counting

\* The root server is a site and no client; nobody is called None.
LEMMA TheSites == Root \in Sites /\ (\A n \in Sites: n # Root <=> n \in Clients)
                  /\ \A n \in Clients: n \in Sites /\ n # Root /\ n # None
  BY RecoveryAssumption DEF Sites
-----------------------------------------------------------------------------
\* The invariant holds while every client is up and a member everywhere.
LEMMA InitRec == Init => RecInv
<1> SUFFICES ASSUME Init PROVE RecInv
  OBVIOUS
<1>1. Cardinality(Clients) \in Nat
  BY RecoveryAssumption, FS_CardinalityType
<1>2. TypeOK
  <2>1. failed_sites \in [Sites -> 0..Cardinality(Clients)]
    BY <1>1 DEF Init
  <2>2. /\ up \in [Clients -> {"up", "dead", "boot"}]
        /\ status \in [Sites -> [Clients -> Member \cup Failed \cup {"INACTIVE"}]]
        /\ cleaner \in [Sites -> {"none", "nsp", "own"}]
        /\ init \in [Sites -> BOOLEAN]
    BY DEF Init, Member, Failed
  <2>3. /\ mark \in [Clients -> SUBSET (Clients \cup {None})]
        /\ join \in [site: Clients \cup {None}, stage: {"idle", "add", "told"}, asked: BOOLEAN]
        /\ joinWait \subseteq Clients
        /\ adding \in [Sites -> Clients \cup {None}]
    BY DEF Init, Idle
  <2>4. /\ nsp \in [Sites -> [Clients -> {"none", "new", "newwait", "old", "oldwait"}]]
        /\ held \in [Sites -> [Clients -> SUBSET {"new", "old"}]]
    BY DEF Init
  <2> QED
    BY <2>1, <2>2, <2>3, <2>4 DEF TypeOK
<1>3. Counting
  <2>1. \A n \in Sites: FailedAt(n) = {}
    BY DEF Init, FailedAt, Failed
  <2>2. \A n \in Sites: failed_sites[n] = 0
    BY DEF Init
  <2>3. Cardinality({}) = 0
    BY FS_EmptySet
  <2> QED
    BY <2>1, <2>2, <2>3 DEF Counting
<1>4. Absent /\ Lives /\ CleanBeforeJoin
  BY TheSites DEF Init, Absent, Lives, CleanBeforeJoin, Members
<1>5. Joining
  BY DEF Init, Joining, Idle
<1>6. Adding /\ Answered /\ Marking /\ Notified
  BY TheSites DEF Init, Adding, Answered, Marking, Notified, Idle
<1> QED
  BY <1>2, <1>3, <1>4, <1>5, <1>6 DEF RecInv
-----------------------------------------------------------------------------
(* Steps that only take members off, or do not change who is a member.     *)
Calm == \A n \in Sites, c \in Clients:
    /\ status'[n][c] \in Member => status[n][c] \in Member
    /\ status'[n][c] = "INACTIVE" <=> status[n][c] = "INACTIVE"
    /\ status'[n][c] = "CLEANUP" => status[n][c] = "CLEANUP"
    /\ status[n][c] \in Failed => status'[n][c] = status[n][c]

(* The conjuncts that are about what is held.                              *)
LEMMA CalmLives ==
    ASSUME RecInv, Calm, UNCHANGED <<up, nsp, held>>
    PROVE  Lives' /\ CleanBeforeJoin' /\ (Members' \subseteq Members)
<1>1. Members' \subseteq Members
  BY TheSites DEF Calm, Members
<1>2. Lives'
  BY DEF RecInv, Calm, Lives
<1>3. CleanBeforeJoin'
  BY <1>1 DEF RecInv, CleanBeforeJoin, Runs
<1> QED
  BY <1>1, <1>2, <1>3

\* A calm step (no site joins, fails, or is done with) preserves Marking.
LEMMA CalmMarking ==
    ASSUME RecInv, Calm, UNCHANGED <<up, mark>>
    PROVE  Marking'
<1>1. Members' \subseteq Members
  BY TheSites DEF Calm, Members
<1> QED
  BY <1>1, TheSites DEF RecInv, Marking, Calm, Failed, Members

(* All of it, when joining is not concerned.                               *)
LEMMA CalmStep ==
    ASSUME RecInv, TypeOK', Counting', Calm, Marking',
           UNCHANGED <<up, join, joinWait, adding, nsp, held>>
    PROVE  RecInv'
<1>1. Lives' /\ CleanBeforeJoin' /\ (Members' \subseteq Members)
  BY CalmLives
<1>2. Absent'
  BY TheSites DEF RecInv, Absent, Calm
<1>3. Joining'
  BY TheSites DEF RecInv, Joining, Calm
<1>4. Adding'
  BY <1>1, TheSites DEF RecInv, TypeOK, Adding, Calm
<1>5. Answered'
  BY <1>1 DEF RecInv, Answered
<1>6. Notified'
  <2>1. \A c \in Clients, n \in Members':
          /\ up'[n] = "up" /\ n # c /\ status'[n][c] \in Member
          /\ status'[Root][c] \in {"CLEANUP", "INACTIVE"}
          => join'.site = c /\ join'.stage = "told"
    BY <1>1, TheSites DEF RecInv, Notified, Calm, Members
  <2>2. \A n \in joinWait' \cap Members':
          up'[n] = "up" /\ adding'[n] = None => status'[n][join'.site] \notin Member
    <3>1. joinWait # {} => join.site \in Clients
      BY DEF RecInv, Joining
    <3> QED
      BY <1>1, <3>1, TheSites DEF RecInv, Notified, Calm, Members
  <2> QED
    BY <2>1, <2>2 DEF Notified
<1> QED
  BY <1>1, <1>2, <1>3, <1>4, <1>5, <1>6 DEF RecInv

(* declare_failed() at one site: the count goes up with the entry, and     *)
(* somebody is to clean up.                                                *)
LEMMA DeclaredAt ==
    ASSUME RecInv, NEW m \in Sites, NEW c \in Clients, declare_failed({m}, c)
    PROVE  /\ Calm /\ Counting'
           /\ status' \in [Sites -> [Clients -> Member \cup Failed \cup {"INACTIVE"}]]
           /\ failed_sites' \in [Sites -> 0..Cardinality(Clients)]
           /\ cleaner' \in [Sites -> {"none", "nsp", "own"}] /\ init' \in [Sites -> BOOLEAN]
           /\ c # m => status'[m][c] \notin Member
<1>1. /\ status \in [Sites -> [Clients -> Member \cup Failed \cup {"INACTIVE"}]]
      /\ failed_sites \in [Sites -> 0..Cardinality(Clients)]
      /\ cleaner \in [Sites -> {"none", "nsp", "own"}] /\ init \in [Sites -> BOOLEAN]
      /\ TypeOK /\ Counting /\ cleaner' = cleaner
  BY DEF RecInv, TypeOK, declare_failed
<1>2. \A n \in Sites, d \in Clients:
         status'[n][d] = IF n = m /\ d = c /\ Declares(n, d) THEN "FAILED" ELSE status[n][d]
  BY <1>1 DEF declare_failed, Marked, Declares
<1>3. status' \in [Sites -> [Clients -> Member \cup Failed \cup {"INACTIVE"}]]
  <2>1. \A n \in Sites: [status[n] EXCEPT ![c] = "FAILED"]
                           \in [Clients -> Member \cup Failed \cup {"INACTIVE"}]
    BY <1>1 DEF Failed
  <2> QED
    BY <1>1, <2>1 DEF declare_failed, Marked
<1>4. \A n \in Sites: failed_sites'[n] = failed_sites[n] + IF n = m /\ Declares(n, c) THEN 1 ELSE 0
  BY DEF declare_failed, Counted
<1>5. Calm
  BY <1>2 DEF Calm, Declares, Member, Failed
<1>6. \A n \in Sites: init'[n] <=> \/ init[n]
                                   \/ n = m /\ Declares(n, c) /\ failed_sites[n] = 0
                                      /\ cleaner[n] = "none"
  BY DEF declare_failed, Initiated
<1>7. init' \in [Sites -> BOOLEAN]
  BY <1>1 DEF declare_failed, Initiated
<1>8. ASSUME NEW n \in Sites
      PROVE  /\ failed_sites'[n] = Cardinality(FailedAt(n)')
             /\ failed_sites'[n] \in 0..Cardinality(Clients)
  <2>1. \A d \in Clients: d # c => status'[n][d] = status[n][d]
    BY <1>2
  <2>2. failed_sites[n] \in Int
    BY <1>1
  <2>3. failed_sites'[n] = failed_sites[n] + (IF status'[n][c] \in Failed THEN 1 ELSE 0)
                                           - (IF status[n][c] \in Failed THEN 1 ELSE 0)
    BY <1>2, <1>4, <2>2 DEF Declares, Member, Failed
  <2> QED
    BY <1>1, <2>1, <2>3, Recount
<1>9. failed_sites' \in [Sites -> 0..Cardinality(Clients)]
  BY <1>8 DEF declare_failed, Counted
<1>10. ASSUME NEW n \in Sites, failed_sites'[n] > 0
       PROVE  init'[n] \/ cleaner'[n] # "none"
  <2>1. CASE failed_sites[n] > 0
    BY <2>1, <1>1, <1>6 DEF Counting
  <2>2. CASE ~(failed_sites[n] > 0)
    <3>1. failed_sites[n] = 0
      BY <2>2, <1>1
    <3>2. n = m /\ Declares(n, c)
      BY <1>4, <1>10, <3>1
    <3> QED
      BY <3>1, <3>2, <1>1, <1>6
  <2> QED
    BY <2>1, <2>2
<1>11. Counting'
  BY <1>8, <1>10 DEF Counting
<1>12. c # m => status'[m][c] \notin Member
  BY <1>2 DEF Declares, Member
<1> QED
  BY <1>1, <1>3, <1>5, <1>7, <1>9, <1>11, <1>12

(* The other variables keep their types.                                   *)
LEMMA RestOfType ==
    ASSUME RecInv,
           status' \in [Sites -> [Clients -> Member \cup Failed \cup {"INACTIVE"}]],
           failed_sites' \in [Sites -> 0..Cardinality(Clients)],
           cleaner' \in [Sites -> {"none", "nsp", "own"}], init' \in [Sites -> BOOLEAN],
           UNCHANGED <<up, join, joinWait, adding, nsp, held>>,
           mark' \in [Clients -> SUBSET (Clients \cup {None})]
    PROVE  TypeOK'
  BY DEF RecInv, TypeOK

(* dux_retry_alive(): the root server declares c failed.                   *)
LEMMA RetryAliveRec ==
    ASSUME RecInv, NEW c \in Clients, dux_retry_alive(c)
    PROVE  RecInv'
<1>1. declare_failed({Root}, c) /\ UNCHANGED <<up, mark, join, joinWait, adding, nsp, held>>
  BY DEF dux_retry_alive, work
<1>2. mark' \in [Clients -> SUBSET (Clients \cup {None})]
  BY <1>1 DEF RecInv, TypeOK
<1> QED
  BY <1>1, <1>2, TheSites, DeclaredAt, RestOfType, CalmMarking, CalmStep

(* The root server's view of a member becomes CL_ACTIVE or CL_RETRY.       *)
LEMMA MemberStays ==
    ASSUME RecInv, NEW c \in Clients, NEW st \in Member, status[Root][c] \in Member,
           status' = [status EXCEPT ![Root][c] = st],
           UNCHANGED <<up, failed_sites, cleaner, init, mark, join, joinWait, adding, work,
                       crashes>>
    PROVE  RecInv'
<1>1. /\ status \in [Sites -> [Clients -> Member \cup Failed \cup {"INACTIVE"}]]
      /\ TypeOK /\ Counting
  BY DEF RecInv, TypeOK
<1>2. \A n \in Sites, d \in Clients:
         status'[n][d] = IF n = Root /\ d = c THEN st ELSE status[n][d]
  BY <1>1, TheSites
<1>3. status' \in [Sites -> [Clients -> Member \cup Failed \cup {"INACTIVE"}]]
  BY <1>1, TheSites
<1>4. \A n \in Sites, d \in Clients: status'[n][d] \in Failed <=> status[n][d] \in Failed
  BY <1>2 DEF Member, Failed
<1>5. Calm
  BY <1>2 DEF Calm, Member, Failed
<1>6. \A n \in Sites: failed_sites'[n] = Cardinality(FailedAt(n)')
  BY <1>1, <1>4, CountStays
<1>7. Counting'
  BY <1>1, <1>6 DEF Counting
<1>8. TypeOK'
  BY <1>1, <1>3, RestOfType DEF TypeOK, work
<1> QED
  BY <1>5, <1>7, <1>8, CalmMarking, CalmStep DEF work

\* register_alive() preserves the invariant.
LEMMA RegisterAliveRec == ASSUME RecInv, NEW c \in Clients, register_alive(c) PROVE RecInv'
  BY MemberStays DEF register_alive, Member

\* So does dux_check_alive().
LEMMA CheckAliveRec == ASSUME RecInv, NEW c \in Clients, dux_check_alive(c) PROVE RecInv'
  BY MemberStays DEF dux_check_alive, Member

\* So does check_lan_break().
LEMMA LanBreakRec == ASSUME RecInv, NEW c \in Clients, check_lan_break(c) PROVE RecInv'
  BY MemberStays DEF check_lan_break, Member

(* A client answers DM_MARK_FAILED, having declared c failed itself.       *)
LEMMA RecordFailureRec ==
    ASSUME RecInv, NEW n \in Sites, NEW c \in Clients, record_failure(n, c)
    PROVE  RecInv'
<1>1. /\ n \in mark[c] /\ n \in Members /\ up[n] = "up"
      /\ mark' = [mark EXCEPT ![c] = @ \ {n}]
      /\ declare_failed({n}, c)
      /\ UNCHANGED <<up, join, joinWait, adding, nsp, held>>
  BY DEF record_failure, work
<1>2. /\ Calm /\ Counting'
      /\ status' \in [Sites -> [Clients -> Member \cup Failed \cup {"INACTIVE"}]]
      /\ failed_sites' \in [Sites -> 0..Cardinality(Clients)]
      /\ cleaner' \in [Sites -> {"none", "nsp", "own"}] /\ init' \in [Sites -> BOOLEAN]
      /\ c # n => status'[n][c] \notin Member
  BY <1>1, DeclaredAt
<1>3. mark \in [Clients -> SUBSET (Clients \cup {None})]
  BY DEF RecInv, TypeOK
<1>4. mark' \in [Clients -> SUBSET (Clients \cup {None})]
  BY <1>1, <1>3
<1>5. TypeOK'
  BY <1>1, <1>2, <1>4, RestOfType
<1>6. Members' \subseteq Members
  BY <1>2, TheSites DEF Calm, Members
<1>7. Marking'
  <2> SUFFICES ASSUME NEW d \in Clients, mark'[d] # {None}
               PROVE  /\ mark'[d] \subseteq Clients /\ status'[Root][d] = "FAILED"
                      /\ \A m \in Members' \ mark'[d]: up'[m] = "up" => status'[m][d] \notin Member
    BY DEF Marking
  <2>1. CASE d # c
    <3>1. mark'[d] = mark[d]
      BY <1>1, <1>3, <2>1
    <3>2. /\ mark[d] \subseteq Clients /\ status[Root][d] = "FAILED"
          /\ \A m \in Members \ mark[d]: up[m] = "up" => status[m][d] \notin Member
      BY <3>1 DEF RecInv, Marking
    <3>3. status'[Root][d] = "FAILED"
      BY <1>2, <3>2, TheSites DEF Calm, Failed
    <3>4. \A m \in Members' \ mark'[d]: up'[m] = "up" => status'[m][d] \notin Member
      <4>1. \A m \in Members: m \in Sites
        BY TheSites DEF Members
      <4> QED
        BY <1>1, <1>2, <1>6, <3>1, <3>2, <4>1 DEF Calm
    <3> QED
      BY <3>1, <3>2, <3>3, <3>4
  <2>2. CASE d = c
    <3>1. mark'[c] = mark[c] \ {n} /\ n \in Clients /\ mark[c] # {None}
      BY <1>1, <1>3, TheSites DEF Members
    <3>2. /\ mark[c] \subseteq Clients /\ status[Root][c] = "FAILED"
          /\ \A m \in Members \ mark[c]: up[m] = "up" => status[m][c] \notin Member
      BY <3>1 DEF RecInv, Marking
    <3>3. n # c
      BY <1>1, <3>2 DEF Members, Member
    <3>4. status'[Root][c] = "FAILED"
      BY <1>2, <3>2, TheSites DEF Calm, Failed
    <3>5. ASSUME NEW m \in Members' \ mark'[c], up'[m] = "up" PROVE status'[m][c] \notin Member
      <4>1. m \in Members /\ up[m] = "up" /\ m \in Sites /\ (m = n \/ m \notin mark[c])
        BY <1>1, <1>6, <3>1, <3>5, TheSites DEF Members
      <4> QED
        BY <1>2, <3>2, <3>3, <4>1 DEF Calm
    <3> QED
      BY <2>2, <3>1, <3>2, <3>4, <3>5
  <2> QED
    BY <2>1, <2>2
<1> QED
  BY <1>1, <1>2, <1>5, <1>7, CalmStep
-----------------------------------------------------------------------------
(* The cleanup process begins and ends.                                    *)
LEMMA CleanerRec ==
    ASSUME RecInv, UNCHANGED <<up, status, failed_sites, mark, join, joinWait, adding, work>>,
           cleaner' \in [Sites -> {"none", "nsp", "own"}], init' \in [Sites -> BOOLEAN],
           \A n \in Sites: failed_sites[n] > 0 /\ (init[n] \/ cleaner[n] # "none") =>
                              init'[n] \/ cleaner'[n] # "none"
    PROVE  RecInv'
<1>1. Calm
  BY DEF Calm
<1>2. TypeOK'
  BY DEF RecInv, TypeOK, work
<1>3. Counting'
  BY DEF RecInv, Counting, FailedAt
<1> QED
  BY <1>1, <1>2, <1>3, CalmMarking, CalmStep DEF work

\* dux_init_cleanup(): the cleanup process starts.
LEMMA InitCleanupRec ==
    ASSUME RecInv, NEW n \in Sites, dux_init_cleanup(n)
    PROVE  RecInv'
<1>1. /\ init' = [init EXCEPT ![n] = FALSE]
      /\ cleaner' = [cleaner EXCEPT ![n] = IF @ = "none" THEN "nsp" ELSE @]
      /\ UNCHANGED <<up, status, failed_sites, mark, join, joinWait, adding, work>>
  BY DEF dux_init_cleanup
<1>2. cleaner \in [Sites -> {"none", "nsp", "own"}] /\ init \in [Sites -> BOOLEAN]
  BY DEF RecInv, TypeOK
<1>3. cleaner' \in [Sites -> {"none", "nsp", "own"}]
  BY <1>1, <1>2
<1>4. init' \in [Sites -> BOOLEAN]
  BY <1>1, <1>2
<1>5. \A m \in Sites: init[m] \/ cleaner[m] # "none" => init'[m] \/ cleaner'[m] # "none"
  BY <1>1, <1>2
<1> QED
  BY <1>1, <1>3, <1>4, <1>5, CleanerRec

\* cleanup_ends(): it ends when no failed site is left.
LEMMA CleanupEndsRec ==
    ASSUME RecInv, NEW n \in Sites, cleanup_ends(n)
    PROVE  RecInv'
<1>1. /\ cleaner' = [cleaner EXCEPT ![n] = "none"] /\ failed_sites[n] <= 0
      /\ UNCHANGED <<up, status, failed_sites, init, mark, join, joinWait, adding, work>>
  BY DEF cleanup_ends
<1>2. /\ cleaner \in [Sites -> {"none", "nsp", "own"}] /\ init \in [Sites -> BOOLEAN]
      /\ failed_sites[n] \in Int
  BY DEF RecInv, TypeOK
<1>3. cleaner' \in [Sites -> {"none", "nsp", "own"}]
  BY <1>1, <1>2
<1>4. ASSUME NEW m \in Sites, failed_sites[m] > 0
      PROVE  m # n /\ cleaner'[m] = cleaner[m]
  <2>1. m # n
    BY <1>1, <1>2, <1>4
  <2> QED
    BY <2>1, <1>1, <1>2
<1> QED
  BY <1>1, <1>2, <1>3, <1>4, CleanerRec
-----------------------------------------------------------------------------
(* Requests of clients are served.                                         *)


(* What is held changes only at n for c, where something was held before   *)
(* or c is up.                                                             *)
LEMMA WorkRec ==
    ASSUME RecInv, NEW n \in Sites, NEW c \in Clients, Runs(n), status[n][c] # "INACTIVE",
           UNCHANGED <<up, tables, mark, join, joinWait, adding>>,
           nsp' \in [Sites -> [Clients -> {"none", "new", "newwait", "old", "oldwait"}]],
           held' \in [Sites -> [Clients -> SUBSET {"new", "old"}]],
           \A m \in Sites, d \in Clients: ~(m = n /\ d = c) =>
               nsp'[m][d] = nsp[m][d] /\ held'[m][d] = held[m][d],
           up[c] = "up" \/ nsp[n][c] # "none",
           up[c] # "up" => nsp'[n][c] \notin {"new", "newwait"} /\ "new" \notin held'[n][c],
           nsp'[n][c] \in {"old", "oldwait"} \/ "old" \in held'[n][c] =>
               nsp[n][c] \in {"old", "oldwait"} \/ "old" \in held[n][c]
    PROVE  RecInv'
<1>1. UNCHANGED <<up, status, failed_sites, cleaner, init, mark, join, joinWait, adding>>
  BY DEF tables
<1>2. Members' = Members
  BY <1>1 DEF Members
<1>3. TypeOK'
  BY <1>1 DEF RecInv, TypeOK
<1>4. Counting'
  BY <1>1 DEF RecInv, Counting, FailedAt
<1>5. Absent'
  <2> SUFFICES ASSUME NEW m \in Clients, up[m] # "up"
               PROVE  /\ adding[m] = None
                      /\ \A d \in Clients: /\ status[m][d] = "INACTIVE"
                                            /\ nsp'[m][d] = "none" /\ held'[m][d] = {}
    BY <1>1 DEF Absent
  <2>1. m # n /\ m \in Sites
    BY TheSites DEF Runs
  <2>2. \A d \in Clients: nsp'[m][d] = nsp[m][d] /\ held'[m][d] = held[m][d]
    BY <2>1
  <2> QED
    BY <2>2 DEF RecInv, Absent
<1>6. Lives'
  BY <1>1 DEF RecInv, Lives
<1>7. Joining' /\ Adding' /\ Marking' /\ Notified'
  BY <1>1, <1>2 DEF RecInv, Joining, Adding, Marking, Notified
<1>8. Answered'
  <2> SUFFICES ASSUME join.stage = "told", NEW m \in Members \ joinWait, up[m] = "up"
               PROVE  nsp'[m][join.site] = "none" /\ held'[m][join.site] = {}
    BY <1>1, <1>2 DEF Answered
  <2>1. /\ nsp[m][join.site] = "none" /\ held[m][join.site] = {}
        /\ join.site \in Clients /\ up[join.site] # "up" /\ m \in Sites
    BY TheSites DEF RecInv, Answered, Joining, Members
  <2> QED
    BY <2>1
<1>9. CleanBeforeJoin'
  <2> SUFFICES ASSUME NEW d \in Clients, NEW m \in Members \cup {Root}, up[d] = "up", Runs(m)
               PROVE  nsp'[m][d] \notin {"old", "oldwait"} /\ "old" \notin held'[m][d]
    BY <1>1, <1>2 DEF CleanBeforeJoin, Runs
  <2>1. nsp[m][d] \notin {"old", "oldwait"} /\ "old" \notin held[m][d] /\ m \in Sites
    BY TheSites DEF RecInv, CleanBeforeJoin, Members
  <2> QED
    BY <2>1
<1> QED
  BY <1>3, <1>4, <1>5, <1>6, <1>7, <1>8, <1>9 DEF RecInv

\* An NSP takes a request of a member.
LEMMA ServedRec ==
    ASSUME RecInv, NEW n \in Sites, NEW c \in Clients, Served(n, c)
    PROVE  RecInv'
<1>1. /\ Runs(n) /\ up[c] = "up" /\ status[n][c] \in Member
      /\ UNCHANGED <<up, tables, mark, join, joinWait, adding, held>>
  BY DEF Served
<1>2. PICK kind \in {"new", "newwait"}: nsp' = [nsp EXCEPT ![n][c] = kind]
  BY DEF Served
<1>3. /\ nsp \in [Sites -> [Clients -> {"none", "new", "newwait", "old", "oldwait"}]]
      /\ held \in [Sites -> [Clients -> SUBSET {"new", "old"}]]
  BY DEF RecInv, TypeOK
<1>4. /\ nsp' \in [Sites -> [Clients -> {"none", "new", "newwait", "old", "oldwait"}]]
      /\ \A m \in Sites, d \in Clients: ~(m = n /\ d = c) => nsp'[m][d] = nsp[m][d]
      /\ nsp'[n][c] \in {"new", "newwait"}
  BY <1>2, <1>3
<1>5. status[n][c] # "INACTIVE" /\ nsp'[n][c] \notin {"old", "oldwait"}
  BY <1>1, <1>4 DEF Member
<1> QED
  BY <1>1, <1>3, <1>4, <1>5, WorkRec

\* The request has been served, and leaves something behind.
LEMMA ServedDoneRec ==
    ASSUME RecInv, NEW n \in Sites, NEW c \in Clients, ServedDone(n, c)
    PROVE  RecInv'
<1> DEFINE x == IF nsp[n][c] = "old" THEN "old" ELSE "new"
<1>1. /\ Runs(n)
      /\ nsp[n][c] \in {"new", "old"} \/ (nsp[n][c] = "newwait" /\ up[c] = "up")
      /\ nsp' = [nsp EXCEPT ![n][c] = "none"]
      /\ held' = [held EXCEPT ![n][c] = @ \cup {x}]
      /\ UNCHANGED <<up, tables, mark, join, joinWait, adding>>
  BY DEF ServedDone
<1>2. /\ nsp \in [Sites -> [Clients -> {"none", "new", "newwait", "old", "oldwait"}]]
      /\ held \in [Sites -> [Clients -> SUBSET {"new", "old"}]]
  BY DEF RecInv, TypeOK
<1>3. /\ nsp' \in [Sites -> [Clients -> {"none", "new", "newwait", "old", "oldwait"}]]
      /\ \A m \in Sites, d \in Clients: ~(m = n /\ d = c) => nsp'[m][d] = nsp[m][d]
      /\ nsp'[n][c] = "none"
  BY <1>1, <1>2
<1>4. x \in {"new", "old"} /\ (x = "old" <=> nsp[n][c] = "old")
  OBVIOUS
<1> HIDE DEF x
<1>5. /\ held' \in [Sites -> [Clients -> SUBSET {"new", "old"}]]
      /\ \A m \in Sites, d \in Clients: ~(m = n /\ d = c) => held'[m][d] = held[m][d]
      /\ held'[n][c] = held[n][c] \cup {x}
  BY <1>1, <1>2, <1>4
<1>6. /\ status[n][c] # "INACTIVE"
      /\ up[c] # "up" => nsp[n][c] \notin {"new", "newwait"} /\ "new" \notin held[n][c]
  BY <1>1 DEF RecInv, Lives
<1>7. /\ up[c] # "up" => x = "old" /\ "new" \notin held'[n][c]
      /\ "old" \in held'[n][c] => nsp[n][c] = "old" \/ "old" \in held[n][c]
      /\ nsp[n][c] # "none"
  BY <1>1, <1>4, <1>5, <1>6
<1>8. /\ up[c] = "up" \/ nsp[n][c] # "none"
      /\ up[c] # "up" => nsp'[n][c] \notin {"new", "newwait"} /\ "new" \notin held'[n][c]
      /\ nsp'[n][c] \in {"old", "oldwait"} \/ "old" \in held'[n][c] =>
            nsp[n][c] \in {"old", "oldwait"} \/ "old" \in held[n][c]
  BY <1>3, <1>7
<1>9. \A m \in Sites, d \in Clients: ~(m = n /\ d = c) =>
         nsp'[m][d] = nsp[m][d] /\ held'[m][d] = held[m][d]
  BY <1>3, <1>5
<1>10. /\ nsp' \in [Sites -> [Clients -> {"none", "new", "newwait", "old", "oldwait"}]]
       /\ held' \in [Sites -> [Clients -> SUBSET {"new", "old"}]]
       /\ status[n][c] # "INACTIVE" /\ Runs(n)
       /\ UNCHANGED <<up, tables, mark, join, joinWait, adding>>
  BY <1>1, <1>3, <1>5, <1>6
<1> QED
  BY <1>8, <1>9, <1>10, WorkRec
-----------------------------------------------------------------------------
(* Joining.                                                                *)

(* add_site() at m: like declare_failed(), but the caller cleans up if     *)
(* nobody does.                                                            *)
LEMMA AddSiteAt ==
    ASSUME RecInv, NEW m \in Sites, NEW c \in Clients, add_site(m, c)
    PROVE  /\ Calm /\ Counting'
           /\ status' \in [Sites -> [Clients -> Member \cup Failed \cup {"INACTIVE"}]]
           /\ failed_sites' \in [Sites -> 0..Cardinality(Clients)]
           /\ cleaner' \in [Sites -> {"none", "nsp", "own"}] /\ init' \in [Sites -> BOOLEAN]
           /\ status'[m][c] \notin Member
<1>1. /\ status \in [Sites -> [Clients -> Member \cup Failed \cup {"INACTIVE"}]]
      /\ failed_sites \in [Sites -> 0..Cardinality(Clients)]
      /\ cleaner \in [Sites -> {"none", "nsp", "own"}] /\ init \in [Sites -> BOOLEAN]
      /\ TypeOK /\ Counting /\ init' = init
  BY DEF RecInv, TypeOK, add_site
<1>2. \A n \in Sites, d \in Clients:
         status'[n][d] = IF n = m /\ d = c /\ status[n][d] \in Member THEN "FAILED"
                         ELSE status[n][d]
  BY <1>1 DEF add_site
<1>3. status' \in [Sites -> [Clients -> Member \cup Failed \cup {"INACTIVE"}]]
  <2>1. (IF status[m][c] \in Member THEN "FAILED" ELSE status[m][c])
           \in Member \cup Failed \cup {"INACTIVE"}
    BY <1>1 DEF Failed
  <2> QED
    BY <1>1, <2>1 DEF add_site
<1>4. Calm
  BY <1>2 DEF Calm, Member, Failed
<1>5. failed_sites[m] = Cardinality(FailedAt(m))
  BY <1>1 DEF Counting
<1>6. /\ failed_sites'[m] = failed_sites[m] + IF status[m][c] \in Member THEN 1 ELSE 0
      /\ \A n \in Sites: n # m => failed_sites'[n] = failed_sites[n]
  <2>1. failed_sites[m] \in Int
    BY <1>1
  <2>2. failed_sites'[m] = IF status[m][c] \in Member THEN failed_sites[m] + 1 ELSE failed_sites[m]
    BY <1>1, <1>5 DEF add_site
  <2> QED
    BY <1>1, <2>1, <2>2 DEF add_site
<1>7. ASSUME NEW n \in Sites
      PROVE  /\ failed_sites'[n] = Cardinality(FailedAt(n)')
             /\ failed_sites'[n] \in 0..Cardinality(Clients)
  <2>1. \A d \in Clients: d # c => status'[n][d] = status[n][d]
    BY <1>2
  <2>2. failed_sites[n] \in Int
    BY <1>1
  <2>3. failed_sites'[n] = failed_sites[n] + (IF status'[n][c] \in Failed THEN 1 ELSE 0)
                                           - (IF status[n][c] \in Failed THEN 1 ELSE 0)
    BY <1>2, <1>6, <2>2 DEF Member, Failed
  <2> QED
    BY <1>1, <2>1, <2>3, Recount
<1>8. failed_sites' \in [Sites -> 0..Cardinality(Clients)]
  BY <1>1, <1>7 DEF add_site
<1>9. /\ cleaner' \in [Sites -> {"none", "nsp", "own"}]
      /\ \A n \in Sites: cleaner[n] # "none" => cleaner'[n] # "none"
      /\ status[m][c] # "INACTIVE" => cleaner'[m] # "none"
  BY <1>1 DEF add_site
<1>10. ASSUME NEW n \in Sites, failed_sites'[n] > 0
       PROVE  init'[n] \/ cleaner'[n] # "none"
  <2>1. CASE failed_sites[n] > 0
    BY <2>1, <1>1, <1>9 DEF Counting
  <2>2. CASE ~(failed_sites[n] > 0)
    <3>1. n = m /\ status[m][c] \in Member
      BY <2>2, <1>1, <1>6, <1>10
    <3> QED
      BY <3>1, <1>9 DEF Member
  <2> QED
    BY <2>1, <2>2
<1>11. Counting'
  BY <1>7, <1>10 DEF Counting
<1>12. status'[m][c] \notin Member
  BY <1>2 DEF Member
<1> QED
  BY <1>1, <1>3, <1>4, <1>8, <1>9, <1>11, <1>12

\* ws_cluster(): a site that is down asks to join.
LEMMA WsClusterRec ==
    ASSUME RecInv, NEW c \in Clients, ws_cluster(c)
    PROVE  RecInv'
<1>1. /\ up[c] = "dead" /\ up' = [up EXCEPT ![c] = "boot"]
      /\ UNCHANGED <<status, failed_sites, cleaner, init, mark, join, joinWait, adding,
                     nsp, held>>
  BY DEF ws_cluster, tables, work
<1>2. up \in [Clients -> {"up", "dead", "boot"}]
  BY DEF RecInv, TypeOK
<1>3. /\ up' \in [Clients -> {"up", "dead", "boot"}]
      /\ \A d \in Clients: /\ up'[d] = "up" <=> up[d] = "up"
                           /\ up[d] = "boot" => up'[d] = "boot"
  BY <1>1, <1>2
<1>4. Members' = Members /\ Members \subseteq Clients
  BY <1>1 DEF Members
<1>5. TypeOK'
  BY <1>1, <1>3 DEF RecInv, TypeOK
<1>6. Counting'
  BY <1>1 DEF RecInv, Counting, FailedAt
<1>7. Absent' /\ Lives'
  BY <1>1, <1>3 DEF RecInv, Absent, Lives
<1>8. Joining'
  <2>1. join.asked => join.site \in Clients
    BY DEF RecInv, Joining, Idle
  <2> QED
    BY <1>1, <1>3, <2>1 DEF RecInv, Joining
<1>9. Adding' /\ Answered' /\ Marking' /\ Notified'
  BY <1>1, <1>3, <1>4 DEF RecInv, Adding, Answered, Marking, Notified
<1>10. CleanBeforeJoin'
  BY <1>1, <1>3, <1>4, TheSites DEF RecInv, CleanBeforeJoin, Runs
<1> QED
  BY <1>5, <1>6, <1>7, <1>8, <1>9, <1>10 DEF RecInv

(* What Calm steps keep for joining and adding, whatever join and adding   *)
(* themselves become.                                                      *)
LEMMA CalmAbsent ==
    ASSUME RecInv, Calm, UNCHANGED <<up, nsp, held>>,
           \A n \in Clients: up[n] # "up" => adding'[n] = None
    PROVE  Absent'
  BY TheSites DEF RecInv, Absent, Calm

\* serve_clusterreq(): the root server starts to add it.
LEMMA ServeClusterreqRec ==
    ASSUME RecInv, NEW c \in Clients, serve_clusterreq(c)
    PROVE  RecInv'
<1>1. /\ up[c] = "boot" /\ join = Idle
      /\ join' = [site |-> c, stage |-> "add", asked |-> TRUE]
      /\ add_site(Root, c)
      /\ UNCHANGED <<up, mark, joinWait, adding, nsp, held>>
  BY DEF serve_clusterreq, work
<1>2. /\ Calm /\ Counting'
      /\ status' \in [Sites -> [Clients -> Member \cup Failed \cup {"INACTIVE"}]]
      /\ failed_sites' \in [Sites -> 0..Cardinality(Clients)]
      /\ cleaner' \in [Sites -> {"none", "nsp", "own"}] /\ init' \in [Sites -> BOOLEAN]
      /\ status'[Root][c] \notin Member
  BY <1>1, TheSites, AddSiteAt
<1>3. Lives' /\ CleanBeforeJoin' /\ (Members' \subseteq Members) /\ Marking'
  BY <1>1, <1>2, CalmLives, CalmMarking
<1>4. Absent'
  BY <1>1, <1>2, CalmAbsent DEF RecInv, Absent
<1>5. join.stage = "idle" /\ joinWait = {} /\ joinWait' = {}
      /\ join'.site = c /\ join'.stage = "add" /\ join'.asked = TRUE
  BY <1>1 DEF RecInv, Joining, Idle
<1>6. Joining'
  BY <1>1, <1>2, <1>5 DEF Joining
<1>7. Adding'
  BY <1>1, <1>2, <1>3, <1>5, TheSites DEF RecInv, TypeOK, Adding, Calm
<1>8. Answered'
  BY <1>5 DEF Answered
<1>9. Notified'
  BY <1>1, <1>2, <1>3, <1>5, TheSites DEF RecInv, Notified, Calm, Members
<1>10. TypeOK'
  <2>1. join' \in [site: Clients \cup {None}, stage: {"idle", "add", "told"}, asked: BOOLEAN]
    BY <1>1
  <2> QED
    BY <1>1, <1>2, <2>1 DEF RecInv, TypeOK
<1> QED
  BY <1>2, <1>3, <1>4, <1>6, <1>7, <1>8, <1>9, <1>10 DEF RecInv

(* The clients are sent DM_ADD_MEMBER: since the root server has cleaned   *)
(* up after the site, none of them has it as a member.                     *)
LEMMA SendAddMemberRec ==
    ASSUME RecInv, send_add_member
    PROVE  RecInv'
<1>1. /\ join.stage = "add" /\ SiteAdded(Root, join.site)
      /\ join' = [join EXCEPT !.stage = "told"] /\ joinWait' = Members
      /\ UNCHANGED <<up, status, failed_sites, cleaner, init, mark, adding, nsp, held>>
  BY DEF send_add_member, tables, work
<1>2. join \in [site: Clients \cup {None}, stage: {"idle", "add", "told"}, asked: BOOLEAN]
  BY DEF RecInv, TypeOK
<1>3. join'.site = join.site /\ join'.stage = "told" /\ join'.asked = join.asked
  BY <1>1, <1>2
<1>4. /\ join.site \in Clients /\ up[join.site] # "up" /\ joinWait = {}
      /\ status[Root][join.site] = "INACTIVE"
  <2>1. /\ join.site \in Clients /\ up[join.site] # "up"
        /\ status[Root][join.site] \notin Member /\ joinWait = {}
    BY <1>1 DEF RecInv, Joining
  <2>2. status[Root][join.site] \in Member \cup Failed \cup {"INACTIVE"}
    BY <2>1, TheSites DEF RecInv, TypeOK
  <2> QED
    BY <1>1, <2>1, <2>2 DEF SiteAdded
<1>5. Members' = Members /\ Members \subseteq Clients
  BY <1>1 DEF Members
<1>6. Calm
  BY <1>1 DEF Calm
<1>7. Lives' /\ CleanBeforeJoin' /\ Marking'
  BY <1>1, <1>6, CalmLives, CalmMarking
<1>8. Absent' /\ Counting'
  <2>1. Absent'
    BY <1>1 DEF RecInv, Absent
  <2>2. Counting'
    BY <1>1 DEF RecInv, Counting, FailedAt
  <2> QED
    BY <2>1, <2>2
<1>9. Joining'
  BY <1>1, <1>3, <1>4 DEF RecInv, Joining
<1>10. Adding'
  BY <1>1, <1>4, <1>5 DEF RecInv, Adding
<1>11. Answered'
  BY <1>1, <1>5 DEF Answered
<1>12. Notified'
  <2>1. \A n \in Members: up[n] = "up" => n # join.site /\ status[n][join.site] \notin Member
    BY <1>1, <1>4 DEF RecInv, Notified
  <2>2. \A d \in Clients, n \in Members:
          ~(/\ up[n] = "up" /\ n # d /\ status[n][d] \in Member
            /\ status[Root][d] \in {"CLEANUP", "INACTIVE"})
    BY <1>1 DEF RecInv, Notified
  <2> QED
    BY <1>1, <1>3, <1>5, <2>1, <2>2 DEF Notified
<1>13. TypeOK'
  <2>1. join' \in [site: Clients \cup {None}, stage: {"idle", "add", "told"}, asked: BOOLEAN]
    BY <1>1, <1>2
  <2> QED
    BY <1>1, <1>5, <2>1 DEF RecInv, TypeOK
<1> QED
  BY <1>7, <1>8, <1>9, <1>10, <1>11, <1>12, <1>13 DEF RecInv

\* serve_add_member(): a member adds the new site.
LEMMA ServeAddMemberRec ==
    ASSUME RecInv, NEW n \in Sites, serve_add_member(n)
    PROVE  RecInv'
<1>1. /\ n \in joinWait /\ n \in Members /\ up[n] = "up" /\ adding[n] = None
      /\ adding' = [adding EXCEPT ![n] = join.site]
      /\ add_site(n, join.site)
      /\ UNCHANGED <<up, mark, join, joinWait, nsp, held>>
  BY DEF serve_add_member, work
<1>2. join.stage = "told" /\ join.site \in Clients
  BY <1>1 DEF RecInv, Joining
<1>3. /\ Calm /\ Counting'
      /\ status' \in [Sites -> [Clients -> Member \cup Failed \cup {"INACTIVE"}]]
      /\ failed_sites' \in [Sites -> 0..Cardinality(Clients)]
      /\ cleaner' \in [Sites -> {"none", "nsp", "own"}] /\ init' \in [Sites -> BOOLEAN]
      /\ status'[n][join.site] \notin Member
  BY <1>1, <1>2, AddSiteAt
<1>4. Lives' /\ CleanBeforeJoin' /\ (Members' \subseteq Members) /\ Marking'
  BY <1>1, <1>3, CalmLives, CalmMarking
<1>5. adding \in [Sites -> Clients \cup {None}] /\ n \in Clients
  BY <1>1 DEF RecInv, TypeOK, Members
<1>6. /\ adding'[n] = join.site /\ \A m \in Sites: m # n => adding'[m] = adding[m]
      /\ adding' \in [Sites -> Clients \cup {None}]
  BY <1>1, <1>2, <1>5
<1>7. Absent'
  <2>1. \A m \in Clients: up[m] # "up" => adding'[m] = None
    BY <1>1, <1>6, TheSites DEF RecInv, Absent
  <2> QED
    BY <1>1, <1>3, <2>1, CalmAbsent
<1>8. Joining'
  BY <1>1, <1>3, TheSites DEF RecInv, Joining, Calm
<1>9. Adding'
  <2> SUFFICES ASSUME NEW m \in Clients, adding'[m] # None
               PROVE  /\ status'[m][adding'[m]] \notin Member
                      /\ m \in Members' => /\ join.stage = "told" /\ adding'[m] = join.site
                                           /\ m \in joinWait
    BY <1>1, <1>5, <1>6, TheSites DEF RecInv, Adding
  <2>1. CASE m = n
    BY <2>1, <1>1, <1>2, <1>3, <1>6
  <2>2. CASE m # n
    <3>1. adding'[m] = adding[m] /\ adding[m] \in Clients /\ m \in Sites
      BY <2>2, <1>5, <1>6, TheSites
    <3> QED
      BY <3>1, <1>3, <1>4 DEF RecInv, Adding, Calm
  <2> QED
    BY <2>1, <2>2
<1>10. Answered'
  BY <1>1, <1>4 DEF RecInv, Answered
<1>11. Notified'
  <2>1. \A c \in Clients, m \in Members':
          /\ up[m] = "up" /\ m # c /\ status'[m][c] \in Member
          /\ status'[Root][c] \in {"CLEANUP", "INACTIVE"}
          => join.site = c /\ join.stage = "told"
    BY <1>3, <1>4, TheSites DEF RecInv, Notified, Calm, Members
  <2>2. \A m \in joinWait \cap Members': up[m] = "up" /\ adding'[m] = None =>
             status'[m][join.site] \notin Member
    BY <1>2, <1>3, <1>4, <1>6, TheSites DEF RecInv, Notified, Calm, Members
  <2> QED
    BY <1>1, <2>1, <2>2 DEF Notified
<1>12. TypeOK'
  BY <1>1, <1>3, <1>6 DEF RecInv, TypeOK
<1> QED
  BY <1>3, <1>4, <1>7, <1>8, <1>9, <1>10, <1>11, <1>12 DEF RecInv

(* A client is through with its cleanup and takes the site for a member    *)
(* again: it holds nothing for it, and is no longer waited for.            *)
LEMMA AddMemberReplyRec ==
    ASSUME RecInv, NEW n \in Sites, add_member_reply(n)
    PROVE  RecInv'
<1>1. /\ adding[n] # None /\ SiteAdded(n, adding[n])
      /\ status' = [status EXCEPT ![n][adding[n]] = "ACTIVE"]
      /\ joinWait' = IF adding[n] = join.site THEN joinWait \ {n} ELSE joinWait
      /\ adding' = [adding EXCEPT ![n] = None]
      /\ UNCHANGED <<up, failed_sites, cleaner, init, mark, join, nsp, held>>
  BY DEF add_member_reply, work
<1>2. /\ status \in [Sites -> [Clients -> Member \cup Failed \cup {"INACTIVE"}]]
      /\ adding \in [Sites -> Clients \cup {None}] /\ joinWait \subseteq Clients
      /\ TypeOK /\ Counting
  BY DEF RecInv, TypeOK
<1>3. PICK a \in Clients: adding[n] = a
  BY <1>1, <1>2
<1>4. n \in Clients
  BY <1>1, TheSites DEF RecInv, Adding
<1>5. status[n][a] = "INACTIVE"
  <2>1. status[n][a] \notin Member
    BY <1>1, <1>3, <1>4 DEF RecInv, Adding
  <2>2. status[n][a] \notin Failed
    BY <1>1, <1>3 DEF SiteAdded
  <2> QED
    BY <1>2, <2>1, <2>2
<1>6. \A m \in Sites, d \in Clients:
         status'[m][d] = IF m = n /\ d = a THEN "ACTIVE" ELSE status[m][d]
  BY <1>1, <1>2, <1>3
<1>7. status' \in [Sites -> [Clients -> Member \cup Failed \cup {"INACTIVE"}]]
  BY <1>1, <1>2, <1>3 DEF Member
<1>8. /\ adding'[n] = None /\ \A m \in Sites: m # n => adding'[m] = adding[m]
      /\ adding' \in [Sites -> Clients \cup {None}]
  BY <1>1, <1>2
<1>9. Members' = Members /\ Members \subseteq Clients
  BY <1>4, <1>6, TheSites DEF Members
<1>10. n \in Members => join.stage = "told" /\ a = join.site /\ n \in joinWait
  BY <1>1, <1>3, <1>4 DEF RecInv, Adding
<1>11. joinWait' \subseteq joinWait /\ (\A m \in joinWait: m # n => m \in joinWait')
       /\ (n \in Members => n \notin joinWait')
  BY <1>1, <1>3, <1>10
<1>12. up[n] = "up"
  BY <1>1, <1>4 DEF RecInv, Absent
<1>13. TypeOK'
  BY <1>1, <1>2, <1>7, <1>8, <1>11 DEF TypeOK
<1>14. Counting'
  <2>1. \A m \in Sites, d \in Clients: status'[m][d] \in Failed <=> status[m][d] \in Failed
    BY <1>5, <1>6 DEF Failed
  <2>2. \A m \in Sites: failed_sites'[m] = Cardinality(FailedAt(m)')
    BY <1>1, <1>2, <2>1, CountStays
  <2> QED
    BY <1>1, <1>2, <2>2 DEF Counting
<1>15. Absent'
  <2> SUFFICES ASSUME NEW m \in Clients, up[m] # "up"
               PROVE  /\ adding'[m] = None
                      /\ \A d \in Clients: /\ status'[m][d] = "INACTIVE"
                                           /\ nsp[m][d] = "none" /\ held[m][d] = {}
    BY <1>1 DEF Absent
  <2>1. m # n /\ m \in Sites
    BY <1>12, TheSites
  <2> QED
    BY <2>1, <1>6, <1>8 DEF RecInv, Absent
<1>16. Lives'
  BY <1>1, <1>6 DEF RecInv, Lives
<1>17. CleanBeforeJoin'
  BY <1>1, <1>9 DEF RecInv, CleanBeforeJoin, Runs
<1>18. Joining'
  <2>1. \A d \in Clients: status'[Root][d] = status[Root][d]
    BY <1>4, <1>6, TheSites
  <2> QED
    BY <1>1, <1>11, <2>1 DEF RecInv, Joining
<1>19. Adding'
  <2> SUFFICES ASSUME NEW m \in Clients, adding'[m] # None
               PROVE  /\ status'[m][adding'[m]] \notin Member
                      /\ m \in Members => /\ join.stage = "told" /\ adding'[m] = join.site
                                          /\ m \in joinWait'
    BY <1>1, <1>4, <1>8, <1>9, TheSites DEF RecInv, Adding
  <2>1. m # n /\ m \in Sites /\ adding'[m] = adding[m] /\ adding[m] \in Clients
    BY <1>2, <1>8, TheSites
  <2> QED
    BY <2>1, <1>6, <1>11 DEF RecInv, Adding
<1>20. Answered'
  <2> SUFFICES ASSUME join.stage = "told", NEW m \in Members \ joinWait', up[m] = "up"
               PROVE  nsp[m][join.site] = "none" /\ held[m][join.site] = {}
    BY <1>1, <1>9 DEF Answered
  <2>1. CASE m = n
    BY <2>1, <1>5, <1>10 DEF RecInv, Lives
  <2>2. CASE m # n
    BY <2>2, <1>11 DEF RecInv, Answered
  <2> QED
    BY <2>1, <2>2
<1>21. Marking'
  <2> SUFFICES ASSUME NEW d \in Clients, mark[d] # {None}
               PROVE  /\ mark[d] \subseteq Clients /\ status'[Root][d] = "FAILED"
                      /\ \A m \in Members \ mark[d]: up[m] = "up" => status'[m][d] \notin Member
    BY <1>1, <1>9 DEF Marking
  <2>1. /\ mark[d] \subseteq Clients /\ status[Root][d] = "FAILED"
        /\ \A m \in Members \ mark[d]: up[m] = "up" => status[m][d] \notin Member
    BY DEF RecInv, Marking
  <2>2. status'[Root][d] = "FAILED"
    BY <2>1, <1>4, <1>6, TheSites
  <2>3. ASSUME NEW m \in Members \ mark[d], up[m] = "up" PROVE status'[m][d] \notin Member
    <3>1. ~(m = n /\ d = a)
      BY <2>1, <1>10 DEF RecInv, Joining
    <3>2. m \in Sites
      BY <1>9, TheSites
    <3> QED
      BY <2>1, <2>3, <3>1, <3>2, <1>6
  <2> QED
    BY <2>1, <2>2, <2>3
<1>22. Notified'
  <2>1. ASSUME NEW c \in Clients, NEW m \in Members, up[m] = "up", m # c,
               status'[m][c] \in Member, status'[Root][c] \in {"CLEANUP", "INACTIVE"}
        PROVE  join.site = c /\ join.stage = "told"
    <3>1. m \in Sites /\ status'[Root][c] = status[Root][c]
      BY <1>4, <1>6, <1>9, TheSites
    <3>2. CASE m = n /\ c = a
      BY <3>2, <1>10
    <3>3. CASE ~(m = n /\ c = a)
      BY <3>1, <3>3, <2>1, <1>6 DEF RecInv, Notified
    <3> QED
      BY <3>2, <3>3
  <2>2. ASSUME NEW m \in joinWait' \cap Members, up[m] = "up", adding'[m] = None
        PROVE  status'[m][join.site] \notin Member
    <3>1. m # n /\ m \in joinWait /\ m \in Sites /\ join.site \in Clients
      BY <1>9, <1>11, TheSites DEF RecInv, Joining
    <3> QED
      BY <2>2, <3>1, <1>6, <1>8 DEF RecInv, Notified
  <2> QED
    BY <1>1, <1>9, <2>1, <2>2 DEF Notified
<1> QED
  BY <1>13, <1>14, <1>15, <1>16, <1>17, <1>18, <1>19, <1>20, <1>21, <1>22 DEF RecInv

(* The site is a member; it starts with the root server's table, and with  *)
(* nothing held for anybody.                                               *)
LEMMA ClusterReplyRec ==
    ASSUME RecInv, cluster_reply
    PROVE  RecInv'
<1> DEFINE c == join.site
<1>1. /\ join.stage = "told" /\ joinWait = {} /\ join' = Idle
      /\ up' = IF join.asked THEN [up EXCEPT ![c] = "up"] ELSE up
      /\ UNCHANGED <<failed_sites, cleaner, init, mark, joinWait, adding, nsp, held>>
  BY DEF cluster_reply, work
<1>2. /\ status \in [Sites -> [Clients -> Member \cup Failed \cup {"INACTIVE"}]]
      /\ up \in [Clients -> {"up", "dead", "boot"}]
      /\ TypeOK /\ Counting
  BY DEF RecInv, TypeOK
<1>3. /\ c \in Clients /\ up[c] # "up" /\ status[Root][c] = "INACTIVE"
  BY <1>1 DEF RecInv, Joining
<1>4. /\ c # Root /\ c \in Sites /\ adding[c] = None
      /\ \A d \in Clients: status[c][d] = "INACTIVE" /\ nsp[c][d] = "none" /\ held[c][d] = {}
  BY <1>3, TheSites DEF RecInv, Absent
<1>5. \A n \in Sites, d \in Clients:
         status'[n][d] = IF n = Root THEN IF d = c THEN "ACTIVE" ELSE status[n][d]
                         ELSE IF n = c /\ join.asked
                              THEN IF d \in Members \cup {c} THEN "ACTIVE" ELSE "INACTIVE"
                              ELSE status[n][d]
  <2> DEFINE row == [d \in Clients |-> IF d \in Members \cup {c} THEN "ACTIVE" ELSE "INACTIVE"]
  <2>1. ASSUME NEW n \in Sites
        PROVE  /\ n = Root => status'[n] = [status[n] EXCEPT ![c] = "ACTIVE"]
               /\ n # Root /\ n = c /\ join.asked => status'[n] = row
               /\ n # Root /\ ~(n = c /\ join.asked) => status'[n] = status[n]
    BY <1>4 DEF cluster_reply
  <2>2. \A d \in Clients: row[d] = IF d \in Members \cup {c} THEN "ACTIVE" ELSE "INACTIVE"
    OBVIOUS
  <2> HIDE DEF row
  <2>3. \A d \in Clients: status'[Root][d] = IF d = c THEN "ACTIVE" ELSE status[Root][d]
    <3>1. status'[Root] = [status[Root] EXCEPT ![c] = "ACTIVE"]
      BY <2>1, TheSites
    <3>2. status[Root] \in [Clients -> Member \cup Failed \cup {"INACTIVE"}]
      BY <1>2, TheSites
    <3> HIDE DEF c
    <3> QED
      BY <3>1, <3>2, <1>3
  <2> QED
    BY <2>1, <2>2, <2>3
<1>6. status' \in [Sites -> [Clients -> Member \cup Failed \cup {"INACTIVE"}]]
  <2> DEFINE T == Member \cup Failed \cup {"INACTIVE"}
             row == [d \in Clients |-> IF d \in Members \cup {c} THEN "ACTIVE" ELSE "INACTIVE"]
  <2>1. "ACTIVE" \in T /\ "INACTIVE" \in T
    BY DEF Member
  <2>2. row \in [Clients -> T]
    BY <2>1
  <2>3. \A n \in Sites: status[n] \in [Clients -> T] /\ [status[n] EXCEPT ![c] = "ACTIVE"] \in [Clients -> T]
    BY <1>2, <2>1
  <2>4. \A n \in Sites: \/ status'[n] = [status[n] EXCEPT ![c] = "ACTIVE"]
                        \/ status'[n] = row \/ status'[n] = status[n]
    BY DEF cluster_reply
  <2>5. status' = [n \in Sites |-> status'[n]]
    BY DEF cluster_reply
  <2> HIDE DEF T, row
  <2>6. \A n \in Sites: status'[n] \in [Clients -> T]
    BY <2>2, <2>3, <2>4
  <2> QED
    BY <2>5, <2>6 DEF T
<1>7. /\ up' \in [Clients -> {"up", "dead", "boot"}]
      /\ \A d \in Clients: up'[d] = IF d = c /\ join.asked THEN "up" ELSE up[d]
  BY <1>1, <1>2, <1>3
<1> HIDE DEF c
<1>8. Members' = Members \cup {c} /\ c \notin Members /\ Members \subseteq Clients
  BY <1>3, <1>5, TheSites DEF Members, Member
<1>9. join'.site = None /\ join'.stage = "idle" /\ join'.asked = FALSE
  BY <1>1 DEF Idle
<1>10. TypeOK'
  <2>1. join' \in [site: Clients \cup {None}, stage: {"idle", "add", "told"}, asked: BOOLEAN]
    BY <1>1 DEF Idle
  <2> QED
    BY <1>1, <1>2, <1>6, <1>7, <2>1 DEF TypeOK
<1>11. Counting'
  <2>1. \A m \in Sites, d \in Clients: status'[m][d] \in Failed <=> status[m][d] \in Failed
    BY <1>3, <1>4, <1>5 DEF Failed
  <2>2. \A m \in Sites: failed_sites'[m] = Cardinality(FailedAt(m)')
    BY <1>1, <1>2, <2>1, CountStays
  <2> QED
    BY <1>1, <1>2, <2>2 DEF Counting
<1>12. Absent'
  <2> SUFFICES ASSUME NEW m \in Clients, up'[m] # "up"
               PROVE  /\ adding[m] = None
                      /\ \A d \in Clients: /\ status'[m][d] = "INACTIVE"
                                           /\ nsp[m][d] = "none" /\ held[m][d] = {}
    BY <1>1 DEF Absent
  <2>1. m # Root /\ m \in Sites /\ ~(m = c /\ join.asked) /\ up[m] # "up"
    BY <1>7, TheSites
  <2> QED
    BY <2>1, <1>5 DEF RecInv, Absent
<1>13. Lives'
  <2> SUFFICES ASSUME NEW n \in Sites, NEW d \in Clients
               PROVE  /\ up'[d] # "up" => nsp[n][d] \notin {"new", "newwait"} /\ "new" \notin held[n][d]
                      /\ status'[n][d] = "INACTIVE" => nsp[n][d] = "none" /\ held[n][d] = {}
    BY <1>1 DEF Lives
  <2>1. up'[d] # "up" => up[d] # "up"
    BY <1>7
  <2>2. n # c /\ status'[n][d] = "INACTIVE" => status[n][d] = "INACTIVE"
    BY <1>5
  <2> QED
    BY <1>4, <2>1, <2>2 DEF RecInv, Lives
<1>14. Joining'
  BY <1>1, <1>9 DEF Joining
<1>15. Adding'
  <2> SUFFICES ASSUME NEW m \in Clients, adding[m] # None
               PROVE  status'[m][adding[m]] \notin Member /\ m \notin Members'
    BY <1>1 DEF RecInv, Adding
  <2>1. m # c /\ m # Root /\ m \in Sites /\ adding[m] \in Clients
    BY <1>2, <1>4, TheSites DEF TypeOK
  <2>2. status[m][adding[m]] \notin Member /\ m \notin Members
    BY <1>1 DEF RecInv, Adding
  <2> QED
    BY <2>1, <2>2, <1>5, <1>8
<1>16. Answered'
  BY <1>9 DEF Answered
<1>17. Marking'
  <2> SUFFICES ASSUME NEW d \in Clients, mark[d] # {None}
               PROVE  /\ mark[d] \subseteq Clients /\ status'[Root][d] = "FAILED"
                      /\ \A m \in Members' \ mark[d]: up'[m] = "up" => status'[m][d] \notin Member
    BY <1>1 DEF Marking
  <2>1. /\ mark[d] \subseteq Clients /\ status[Root][d] = "FAILED"
        /\ \A m \in Members \ mark[d]: up[m] = "up" => status[m][d] \notin Member
    BY DEF RecInv, Marking
  <2>2. d # c /\ d \notin Members
    BY <2>1, <1>3 DEF Members, Member
  <2>3. status'[Root][d] = "FAILED"
    BY <2>1, <2>2, <1>5, TheSites
  <2>4. ASSUME NEW m \in Members' \ mark[d], up'[m] = "up" PROVE status'[m][d] \notin Member
    <3>1. m \in Clients /\ m \in Sites /\ m # Root
      BY <1>3, <1>8, TheSites
    <3>2. CASE m = c
      <4>1. join.asked
        BY <1>3, <1>7, <2>4, <3>2
      <4> QED
        BY <4>1, <3>1, <3>2, <1>5, <2>2 DEF Member
    <3>3. CASE m # c
      BY <3>1, <3>3, <1>5, <1>7, <1>8, <2>1, <2>4
    <3> QED
      BY <3>2, <3>3
  <2> QED
    BY <2>1, <2>3, <2>4
<1>18. CleanBeforeJoin'
  <2> SUFFICES ASSUME NEW d \in Clients, NEW m \in Members' \cup {Root}, up'[d] = "up", Runs(m)'
               PROVE  nsp[m][d] \notin {"old", "oldwait"} /\ "old" \notin held[m][d]
    BY <1>1 DEF CleanBeforeJoin
  <2>1. CASE m = c
    BY <2>1, <1>4
  <2>2. CASE m # c
    <3>1. m \in Members \cup {Root} /\ m \in Sites /\ Runs(m)
      BY <2>2, <1>7, <1>8, TheSites DEF Runs
    <3>2. CASE d # c
      BY <3>1, <3>2, <1>7 DEF RecInv, CleanBeforeJoin
    <3>3. CASE d = c /\ m = Root
      BY <3>3, <1>3, TheSites DEF RecInv, Lives
    <3>4. CASE d = c /\ m \in Members
      <4>1. m \in Members \ joinWait /\ up[m] = "up"
        BY <1>1, <1>8, <3>1, <3>4 DEF Runs
      <4> QED
        BY <4>1, <1>1, <3>4 DEF RecInv, Answered, c
    <3> QED
      BY <3>1, <3>2, <3>3, <3>4
  <2> QED
    BY <2>1, <2>2
<1>19. Notified'
  <2>1. ASSUME NEW d \in Clients, NEW m \in Members', up'[m] = "up", m # d,
               status'[m][d] \in Member, status'[Root][d] \in {"CLEANUP", "INACTIVE"}
        PROVE  FALSE
    <3>1. d # c /\ status[Root][d] \in {"CLEANUP", "INACTIVE"}
      BY <2>1, <1>5, TheSites
    <3>2. d \notin Members /\ m \in Sites /\ m # Root /\ m \in Clients
      BY <3>1, <1>3, <1>8, TheSites DEF Members, Member
    <3>3. m # c
      <4>1. m = c => join.asked
        BY <1>3, <1>7, <2>1
      <4> QED
        BY <4>1, <3>1, <3>2, <2>1, <1>5 DEF Member
    <3>4. m \in Members /\ up[m] = "up" /\ status[m][d] \in Member
      BY <3>2, <3>3, <2>1, <1>5, <1>7, <1>8
    <3> QED
      BY <3>1, <3>4, <2>1 DEF RecInv, Notified, c
  <2> QED
    BY <1>1, <2>1 DEF Notified
<1> QED
  BY <1>10, <1>11, <1>12, <1>13, <1>14, <1>15, <1>16, <1>17, <1>18, <1>19 DEF RecInv
-----------------------------------------------------------------------------
(* A client goes down.                                                     *)

(* What Old() makes of what is held.                                       *)
LEMMA OldWork ==
    /\ \A x \in {"none", "new", "newwait", "old", "oldwait"}:
          /\ Old(x) \in {"none", "old", "oldwait"}
          /\ Old(x) = "none" <=> x = "none"
    /\ \A h \in SUBSET {"new", "old"}:
          /\ {Old(x): x \in h} \in SUBSET {"old"}
          /\ {Old(x): x \in h} = {} <=> h = {}
  BY DEF Old

\* A client goes down, and some of the others record its failure.
LEMMA GoesDownRec ==
    ASSUME RecInv, NEW c \in Clients, NEW S \in SUBSET (Sites \ {c}), GoesDown(c, S)
    PROVE  RecInv'
<1> DEFINE R == {n \in S: Runs(n)}
<1>1. /\ up' = [up EXCEPT ![c] = "dead"]
      /\ status' = [Marked(R, c) EXCEPT ![c] = [d \in Clients |-> "INACTIVE"]]
      /\ failed_sites' = [Counted(R, c) EXCEPT ![c] = 0]
      /\ init' = [Initiated(R, c) EXCEPT ![c] = FALSE]
      /\ cleaner' = [cleaner EXCEPT ![c] = "none"]
      /\ adding' = [adding EXCEPT ![c] = None]
      /\ join' = IF join.site = c THEN [join EXCEPT !.asked = FALSE] ELSE join
      /\ UNCHANGED <<mark, joinWait>>
  BY DEF GoesDown
<1>2. /\ up \in [Clients -> {"up", "dead", "boot"}]
      /\ status \in [Sites -> [Clients -> Member \cup Failed \cup {"INACTIVE"}]]
      /\ failed_sites \in [Sites -> 0..Cardinality(Clients)]
      /\ cleaner \in [Sites -> {"none", "nsp", "own"}]
      /\ init \in [Sites -> BOOLEAN]
      /\ adding \in [Sites -> Clients \cup {None}]
      /\ nsp \in [Sites -> [Clients -> {"none", "new", "newwait", "old", "oldwait"}]]
      /\ held \in [Sites -> [Clients -> SUBSET {"new", "old"}]]
      /\ TypeOK /\ Counting
  BY DEF RecInv, TypeOK
<1>3. c \in Sites /\ c # Root /\ c # None /\ c \notin R /\ \A n \in R: n \in Sites /\ Runs(n)
  BY TheSites
<1> HIDE DEF R
<1>4. /\ up' \in [Clients -> {"up", "dead", "boot"}]
      /\ \A d \in Clients: up'[d] = IF d = c THEN "dead" ELSE up[d]
  BY <1>1, <1>2
<1>5. /\ \A d \in Clients: status'[c][d] = "INACTIVE"
      /\ \A n \in Sites, d \in Clients: n # c =>
            status'[n][d] = IF n \in R /\ d = c /\ status[n][d] \in Member THEN "FAILED"
                            ELSE status[n][d]
      /\ status' \in [Sites -> [Clients -> Member \cup Failed \cup {"INACTIVE"}]]
  <2> DEFINE T == Member \cup Failed \cup {"INACTIVE"}
             M == Marked(R, c)
  <2>1. /\ M \in [Sites -> [Clients -> T]]
        /\ \A n \in Sites, d \in Clients: n # c =>
              M[n][d] = IF n \in R /\ d = c /\ status[n][d] \in Member THEN "FAILED"
                        ELSE status[n][d]
    <3>1. "FAILED" \in T
      BY DEF Failed
    <3>2. \A n \in Sites: status[n] \in [Clients -> T] /\ [status[n] EXCEPT ![c] = "FAILED"] \in [Clients -> T]
      BY <1>2, <3>1
    <3> HIDE DEF T
    <3>3. M \in [Sites -> [Clients -> T]]
      BY <3>2 DEF Marked
    <3>4. \A n \in Sites, d \in Clients: n # c =>
              M[n][d] = IF n \in R /\ d = c /\ status[n][d] \in Member THEN "FAILED"
                        ELSE status[n][d]
      BY <3>2 DEF Marked, Declares
    <3> QED
      BY <3>3, <3>4
  <2>2. [d \in Clients |-> "INACTIVE"] \in [Clients -> T]
    OBVIOUS
  <2> HIDE DEF T, M
  <2>3. status' \in [Sites -> [Clients -> T]]
    BY <1>1, <1>3, <2>1, <2>2 DEF M
  <2>4. status'[c] = [d \in Clients |-> "INACTIVE"]
    BY <1>1, <1>3, <2>1 DEF M
  <2>5. \A n \in Sites: n # c => status'[n] = M[n]
    BY <1>1, <1>3, <2>1 DEF M
  <2> QED
    BY <2>1, <2>3, <2>4, <2>5 DEF T
<1>6. /\ failed_sites'[c] = 0
      /\ \A n \in Sites: n # c =>
            failed_sites'[n] = failed_sites[n] + IF n \in R /\ Declares(n, c) THEN 1 ELSE 0
      /\ failed_sites' = [n \in Sites |-> failed_sites'[n]]
  BY <1>1, <1>3 DEF Counted
<1>7. /\ \A n \in Sites: n # c => (init'[n] <=> \/ init[n]
                                                \/ n \in R /\ Declares(n, c)
                                                   /\ failed_sites[n] = 0 /\ cleaner[n] = "none")
      /\ init' \in [Sites -> BOOLEAN]
  BY <1>1, <1>2, <1>3 DEF Initiated
<1>8. /\ cleaner' \in [Sites -> {"none", "nsp", "own"}]
      /\ \A n \in Sites: n # c => cleaner'[n] = cleaner[n]
  BY <1>1, <1>2
<1>9. /\ adding'[c] = None /\ \A n \in Sites: n # c => adding'[n] = adding[n]
      /\ adding' \in [Sites -> Clients \cup {None}]
  BY <1>1, <1>2, <1>3
<1>10. /\ join'.site = join.site /\ join'.stage = join.stage
       /\ join'.asked => join.asked /\ join.site # c
       /\ join' \in [site: Clients \cup {None}, stage: {"idle", "add", "told"}, asked: BOOLEAN]
       /\ join.stage = "idle" => join' = join
  <2>1. join \in [site: Clients \cup {None}, stage: {"idle", "add", "told"}, asked: BOOLEAN]
    BY <1>2 DEF TypeOK
  <2>2. join.stage = "idle" => join.site # c
    BY <1>3 DEF RecInv, Joining, Idle
  <2> QED
    BY <1>1, <2>1, <2>2
<1>11. \A n \in Sites, d \in Clients:
         nsp'[n][d] = IF n = c THEN "none" ELSE IF d = c THEN Old(nsp[n][d]) ELSE nsp[n][d]
  BY DEF GoesDown, LeavesBehind
<1>12. \A n \in Sites, d \in Clients:
         held'[n][d] = IF n = c THEN {}
                       ELSE IF d = c THEN {Old(x): x \in held[n][d]} ELSE held[n][d]
  BY DEF GoesDown, LeavesBehind
<1>13. ASSUME NEW n \in Sites, NEW d \in Clients
       PROVE  /\ nsp'[n][d] \in {"none", "new", "newwait", "old", "oldwait"}
              /\ nsp[n][d] = "none" => nsp'[n][d] = "none"
              /\ d = c => nsp'[n][d] \notin {"new", "newwait"}
              /\ d # c /\ n # c => nsp'[n][d] = nsp[n][d]
              /\ n = c => nsp'[n][d] = "none"
  <2>1. nsp[n][d] \in {"none", "new", "newwait", "old", "oldwait"}
    BY <1>2
  <2> QED
    BY <1>11, <2>1, OldWork
<1>14. ASSUME NEW n \in Sites, NEW d \in Clients
       PROVE  /\ held'[n][d] \in SUBSET {"new", "old"}
              /\ held[n][d] = {} => held'[n][d] = {}
              /\ d = c => "new" \notin held'[n][d]
              /\ d # c /\ n # c => held'[n][d] = held[n][d]
              /\ n = c => held'[n][d] = {}
  <2>1. held[n][d] \in SUBSET {"new", "old"}
    BY <1>2
  <2>2. /\ {Old(x): x \in held[n][d]} \in SUBSET {"old"}
        /\ held[n][d] = {} => {Old(x): x \in held[n][d]} = {}
    BY <2>1, OldWork
  <2> DEFINE old == {Old(x): x \in held[n][d]}
  <2>3. held'[n][d] = IF n = c THEN {} ELSE IF d = c THEN old ELSE held[n][d]
    BY <1>12
  <2> HIDE DEF old
  <2>4. old \in SUBSET {"old"} /\ (held[n][d] = {} => old = {})
    BY <2>2 DEF old
  <2>5. CASE n = c
    <3>1. held'[n][d] = {}
      BY <2>3, <2>5
    <3> QED
      BY <3>1, <2>5
  <2>6. CASE n # c /\ d = c
    <3>1. held'[n][d] = old
      BY <2>3, <2>6
    <3>2. "new" \notin old /\ old \in SUBSET {"new", "old"}
      BY <2>4
    <3> QED
      BY <3>1, <3>2, <2>4, <2>6
  <2>7. CASE n # c /\ d # c
    <3>1. held'[n][d] = held[n][d]
      BY <2>3, <2>7
    <3> QED
      BY <3>1, <2>1, <2>7
  <2> QED
    BY <2>5, <2>6, <2>7
<1>15. /\ nsp' \in [Sites -> [Clients -> {"none", "new", "newwait", "old", "oldwait"}]]
       /\ held' \in [Sites -> [Clients -> SUBSET {"new", "old"}]]
  <2>1. /\ nsp' = [n \in Sites |-> [d \in Clients |-> nsp'[n][d]]]
        /\ held' = [n \in Sites |-> [d \in Clients |-> held'[n][d]]]
    BY DEF GoesDown, LeavesBehind
  <2> QED
    BY <2>1, <1>13, <1>14
<1>16. Members' \subseteq Members /\ \A m \in Members: m \in Clients /\ m \in Sites /\ m # Root
  BY <1>3, <1>5, TheSites DEF Members, Member
<1>17. \A n \in Sites, d \in Clients: n # c =>
          /\ status'[n][d] \in Member => status[n][d] \in Member
          /\ status'[n][d] = "INACTIVE" <=> status[n][d] = "INACTIVE"
          /\ status'[n][d] = "CLEANUP" <=> status[n][d] = "CLEANUP"
          /\ status[n][d] = "FAILED" => status'[n][d] = "FAILED"
  BY <1>5 DEF Member
<1>18. Counting' /\ failed_sites' \in [Sites -> 0..Cardinality(Clients)]
  <2>1. ASSUME NEW n \in Sites
        PROVE  /\ failed_sites'[n] = Cardinality(FailedAt(n)')
               /\ failed_sites'[n] \in 0..Cardinality(Clients)
    <3>1. CASE n = c
      <4>1. FailedAt(n)' = {}
        BY <3>1, <1>5 DEF FailedAt, Failed
      <4>2. Cardinality(Clients) \in Nat /\ Cardinality({}) = 0
        BY RecoveryAssumption, FS_CardinalityType, FS_EmptySet
      <4> QED
        BY <4>1, <4>2, <3>1, <1>6
    <3>2. CASE n # c
      <4>1. \A d \in Clients: d # c => status'[n][d] = status[n][d]
        BY <3>2, <1>5
      <4>2. failed_sites[n] \in Int
        BY <1>2
      <4>3. failed_sites'[n] = failed_sites[n] + (IF status'[n][c] \in Failed THEN 1 ELSE 0)
                                               - (IF status[n][c] \in Failed THEN 1 ELSE 0)
        BY <3>2, <1>5, <1>6, <4>2 DEF Declares, Member, Failed
      <4> QED
        BY <1>2, <4>1, <4>3, Recount
    <3> QED
      BY <3>1, <3>2
  <2>2. ASSUME NEW n \in Sites, failed_sites'[n] > 0
        PROVE  init'[n] \/ cleaner'[n] # "none"
    <3>1. n # c
      BY <2>2, <1>6
    <3>2. CASE failed_sites[n] > 0
      BY <3>1, <3>2, <1>2, <1>7, <1>8 DEF Counting
    <3>3. CASE ~(failed_sites[n] > 0)
      <4>1. failed_sites[n] = 0
        BY <3>3, <1>2
      <4>2. n \in R /\ Declares(n, c)
        BY <2>2, <3>1, <4>1, <1>6
      <4> QED
        BY <3>1, <4>1, <4>2, <1>7, <1>8
    <3> QED
      BY <3>2, <3>3
  <2>3. failed_sites' \in [Sites -> 0..Cardinality(Clients)]
    BY <1>6, <2>1
  <2> QED
    BY <2>1, <2>2, <2>3 DEF Counting
<1>19. TypeOK'
  BY <1>1, <1>2, <1>4, <1>5, <1>7, <1>8, <1>9, <1>10, <1>15, <1>18 DEF TypeOK
<1>20. Absent'
  <2> SUFFICES ASSUME NEW m \in Clients, up'[m] # "up"
               PROVE  /\ adding'[m] = None
                      /\ \A d \in Clients: /\ status'[m][d] = "INACTIVE"
                                           /\ nsp'[m][d] = "none" /\ held'[m][d] = {}
    BY DEF Absent
  <2>1. CASE m = c
    BY <2>1, <1>3, <1>5, <1>9, <1>13, <1>14
  <2>2. CASE m # c
    <3>1. up[m] # "up" /\ m \in Sites
      BY <2>2, <1>4, TheSites
    <3>2. /\ adding[m] = None
          /\ \A d \in Clients: /\ status[m][d] = "INACTIVE"
                               /\ nsp[m][d] = "none" /\ held[m][d] = {}
      BY <3>1 DEF RecInv, Absent
    <3> QED
      BY <2>2, <3>1, <3>2, <1>9, <1>13, <1>14, <1>17
  <2> QED
    BY <2>1, <2>2
<1>21. Lives'
  <2> SUFFICES ASSUME NEW n \in Sites, NEW d \in Clients
               PROVE  /\ up'[d] # "up" => nsp'[n][d] \notin {"new", "newwait"} /\ "new" \notin held'[n][d]
                      /\ status'[n][d] = "INACTIVE" => nsp'[n][d] = "none" /\ held'[n][d] = {}
    BY DEF Lives
  <2>1. CASE n = c
    BY <2>1, <1>13, <1>14
  <2>2. CASE n # c
    <3>1. /\ up[d] # "up" => nsp[n][d] \notin {"new", "newwait"} /\ "new" \notin held[n][d]
          /\ status[n][d] = "INACTIVE" => nsp[n][d] = "none" /\ held[n][d] = {}
      BY DEF RecInv, Lives
    <3>2. status'[n][d] = "INACTIVE" => nsp'[n][d] = "none" /\ held'[n][d] = {}
      BY <2>2, <3>1, <1>13, <1>14, <1>17
    <3>3. CASE d = c
      BY <3>2, <3>3, <1>13, <1>14
    <3>4. CASE d # c
      <4>1. up'[d] = up[d] /\ nsp'[n][d] = nsp[n][d] /\ held'[n][d] = held[n][d]
        BY <2>2, <3>4, <1>4, <1>13, <1>14
      <4> QED
        BY <3>1, <3>2, <4>1
    <3> QED
      BY <3>3, <3>4
  <2> QED
    BY <2>1, <2>2
<1>22. Joining'
  <2>1. join.stage = "idle" => join' = Idle
    BY <1>10 DEF RecInv, Joining
  <2>2. join.stage # "idle" => /\ join.site \in Clients /\ up'[join.site] # "up"
                               /\ status'[Root][join.site] \notin Member
    BY <1>3, <1>4, <1>17, TheSites DEF RecInv, Joining
  <2>3. join'.asked => up'[join.site] = "boot"
    <3>1. join'.asked => join.asked /\ join.site # c /\ join.site \in Clients
      BY <1>10 DEF RecInv, Joining, Idle
    <3> QED
      BY <3>1, <1>4 DEF RecInv, Joining
  <2>4. join.stage = "told" => status'[Root][join.site] = "INACTIVE"
    BY <1>3, <1>17, TheSites DEF RecInv, Joining
  <2>5. join.stage # "told" => joinWait = {}
    BY DEF RecInv, Joining
  <2> QED
    BY <1>1, <1>10, <2>1, <2>2, <2>3, <2>4, <2>5 DEF Joining
<1>23. Adding'
  <2>1. adding'[Root] = None
    BY <1>3, <1>9, TheSites DEF RecInv, Adding
  <2>2. ASSUME NEW m \in Clients, adding'[m] # None
        PROVE  /\ status'[m][adding'[m]] \notin Member
               /\ m \in Members' => /\ join.stage = "told" /\ adding'[m] = join.site
                                    /\ m \in joinWait
    <3>1. m # c /\ m \in Sites /\ adding'[m] = adding[m] /\ adding[m] \in Clients
      BY <2>2, <1>2, <1>9, TheSites
    <3>2. /\ status[m][adding[m]] \notin Member
          /\ m \in Members => /\ join.stage = "told" /\ adding[m] = join.site
                              /\ m \in joinWait
      BY <2>2, <3>1 DEF RecInv, Adding
    <3> QED
      BY <3>1, <3>2, <1>16, <1>17
  <2> QED
    BY <2>1, <2>2, <1>1, <1>10 DEF Adding
<1>24. Answered'
  <2> SUFFICES ASSUME join.stage = "told", NEW m \in Members' \ joinWait, up'[m] = "up"
               PROVE  nsp'[m][join.site] = "none" /\ held'[m][join.site] = {}
    BY <1>1, <1>10 DEF Answered
  <2>1. m \in Members /\ m \in Sites /\ m # c /\ up[m] = "up" /\ join.site \in Clients
    BY <1>4, <1>16 DEF RecInv, Joining
  <2>2. nsp[m][join.site] = "none" /\ held[m][join.site] = {}
    BY <2>1 DEF RecInv, Answered
  <2> QED
    BY <2>1, <2>2, <1>13, <1>14
<1>25. Marking'
  <2> SUFFICES ASSUME NEW d \in Clients, mark[d] # {None}
               PROVE  /\ mark[d] \subseteq Clients /\ status'[Root][d] = "FAILED"
                      /\ \A m \in Members' \ mark[d]: up'[m] = "up" => status'[m][d] \notin Member
    BY <1>1 DEF Marking
  <2>1. /\ mark[d] \subseteq Clients /\ status[Root][d] = "FAILED"
        /\ \A m \in Members \ mark[d]: up[m] = "up" => status[m][d] \notin Member
    BY DEF RecInv, Marking
  <2>2. status'[Root][d] = "FAILED"
    BY <2>1, <1>3, <1>17, TheSites
  <2>3. ASSUME NEW m \in Members' \ mark[d], up'[m] = "up" PROVE status'[m][d] \notin Member
    <3>1. m \in Members /\ m \in Sites /\ m # c /\ up[m] = "up"
      BY <2>3, <1>4, <1>16
    <3> QED
      BY <3>1, <2>1, <1>17
  <2> QED
    BY <2>1, <2>2, <2>3
<1>26. CleanBeforeJoin'
  <2> SUFFICES ASSUME NEW d \in Clients, NEW m \in Members' \cup {Root}, up'[d] = "up", Runs(m)'
               PROVE  nsp'[m][d] \notin {"old", "oldwait"} /\ "old" \notin held'[m][d]
    BY DEF CleanBeforeJoin
  <2>1. m # c /\ d # c /\ m \in Sites /\ m \in Members \cup {Root} /\ up[d] = "up" /\ Runs(m)
    BY <1>3, <1>4, <1>16, TheSites DEF Runs
  <2>2. nsp[m][d] \notin {"old", "oldwait"} /\ "old" \notin held[m][d]
    BY <2>1 DEF RecInv, CleanBeforeJoin
  <2> QED
    BY <2>1, <2>2, <1>13, <1>14
<1>27. Notified'
  <2>1. ASSUME NEW d \in Clients, NEW m \in Members', up'[m] = "up", m # d,
               status'[m][d] \in Member, status'[Root][d] \in {"CLEANUP", "INACTIVE"}
        PROVE  join.site = d /\ join.stage = "told"
    <3>1. m \in Members /\ m \in Sites /\ m # c /\ up[m] = "up"
      BY <2>1, <1>4, <1>16
    <3>2. status[m][d] \in Member /\ status[Root][d] \in {"CLEANUP", "INACTIVE"}
      BY <2>1, <3>1, <1>3, <1>17, TheSites
    <3> QED
      BY <2>1, <3>1, <3>2 DEF RecInv, Notified
  <2>2. ASSUME NEW m \in joinWait \cap Members', up'[m] = "up", adding'[m] = None
        PROVE  status'[m][join.site] \notin Member
    <3>1. /\ m \in Members /\ m \in Sites /\ m # c /\ up[m] = "up" /\ adding[m] = None
          /\ join.site \in Clients
      BY <2>2, <1>4, <1>9, <1>16 DEF RecInv, Joining
    <3>2. status[m][join.site] \notin Member
      BY <3>1 DEF RecInv, Notified
    <3> QED
      BY <3>1, <3>2, <1>17
  <2> QED
    BY <1>1, <1>10, <2>1, <2>2 DEF Notified
<1> QED
  BY <1>18, <1>19, <1>20, <1>21, <1>22, <1>23, <1>24, <1>25, <1>26, <1>27 DEF RecInv

\* broadcast_failure() is such a step ...
LEMMA BroadcastRec ==
    ASSUME RecInv, NEW c \in Clients, NEW S \in SUBSET (Sites \ {c}), broadcast_failure(c, S)
    PROVE  RecInv'
  BY GoesDownRec DEF broadcast_failure

\* ... as is a crash without a word ...
LEMMA BootCrashRec == ASSUME RecInv, NEW c \in Clients, boot_crash(c) PROVE RecInv'
  BY GoesDownRec DEF boot_crash

\* ... and the end of a site that is told to die.
LEMMA SuicideRec == ASSUME RecInv, NEW c \in Clients, recv_suicide_msg(c) PROVE RecInv'
  BY GoesDownRec DEF recv_suicide_msg
-----------------------------------------------------------------------------
(* A pass of invoke_cleanup(), in its parts: the status it gives c, what   *)
(* is then held, and, at the root server, whom DM_MARK_FAILED waits for.   *)

(* c leaves CL_FAILED at the root server only when everybody was told.     *)
LEMMA CleanupMarks ==
    ASSUME RecInv, NEW n \in Sites, NEW c \in Clients, invoke_cleanup(n, c)
    PROVE  /\ status[n][c] \in Failed
           /\ status'[n][c] \in {"FAILED", "CLEANUP", "INACTIVE"}
           /\ status'[n][c] = "INACTIVE" => nsp[n][c] = "none"
           /\ status' = [status EXCEPT ![n][c] = status'[n][c]]
           /\ failed_sites' = [failed_sites EXCEPT ![n] = CountDown(n, c, status'[n][c])]
           /\ held' = [held EXCEPT ![n][c] = IF status'[n][c] = "INACTIVE" THEN {} ELSE @]
           /\ joinWait' \subseteq joinWait /\ (\A m \in joinWait: m # c => m \in joinWait')
           /\ n # Root => UNCHANGED <<mark, joinWait>>
           /\ mark' \in [Clients -> SUBSET (Clients \cup {None})]
           /\ n = Root => \A d \in Clients: d # c => mark'[d] = mark[d] \ {c}
           /\ n = Root => \/ mark'[c] = {None} /\ (mark[c] = {None} \/ mark[c] \ {c} = {})
                                              /\ (status[n][c] = "FAILED" /\ mark[c] = {None}
                                                     => Members = {})
                          \/ /\ status[n][c] = "FAILED" /\ status'[n][c] = "FAILED"
                             /\ mark'[c] = IF mark[c] = {None} THEN Members ELSE mark[c] \ {c}
<1> DEFINE left == [d \in Clients |-> cleanup_using_array(mark[d], c)]
           wait == IF mark[c] = {None} THEN Members ELSE left[c]
           told == n # Root \/ MarkDone(wait)
           st == IF status[n][c] = "FAILED" /\ ~told THEN "FAILED"
                 ELSE IF no_nsp(n, c) THEN "INACTIVE" ELSE "CLEANUP"
<1>1. /\ Runs(n) /\ cleaner[n] # "none" /\ status[n][c] \in Failed
      /\ status' = [status EXCEPT ![n][c] = st]
      /\ failed_sites' = [failed_sites EXCEPT ![n] = CountDown(n, c, st)]
      /\ held' = [held EXCEPT ![n][c] = IF st = "INACTIVE" THEN {} ELSE @]
      /\ IF n = Root
         THEN /\ joinWait' = cleanup_using_array(joinWait, c)
              /\ mark' = IF status[n][c] = "FAILED"
                         THEN [left EXCEPT ![c] = IF told THEN {None} ELSE wait]
                         ELSE left
         ELSE UNCHANGED <<mark, joinWait>>
  BY DEF invoke_cleanup
<1>2. /\ status \in [Sites -> [Clients -> Member \cup Failed \cup {"INACTIVE"}]]
      /\ mark \in [Clients -> SUBSET (Clients \cup {None})]
  BY DEF RecInv, TypeOK
<1>3. \A d \in Clients: left[d] = mark[d] \ {c}
  BY DEF cleanup_using_array
<1>4. left \in [Clients -> SUBSET (Clients \cup {None})]
  BY <1>2 DEF cleanup_using_array
<1>5. Members \subseteq Clients /\ wait \in SUBSET (Clients \cup {None})
  BY <1>4 DEF Members
<1>6. wait = IF mark[c] = {None} THEN Members ELSE mark[c] \ {c}
  BY <1>3
<1>7. told <=> n # Root \/ wait = {}
  BY DEF MarkDone
<1>8. st \in {"FAILED", "CLEANUP", "INACTIVE"} /\ (st = "INACTIVE" => nsp[n][c] = "none")
  BY DEF no_nsp
<1>9. status[n][c] = "FAILED" /\ ~told => st = "FAILED"
  OBVIOUS
<1> HIDE DEF left, wait, told, st
<1>10. status'[n][c] = st
  BY <1>1, <1>2
<1>11. status[Root][c] # "FAILED" => mark[c] = {None}
  BY DEF RecInv, Marking
<1>12. joinWait' \subseteq joinWait /\ (\A m \in joinWait: m # c => m \in joinWait')
  BY <1>1 DEF cleanup_using_array
<1>13. CASE n # Root
  BY <1>1, <1>2, <1>8, <1>10, <1>12, <1>13
<1>14. CASE n = Root /\ status[n][c] # "FAILED"
  <2>1. mark' = left /\ mark[c] = {None} /\ mark'[c] = {None}
    BY <1>1, <1>3, <1>11, <1>14, TheSites
  <2> QED
    BY <1>1, <1>3, <1>4, <1>8, <1>10, <1>12, <1>14, <2>1
<1>15. CASE n = Root /\ status[n][c] = "FAILED" /\ told
  <2>1. mark' = [left EXCEPT ![c] = {None}] /\ wait = {}
    BY <1>1, <1>7, <1>15
  <2>2. /\ mark'[c] = {None} /\ \A d \in Clients: d # c => mark'[d] = left[d]
        /\ mark' \in [Clients -> SUBSET (Clients \cup {None})]
    BY <1>4, <2>1
  <2>3. mark[c] = {None} \/ mark[c] \ {c} = {}
    BY <1>6, <2>1
  <2>4. mark[c] = {None} => Members = {}
    BY <1>6, <2>1
  <2> QED
    BY <1>1, <1>3, <1>8, <1>10, <1>12, <1>15, <2>2, <2>3, <2>4
<1>16. CASE n = Root /\ status[n][c] = "FAILED" /\ ~told
  <2>1. mark' = [left EXCEPT ![c] = wait] /\ st = "FAILED"
    BY <1>1, <1>9, <1>16
  <2>2. /\ mark'[c] = wait /\ \A d \in Clients: d # c => mark'[d] = left[d]
        /\ mark' \in [Clients -> SUBSET (Clients \cup {None})]
    BY <1>4, <1>5, <2>1
  <2> QED
    BY <1>1, <1>3, <1>6, <1>8, <1>10, <1>12, <1>16, <2>1, <2>2
<1> QED
  BY <1>13, <1>14, <1>15, <1>16

\* invoke_cleanup(): one pass of the cleanup process over a failed site.
LEMMA InvokeCleanupRec ==
    ASSUME RecInv, NEW n \in Sites, NEW c \in Clients, invoke_cleanup(n, c)
    PROVE  RecInv'
<1>1. /\ Runs(n) /\ cleaner[n] # "none"
      /\ nsp' = [nsp EXCEPT ![n][c] = CASE @ = "newwait" -> "new"
                                        [] @ = "oldwait" -> "old" [] OTHER -> @]
      /\ UNCHANGED <<up, cleaner, init, join, adding>>
  BY DEF invoke_cleanup
<1>2. /\ status[n][c] \in Failed
      /\ status'[n][c] \in {"FAILED", "CLEANUP", "INACTIVE"}
      /\ status'[n][c] = "INACTIVE" => nsp[n][c] = "none"
      /\ status' = [status EXCEPT ![n][c] = status'[n][c]]
      /\ failed_sites' = [failed_sites EXCEPT ![n] = CountDown(n, c, status'[n][c])]
      /\ held' = [held EXCEPT ![n][c] = IF status'[n][c] = "INACTIVE" THEN {} ELSE @]
      /\ joinWait' \subseteq joinWait /\ (\A m \in joinWait: m # c => m \in joinWait')
      /\ n # Root => UNCHANGED <<mark, joinWait>>
      /\ mark' \in [Clients -> SUBSET (Clients \cup {None})]
  BY CleanupMarks
<1>3. /\ n = Root => \A d \in Clients: d # c => mark'[d] = mark[d] \ {c}
      /\ n = Root => \/ mark'[c] = {None} /\ (mark[c] = {None} \/ mark[c] \ {c} = {})
                                          /\ (status[n][c] = "FAILED" /\ mark[c] = {None}
                                                 => Members = {})
                     \/ /\ status[n][c] = "FAILED" /\ status'[n][c] = "FAILED"
                        /\ mark'[c] = IF mark[c] = {None} THEN Members ELSE mark[c] \ {c}
  BY CleanupMarks
<1>4. /\ status \in [Sites -> [Clients -> Member \cup Failed \cup {"INACTIVE"}]]
      /\ failed_sites \in [Sites -> 0..Cardinality(Clients)]
      /\ joinWait \subseteq Clients
      /\ nsp \in [Sites -> [Clients -> {"none", "new", "newwait", "old", "oldwait"}]]
      /\ held \in [Sites -> [Clients -> SUBSET {"new", "old"}]]
      /\ TypeOK /\ Counting
  BY DEF RecInv, TypeOK
<1> DEFINE st == status'[n][c]
<1> HIDE DEF st
<1>5. st \in {"FAILED", "CLEANUP", "INACTIVE"} /\ (st = "INACTIVE" => nsp[n][c] = "none")
  BY <1>2 DEF st
<1>6. /\ \A m \in Sites, d \in Clients: status'[m][d] = IF m = n /\ d = c THEN st ELSE status[m][d]
      /\ status' \in [Sites -> [Clients -> Member \cup Failed \cup {"INACTIVE"}]]
  <2>1. status' = [status EXCEPT ![n][c] = st] /\ st \in Member \cup Failed \cup {"INACTIVE"}
    BY <1>2, <1>5 DEF st, Failed
  <2> QED
    BY <1>4, <2>1
<1>7. /\ \A m \in Sites, d \in Clients:
            held'[m][d] = IF m = n /\ d = c /\ st = "INACTIVE" THEN {} ELSE held[m][d]
      /\ held' \in [Sites -> [Clients -> SUBSET {"new", "old"}]]
  <2>1. held' = [held EXCEPT ![n][c] = IF st = "INACTIVE" THEN {} ELSE @]
    BY <1>2 DEF st
  <2> QED
    BY <1>4, <2>1
<1>8. /\ nsp' \in [Sites -> [Clients -> {"none", "new", "newwait", "old", "oldwait"}]]
      /\ \A m \in Sites, d \in Clients:
            /\ nsp'[m][d] = "none" <=> nsp[m][d] = "none"
            /\ nsp'[m][d] \in {"new", "newwait"} <=> nsp[m][d] \in {"new", "newwait"}
            /\ nsp'[m][d] \in {"old", "oldwait"} <=> nsp[m][d] \in {"old", "oldwait"}
  <2> DEFINE x == CASE nsp[n][c] = "newwait" -> "new"
                    [] nsp[n][c] = "oldwait" -> "old" [] OTHER -> nsp[n][c]
  <2>1. nsp[n][c] \in {"none", "new", "newwait", "old", "oldwait"}
    BY <1>4
  <2>2. /\ x \in {"none", "new", "newwait", "old", "oldwait"}
        /\ x = "none" <=> nsp[n][c] = "none"
        /\ x \in {"new", "newwait"} <=> nsp[n][c] \in {"new", "newwait"}
        /\ x \in {"old", "oldwait"} <=> nsp[n][c] \in {"old", "oldwait"}
    BY <2>1
  <2>3. nsp' = [nsp EXCEPT ![n][c] = x]
    BY <1>1
  <2> HIDE DEF x
  <2>4. /\ nsp' \in [Sites -> [Clients -> {"none", "new", "newwait", "old", "oldwait"}]]
        /\ \A m \in Sites, d \in Clients: nsp'[m][d] = IF m = n /\ d = c THEN x ELSE nsp[m][d]
    BY <1>4, <2>2, <2>3
  <2> QED
    BY <2>2, <2>4
<1>9. Members' = Members /\ \A m \in Members: m \in Clients /\ m \in Sites /\ m # Root
  BY <1>2, <1>5, <1>6, TheSites DEF Members, Member, Failed
<1>10. n = Root => c \notin Members
  BY <1>2 DEF Members, Member, Failed
<1>11. \A m \in Sites, d \in Clients: status'[m][d] \in Member <=> status[m][d] \in Member
  BY <1>2, <1>5, <1>6 DEF Member, Failed
<1>12. Counting' /\ failed_sites' \in [Sites -> 0..Cardinality(Clients)]
  <2>1. failed_sites' = [failed_sites EXCEPT ![n] = CountDown(n, c, st)]
    BY <1>2 DEF st
  <2>2. /\ failed_sites'[n] = IF st = "INACTIVE" THEN failed_sites[n] - 1 ELSE failed_sites[n]
        /\ \A m \in Sites: m # n => failed_sites'[m] = failed_sites[m]
        /\ failed_sites' = [m \in Sites |-> failed_sites'[m]]
    BY <1>4, <2>1 DEF CountDown
  <2>3. ASSUME NEW m \in Sites
        PROVE  /\ failed_sites'[m] = Cardinality(FailedAt(m)')
               /\ failed_sites'[m] \in 0..Cardinality(Clients)
    <3>1. \A d \in Clients: d # c => status'[m][d] = status[m][d]
      BY <1>6
    <3>2. failed_sites[m] \in Int
      BY <1>4
    <3>3. failed_sites'[m] = failed_sites[m] + (IF status'[m][c] \in Failed THEN 1 ELSE 0)
                                             - (IF status[m][c] \in Failed THEN 1 ELSE 0)
      <4>1. CASE m = n
        <5>1. status'[m][c] = st /\ status[m][c] \in Failed
          BY <4>1, <1>2, <1>6
        <5>2. CASE st = "INACTIVE"
          <6>1. status'[m][c] \notin Failed
            BY <5>1, <5>2 DEF Failed
          <6>2. failed_sites'[m] = failed_sites[m] - 1
            BY <4>1, <5>2, <2>2
          <6> QED
            BY <5>1, <6>1, <6>2, <3>2
        <5>3. CASE st # "INACTIVE"
          <6>1. status'[m][c] \in Failed
            BY <5>1, <5>3, <1>5 DEF Failed
          <6>2. failed_sites'[m] = failed_sites[m]
            BY <4>1, <5>3, <2>2
          <6> QED
            BY <5>1, <6>1, <6>2, <3>2
        <5> QED
          BY <5>2, <5>3
      <4>2. CASE m # n
        <5>1. status'[m][c] = status[m][c]
          BY <4>2, <1>6
        <5>2. failed_sites'[m] = failed_sites[m]
          BY <4>2, <2>2
        <5>3. status'[m][c] \in Failed <=> status[m][c] \in Failed
          BY <5>1
        <5>4. CASE status[m][c] \in Failed
          BY <5>2, <5>3, <5>4, <3>2
        <5>5. CASE status[m][c] \notin Failed
          BY <5>2, <5>3, <5>5, <3>2
        <5> QED
          BY <5>4, <5>5
      <4> QED
        BY <4>1, <4>2
    <3> QED
      BY <1>4, <3>1, <3>3, Recount
  <2>4. ASSUME NEW m \in Sites, failed_sites'[m] > 0 PROVE init'[m] \/ cleaner'[m] # "none"
    <3>1. CASE m = n
      BY <3>1, <1>1
    <3>2. CASE m # n
      <4>1. failed_sites[m] > 0
        BY <3>2, <2>2, <2>4
      <4> QED
        BY <4>1, <1>1, <1>4 DEF Counting
    <3> QED
      BY <3>1, <3>2
  <2>5. failed_sites' \in [Sites -> 0..Cardinality(Clients)]
    BY <2>2, <2>3
  <2> QED
    BY <2>3, <2>4, <2>5 DEF Counting
<1>13. TypeOK'
  <2>1. joinWait' \subseteq Clients
    BY <1>2, <1>4
  <2> QED
    BY <1>1, <1>2, <1>4, <1>6, <1>7, <1>8, <1>12, <2>1 DEF TypeOK
<1>14. Absent'
  <2> SUFFICES ASSUME NEW m \in Clients, up[m] # "up"
               PROVE  /\ adding[m] = None
                      /\ \A d \in Clients: /\ status'[m][d] = "INACTIVE"
                                           /\ nsp'[m][d] = "none" /\ held'[m][d] = {}
    BY <1>1 DEF Absent
  <2>1. m # n /\ m \in Sites
    BY <1>1, TheSites DEF Runs
  <2>2. /\ adding[m] = None
        /\ \A d \in Clients: /\ status[m][d] = "INACTIVE"
                             /\ nsp[m][d] = "none" /\ held[m][d] = {}
    BY DEF RecInv, Absent
  <2> SUFFICES ASSUME NEW d \in Clients
               PROVE  status'[m][d] = "INACTIVE" /\ nsp'[m][d] = "none" /\ held'[m][d] = {}
    BY <2>2
  <2>3. status'[m][d] = "INACTIVE"
    BY <2>1, <2>2, <1>6
  <2>4. nsp'[m][d] = "none"
    BY <2>1, <2>2, <1>8
  <2>5. held'[m][d] = {}
    BY <2>1, <2>2, <1>7
  <2> QED
    BY <2>3, <2>4, <2>5
<1>15. Lives'
  <2> SUFFICES ASSUME NEW m \in Sites, NEW d \in Clients
               PROVE  /\ up[d] # "up" => nsp'[m][d] \notin {"new", "newwait"} /\ "new" \notin held'[m][d]
                      /\ status'[m][d] = "INACTIVE" => nsp'[m][d] = "none" /\ held'[m][d] = {}
    BY <1>1 DEF Lives
  <2>1. /\ up[d] # "up" => nsp[m][d] \notin {"new", "newwait"} /\ "new" \notin held[m][d]
        /\ status[m][d] = "INACTIVE" => nsp[m][d] = "none" /\ held[m][d] = {}
    BY DEF RecInv, Lives
  <2>2. "new" \in held'[m][d] => "new" \in held[m][d]
    BY <1>7
  <2>3. status'[m][d] = "INACTIVE" => nsp'[m][d] = "none" /\ held'[m][d] = {}
    <3>1. CASE m = n /\ d = c
      BY <3>1, <1>5, <1>6, <1>7, <1>8
    <3>2. CASE ~(m = n /\ d = c)
      BY <3>2, <2>1, <1>6, <1>7, <1>8
    <3> QED
      BY <3>1, <3>2
  <2> QED
    BY <2>1, <2>2, <2>3, <1>8
<1>16. Joining'
  <2>1. join.stage # "idle" => /\ join.site \in Clients /\ up[join.site] # "up"
                               /\ status'[Root][join.site] \notin Member
    BY <1>11, TheSites DEF RecInv, Joining
  <2>2. join.stage = "told" => status'[Root][join.site] = "INACTIVE"
    <3>1. join.stage = "told" => status[Root][join.site] = "INACTIVE" /\ join.site \in Clients
      BY DEF RecInv, Joining
    <3> QED
      BY <3>1, <1>2, <1>6, TheSites DEF Failed
  <2>3. join.stage # "told" => joinWait' = {}
    BY <1>2 DEF RecInv, Joining
  <2> QED
    BY <1>1, <2>1, <2>2, <2>3 DEF RecInv, Joining
<1>17. \A m \in Members: m \in joinWait' <=> m \in joinWait
  BY <1>2, <1>10
<1>18. Adding'
  <2> SUFFICES ASSUME NEW m \in Clients, adding[m] # None
               PROVE  /\ status'[m][adding[m]] \notin Member
                      /\ m \in Members => /\ join.stage = "told" /\ adding[m] = join.site
                                          /\ m \in joinWait'
    BY <1>1, <1>9 DEF RecInv, Adding
  <2>1. adding[m] \in Clients /\ m \in Sites
    BY <1>4, TheSites DEF TypeOK
  <2> QED
    BY <2>1, <1>11, <1>17 DEF RecInv, Adding
<1>19. Answered'
  <2> SUFFICES ASSUME join.stage = "told", NEW m \in Members \ joinWait', up[m] = "up"
               PROVE  nsp'[m][join.site] = "none" /\ held'[m][join.site] = {}
    BY <1>1, <1>9 DEF Answered
  <2>1. m \in Sites /\ join.site \in Clients
    BY <1>9 DEF RecInv, Joining
  <2>2. nsp[m][join.site] = "none" /\ held[m][join.site] = {}
    BY <1>17 DEF RecInv, Answered
  <2> QED
    BY <2>1, <2>2, <1>7, <1>8
<1>20. CleanBeforeJoin'
  <2> SUFFICES ASSUME NEW d \in Clients, NEW m \in Members \cup {Root}, up[d] = "up", Runs(m)
               PROVE  nsp'[m][d] \notin {"old", "oldwait"} /\ "old" \notin held'[m][d]
    BY <1>1, <1>9 DEF CleanBeforeJoin, Runs
  <2>1. nsp[m][d] \notin {"old", "oldwait"} /\ "old" \notin held[m][d] /\ m \in Sites
    BY <1>9, TheSites DEF RecInv, CleanBeforeJoin
  <2> QED
    BY <2>1, <1>7, <1>8
<1>21. Marking'
  <2> SUFFICES ASSUME NEW d \in Clients, mark'[d] # {None}
               PROVE  /\ mark'[d] \subseteq Clients /\ status'[Root][d] = "FAILED"
                      /\ \A m \in Members \ mark'[d]: up[m] = "up" => status'[m][d] \notin Member
    BY <1>1, <1>9 DEF Marking
  <2>1. ASSUME mark[d] # {None}
        PROVE  /\ mark[d] \subseteq Clients /\ status[Root][d] = "FAILED"
               /\ \A m \in Members \ mark[d]: up[m] = "up" => status'[m][d] \notin Member
    BY <2>1, <1>9, <1>11 DEF RecInv, Marking
  <2>2. CASE n # Root
    BY <2>1, <2>2, <1>2, <1>6, TheSites
  <2>3. CASE n = Root /\ d # c
    <3>1. mark'[d] = mark[d] \ {c} /\ mark[d] # {None}
      BY <2>3, <1>3, TheSites
    <3>2. status'[Root][d] = status[Root][d]
      BY <2>3, <1>6
    <3> QED
      BY <2>1, <2>3, <3>1, <3>2, <1>10
  <2>4. CASE n = Root /\ d = c
    <3>1. /\ status[n][c] = "FAILED" /\ status'[n][c] = "FAILED"
          /\ mark'[c] = IF mark[c] = {None} THEN Members ELSE mark[c] \ {c}
      BY <2>4, <1>3
    <3>2. CASE mark[c] = {None}
      BY <2>4, <3>1, <3>2, <1>9
    <3>3. CASE mark[c] # {None}
      BY <2>1, <2>4, <3>1, <3>3, <1>10
    <3> QED
      BY <3>2, <3>3
  <2> QED
    BY <2>2, <2>3, <2>4
<1>22. Notified'
  <2>1. ASSUME NEW d \in Clients, NEW m \in Members, up[m] = "up", m # d,
               status'[m][d] \in Member, status'[Root][d] \in {"CLEANUP", "INACTIVE"}
        PROVE  join.site = d /\ join.stage = "told"
    <3>1. status[m][d] \in Member
      BY <2>1, <1>9, <1>11
    <3>2. CASE status[Root][d] \in {"CLEANUP", "INACTIVE"}
      BY <2>1, <3>1, <3>2 DEF RecInv, Notified
    <3>3. CASE status[Root][d] \notin {"CLEANUP", "INACTIVE"}
      <4>1. n = Root /\ d = c /\ status[Root][c] = "FAILED"
        BY <2>1, <3>3, <1>2, <1>6, TheSites DEF Failed
      <4>2. mark[c] # {None} /\ mark[c] \ {c} = {}
        BY <2>1, <4>1, <1>3
      <4>3. m \notin mark[c]
        BY <4>1, <4>2, <1>10
      <4> QED
        BY <2>1, <3>1, <4>1, <4>2, <4>3 DEF RecInv, Marking
    <3> QED
      BY <3>2, <3>3
  <2>2. ASSUME NEW m \in joinWait' \cap Members, up[m] = "up", adding[m] = None
        PROVE  status'[m][join.site] \notin Member
    <3>1. m \in joinWait /\ m \in Sites /\ join.site \in Clients
      BY <1>2, <1>9 DEF RecInv, Joining
    <3>2. status[m][join.site] \notin Member
      BY <2>2, <3>1 DEF RecInv, Notified
    <3> QED
      BY <3>1, <3>2, <1>11
  <2> QED
    BY <1>1, <1>9, <2>1, <2>2 DEF Notified
<1> QED
  BY <1>12, <1>13, <1>14, <1>15, <1>16, <1>18, <1>19, <1>20, <1>21, <1>22 DEF RecInv
-----------------------------------------------------------------------------
(* Every step of the system keeps the invariant.                           *)
LEMMA StepRec == RecInv /\ [Next]_vars => RecInv'
<1> SUFFICES ASSUME RecInv, [Next]_vars PROVE RecInv'
  OBVIOUS
<1>1. CASE UNCHANGED vars
  <2>1. UNCHANGED <<up, status, failed_sites, cleaner, init, mark, join, joinWait, adding,
                    nsp, held, requests>>
    BY <1>1 DEF vars, tables, work
  <2>2. Calm /\ TypeOK'
    BY <2>1 DEF Calm, RecInv, TypeOK
  <2>3. Counting'
    BY <2>1 DEF RecInv, Counting, FailedAt
  <2> QED
    BY <2>1, <2>2, <2>3, CalmMarking, CalmStep
<1>2. CASE \E c \in Clients:
              \/ \E S \in SUBSET (Sites \ {c}): broadcast_failure(c, S)
              \/ boot_crash(c) \/ recv_suicide_msg(c) \/ register_alive(c)
              \/ dux_check_alive(c) \/ dux_retry_alive(c) \/ check_lan_break(c)
              \/ ws_cluster(c) \/ serve_clusterreq(c)
  BY <1>2, BroadcastRec, BootCrashRec, SuicideRec, RegisterAliveRec, CheckAliveRec,
     RetryAliveRec, LanBreakRec, WsClusterRec, ServeClusterreqRec
<1>3. CASE \E n \in Sites, c \in Clients: \/ Served(n, c) \/ ServedDone(n, c)
                                          \/ record_failure(n, c) \/ invoke_cleanup(n, c)
  BY <1>3, ServedRec, ServedDoneRec, RecordFailureRec, InvokeCleanupRec
<1>4. CASE \E n \in Sites: \/ dux_init_cleanup(n) \/ cleanup_ends(n)
                           \/ serve_add_member(n) \/ add_member_reply(n)
  BY <1>4, InitCleanupRec, CleanupEndsRec, ServeAddMemberRec, AddMemberReplyRec
<1>5. CASE send_add_member \/ cluster_reply
  BY <1>5, SendAddMemberRec, ClusterReplyRec
<1> QED
  BY <1>1, <1>2, <1>3, <1>4, <1>5 DEF Next

(* The inductive invariant above holds of every behaviour of the cluster,  *)
(* whatever the number of clients, crashes, wrong verdicts and requests.   *)
THEOREM RecoveryInvariant == Spec => []RecInv
  BY InitRec, StepRec, PTL DEF Spec

(* failed_sites of dux/recovery.c is, on every site of the cluster, the    *)
(* number of sites that are CL_FAILED or CL_CLEANUP, and while it is not   *)
(* zero invoke_cleanup() runs or is about to be called.                    *)
THEOREM FailedSitesCounted == Spec => []FailedCount
<1>1. RecInv => FailedCount
  BY DEF RecInv, Counting, FailedCount
<1> QED
  BY <1>1, RecoveryInvariant, PTL

(* serve_clusterreq() lets a client back into the cluster only when no     *)
(* member, and not the root server, holds anything of an earlier life of   *)
(* it or serves a request of one.                                          *)
THEOREM CleanedBeforeJoin == Spec => []CleanBeforeJoin
<1>1. RecInv => CleanBeforeJoin
  BY DEF RecInv
<1> QED
  BY <1>1, RecoveryInvariant, PTL

(* The root server goes beyond CL_FAILED with a site only when no client   *)
(* has it as a member, and no client that is sent DM_ADD_MEMBER does:      *)
(* send_mark_failed() and DM_MARK_FAILED do what cct.h and cluster.c rely  *)
(* on.                                                                     *)
THEOREM ClientsNotified == Spec => []Notified
<1>1. RecInv => Notified
  BY DEF RecInv
<1> QED
  BY <1>1, RecoveryInvariant, PTL
=============================================================================
