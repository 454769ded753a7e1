----------------------- MODULE EmbeddingVersionsProofs -----------------------
(***************************************************************************)
(* Proofs about EmbeddingVersions: type correctness, the vectors of the    *)
(* live versions, and that no promotion costs production its version.      *)
(***************************************************************************)
EXTENDS EmbeddingVersions, FiniteSetTheorems, WellFoundedInduction, TLAPS

HistoryTypeOK ==
  /\ during \in [Writers -> SUBSET {"registered", "promoted"}]
  /\ raced \in [Movies -> SUBSET {"registered", "promoted"}]
  /\ missing \in [Movies -> SUBSET EmbVersions]

\* A write that the registry did not change under has found what is live
WriterInv ==
  \A w \in Writers : during[w] = {} =>
    /\ wpc[w] = "shadow" => {get_active_version} \ {NoEmb} \subseteq targets[w]
    /\ wpc[w] = "write" => Live \subseteq targets[w]

EmbInv == EmbTypeOK /\ HistoryTypeOK /\ WriterInv /\ LiveVersionHasVector

Ranks == 0..Cardinality(EmbVersions)

\* What Fetch returns, as a function of the roles and the ranks
Newest(V, ranks) ==
  IF V = {} THEN NoEmb ELSE CHOOSE v \in V : \A u \in V : ranks[u] <= ranks[v]

\* The versions with role r in the next state
NextWithRole(r) == {v \in EmbVersions : role'[v] = r}

-----------------------------------------------------------------------------
(* Which version Fetch returns.                                            *)

\* Of versions with a bounded rank one is the newest
LEMMA NewestExists ==
  ASSUME NEW N \in Nat, NEW rank \in [EmbVersions -> 0..N],
         NEW V \in SUBSET EmbVersions, V # {}
  PROVE  \E v \in V : \A u \in V : rank[u] <= rank[v]
<1> DEFINE T == {n \in Nat : \E v \in V : rank[v] = N - n}
<1>1. T \subseteq Nat /\ T # {}
  <2>1. PICK v \in V : TRUE
    OBVIOUS
  <2>2. N - rank[v] \in Nat /\ rank[v] = N - (N - rank[v])
    BY <2>1
  <2> QED BY <2>2
<1>2. PICK n \in T : \A k \in T : ~(<<k, n>> \in OpToRel(<, Nat))
  <2> HIDE DEF T
  <2> QED BY <1>1, NatLessThanWellFounded, WFMin, Zenon
<1>3. \A k \in T : ~(k < n)
  <2> HIDE DEF T
  <2> QED BY <1>1, <1>2, Zenon DEF OpToRel
<1>4. PICK v \in V : rank[v] = N - n
  OBVIOUS
<1>5. ASSUME NEW u \in V PROVE rank[u] <= rank[v]
  <2>1. rank[u] \in 0..N
    OBVIOUS
  <2>2. N - rank[u] \in T
    BY <2>1
  <2>3. n \in Nat
    OBVIOUS
  <2>4. ~(N - rank[u] < n)
    BY <1>3, <2>2
  <2> QED BY <1>4, <2>1, <2>3, <2>4
<1> QED BY <1>5

\* There is a newest version exactly when there is a version
LEMMA NewestFinds ==
  ASSUME NEW V \in SUBSET EmbVersions, NEW ranks \in [EmbVersions -> Ranks]
  PROVE  /\ V = {} => Newest(V, ranks) = NoEmb
         /\ V # {} => Newest(V, ranks) \in V /\ Newest(V, ranks) # NoEmb
<1>1. Cardinality(EmbVersions) \in Nat
  BY EmbeddingAssumption, FS_CardinalityType
<1>2. CASE V # {}
  <2>1. \E v \in V : \A u \in V : ranks[u] <= ranks[v]
    BY <1>1, <1>2, NewestExists DEF Ranks
  <2>2. Newest(V, ranks) \in V
    BY <1>2, <2>1 DEF Newest
  <2> QED BY <1>2, <2>2, EmbeddingAssumption
<1>3. CASE V = {}
  BY <1>3 DEF Newest
<1> QED BY <1>2, <1>3

LEMMA CurrentVersions ==
  /\ get_active_version = Newest(WithRole("active"), created)
  /\ get_shadow_version = Newest(WithRole("shadow"), created)
BY DEF get_active_version, get_shadow_version, Fetch, WithRole, Newest

LEMMA NextVersions ==
  /\ get_active_version' = Newest(NextWithRole("active"), created')
  /\ get_shadow_version' = Newest(NextWithRole("shadow"), created')
BY DEF get_active_version, get_shadow_version, Fetch, WithRole, Newest, NextWithRole

LEMMA VersionTypes ==
  ASSUME EmbTypeOK
  PROVE  /\ get_active_version \in EmbVersions \cup {NoEmb}
         /\ get_shadow_version \in EmbVersions \cup {NoEmb}
<1>1. /\ WithRole("active") \in SUBSET EmbVersions
      /\ WithRole("shadow") \in SUBSET EmbVersions
      /\ created \in [EmbVersions -> Ranks]
  BY DEF WithRole, EmbTypeOK, Ranks
<1> QED BY <1>1, CurrentVersions, NewestFinds

LEMMA NextLiveType == ASSUME EmbTypeOK' PROVE Live' \subseteq EmbVersions
<1>1. /\ NextWithRole("active") \in SUBSET EmbVersions
      /\ NextWithRole("shadow") \in SUBSET EmbVersions
      /\ created' \in [EmbVersions -> Ranks]
  BY DEF NextWithRole, EmbTypeOK, Ranks
<1>2. Live' = {get_active_version', get_shadow_version'} \ {NoEmb}
  BY DEF Live
<1> QED BY <1>1, <1>2, NextVersions, NewestFinds

\* A new rank is not beyond the number of versions
LEMMA RankIsBounded ==
  ASSUME EmbTypeOK, NEW v \in EmbVersions
  PROVE  CreatedAt(v) \in [EmbVersions -> Ranks]
<1> DEFINE ranked == {u \in EmbVersions : created[u] # 0}
<1>1. CASE created[v] # 0
  BY <1>1 DEF CreatedAt, EmbTypeOK, Ranks
<1>2. CASE created[v] = 0
  <2>1. ranked \in SUBSET (EmbVersions \ {v})
    BY <1>2
  <2>2. /\ IsFiniteSet(EmbVersions \ {v})
        /\ Cardinality(EmbVersions \ {v}) = Cardinality(EmbVersions) - 1
    BY EmbeddingAssumption, FS_RemoveElement
  <2>3. /\ Cardinality(ranked) <= Cardinality(EmbVersions) - 1
        /\ IsFiniteSet(ranked)
    BY <2>1, <2>2, FS_Subset
  <2>4. Cardinality(ranked) \in Nat /\ Cardinality(EmbVersions) \in Nat
    BY <2>3, EmbeddingAssumption, FS_CardinalityType
  <2>5. Cardinality(ranked) + 1 \in Ranks
    BY <2>3, <2>4 DEF Ranks
  <2>6. CreatedAt(v) = [created EXCEPT ![v] = Cardinality(ranked) + 1]
    BY <1>2 DEF CreatedAt
  <2> HIDE DEF ranked
  <2> QED BY <2>5, <2>6 DEF EmbTypeOK, Ranks
<1> QED BY <1>1, <1>2

-----------------------------------------------------------------------------
LEMMA EmbInitInv == EmbInit => EmbInv
<1> SUFFICES ASSUME EmbInit PROVE EmbInv
  OBVIOUS
<1>1. Cardinality(EmbVersions) \in Nat
  BY EmbeddingAssumption, FS_CardinalityType
<1>2. EmbTypeOK /\ HistoryTypeOK
  BY <1>1 DEF EmbInit, EmbTypeOK, HistoryTypeOK
<1>3. WithRole("active") = {} /\ WithRole("shadow") = {}
  BY DEF EmbInit, WithRole
<1>4. Live = {}
  BY <1>3, CurrentVersions DEF Live, Newest
<1> QED BY <1>2, <1>4 DEF EmbInit, EmbInv, WriterInv, LiveVersionHasVector

\* What the registry's changes leave of the history
LEMMA DisturbInv ==
  ASSUME EmbInv, EmbTypeOK', NEW how \in {"registered", "promoted"}, NEW added,
         Live' \subseteq Live \cup added, Disturb(how, added),
         UNCHANGED <<writers, vec>>
  PROVE  EmbInv'
<1>1. Live' \subseteq EmbVersions
  BY NextLiveType
<1>2. /\ during' = [w \in Writers |-> IF wpc[w] = "idle" THEN {} ELSE during[w] \cup {how}]
      /\ missing' = [m \in Movies |-> Live' \cap (missing[m] \cup (added \ vec[m]))]
      /\ raced' = raced /\ wpc' = wpc /\ vec' = vec
  BY DEF Disturb, writers
<1>3. HistoryTypeOK'
  BY <1>1, <1>2 DEF EmbInv, HistoryTypeOK
<1>4. WriterInv'
  BY <1>2 DEF WriterInv
<1>5. LiveVersionHasVector'
  BY <1>2 DEF EmbInv, LiveVersionHasVector
<1> QED BY <1>3, <1>4, <1>5 DEF EmbInv

LEMMA RegisterInv ==
  ASSUME EmbInv, NEW reg \in Registrations, Register(reg[1], reg[2])
  PROVE  EmbInv'
<1>1. reg[1] \in EmbVersions /\ reg[2] \in Roles
  BY EmbeddingAssumption
<1>2. /\ role' = [role EXCEPT ![reg[1]] = reg[2]] /\ created' = CreatedAt(reg[1])
      /\ Disturb("registered", Live' \ Live) /\ UNCHANGED <<writers, evaluation, vec>>
  BY DEF Register
<1>3. created' \in [EmbVersions -> Ranks]
  BY <1>1, <1>2, RankIsBounded DEF EmbInv
<1>4. EmbTypeOK'
  BY <1>1, <1>2, <1>3 DEF EmbInv, EmbTypeOK, Roles, Ranks, writers, evaluation
<1> QED BY <1>2, <1>4, DisturbInv

\* A promotion that does anything leaves no shadow, and for active versions those
\* that were shadows, with their ranks
LEMMA PromotionShifts ==
  ASSUME EmbTypeOK, role' = PromotedRoles, created' = created, role' # role
  PROVE  /\ WithRole("shadow") # {} /\ WithRole("active") # {}
         /\ NextWithRole("active") = WithRole("shadow")
         /\ NextWithRole("shadow") = {}
         /\ Live' \subseteq Live
<1>1. WithRole("shadow") # {} /\ WithRole("active") # {}
  BY DEF PromotedRoles
<1>2. \A v \in EmbVersions : role'[v] = CASE role[v] = "active" -> "retired"
                                         [] role[v] = "shadow" -> "active"
                                         [] OTHER -> role[v]
  BY <1>1 DEF PromotedRoles
<1>3. NextWithRole("active") = WithRole("shadow") /\ NextWithRole("shadow") = {}
  BY <1>2 DEF WithRole, NextWithRole
<1>4. get_active_version' = get_shadow_version /\ get_shadow_version' = NoEmb
  <2>1. Newest({}, created') = NoEmb
    BY DEF Newest
  <2> QED BY <1>3, <2>1, CurrentVersions, NextVersions
<1> QED BY <1>1, <1>3, <1>4 DEF Live

LEMMA PromoteInv ==
  ASSUME EmbInv, NEW o \in Operators, Promote(o)
  PROVE  EmbInv'
<1>1. /\ role' = PromotedRoles /\ UNCHANGED <<created, verdict, writers, vec>>
      /\ IF role' = role THEN UNCHANGED embHistory ELSE Disturb("promoted", {})
  BY DEF Promote
<1>2. \A v \in EmbVersions : role[v] \in Roles \cup {"none"}
  BY DEF EmbInv, EmbTypeOK
<1>3. role' \in [EmbVersions -> Roles \cup {"none"}]
  BY <1>1, <1>2 DEF PromotedRoles, Roles, EmbInv, EmbTypeOK
<1>4. EmbTypeOK'
  BY <1>1, <1>3 DEF EmbInv, EmbTypeOK, writers
<1>5. CASE role' = role
  BY <1>1, <1>4, <1>5 DEF EmbInv, HistoryTypeOK, WriterInv, LiveVersionHasVector, Live,
     get_active_version, get_shadow_version, Fetch, WithRole, embHistory, writers
<1>6. CASE role' # role
  BY <1>1, <1>4, <1>6, PromotionShifts, DisturbInv DEF EmbInv
<1> QED BY <1>5, <1>6

-----------------------------------------------------------------------------
\* The registry stays, and so does what is live
LEMMA LiveKept ==
  ASSUME UNCHANGED registry
  PROVE  /\ Live' = Live /\ get_active_version' = get_active_version
         /\ get_shadow_version' = get_shadow_version
BY DEF registry, Live, get_active_version, get_shadow_version, Fetch, WithRole

LEMMA EvaluateInv ==
  ASSUME EmbInv, NEW o \in Operators, Evaluate(o)
  PROVE  EmbInv'
<1>1. PICK v \in Verdicts(get_shadow_version) : verdict' = [verdict EXCEPT ![o] = v]
  BY DEF Evaluate
<1>2. v \in EmbVersions \cup {NoEmb}
  BY VersionTypes DEF EmbInv, Verdicts
<1>3. UNCHANGED <<registry, writers, embHistory, vec>>
  BY DEF Evaluate
<1>4. EmbTypeOK'
  BY <1>1, <1>2, <1>3 DEF EmbInv, EmbTypeOK, registry, writers
<1> QED BY <1>3, <1>4, LiveKept
        DEF EmbInv, HistoryTypeOK, WriterInv, LiveVersionHasVector, embHistory, writers

LEMMA ReadActiveInv ==
  ASSUME EmbInv, NEW w \in Writers, NEW m \in Movies, ReadActive(w, m)
  PROVE  EmbInv'
<1>1. /\ wpc' = [wpc EXCEPT ![w] = "shadow"] /\ movie' = [movie EXCEPT ![w] = m]
      /\ targets' = [targets EXCEPT ![w] = {get_active_version} \ {NoEmb}]
      /\ UNCHANGED <<registry, evaluation, embHistory, vec>>
  BY DEF ReadActive
<1>2. {get_active_version} \ {NoEmb} \subseteq EmbVersions
  BY VersionTypes DEF EmbInv
<1>3. EmbTypeOK'
  BY <1>1, <1>2 DEF EmbInv, EmbTypeOK, registry, evaluation
<1>4. WriterInv'
  BY <1>1, LiveKept DEF EmbInv, EmbTypeOK, WriterInv, embHistory
<1>5. HistoryTypeOK' /\ LiveVersionHasVector'
  BY <1>1, LiveKept DEF EmbInv, HistoryTypeOK, LiveVersionHasVector, embHistory
<1> QED BY <1>3, <1>4, <1>5 DEF EmbInv

LEMMA ReadShadowInv ==
  ASSUME EmbInv, NEW w \in Writers, ReadShadow(w)
  PROVE  EmbInv'
<1>1. /\ wpc[w] = "shadow" /\ wpc' = [wpc EXCEPT ![w] = "write"]
      /\ targets' = [targets EXCEPT ![w] = @ \cup ({get_shadow_version} \ {NoEmb})]
      /\ UNCHANGED <<registry, evaluation, movie, embHistory, vec>>
  BY DEF ReadShadow
<1>2. {get_shadow_version} \ {NoEmb} \subseteq EmbVersions
  BY VersionTypes DEF EmbInv
<1>3. EmbTypeOK'
  BY <1>1, <1>2 DEF EmbInv, EmbTypeOK, registry, evaluation
<1>4. WriterInv'
  <2>1. during[w] = {} => Live \subseteq targets'[w]
    BY <1>1 DEF EmbInv, EmbTypeOK, WriterInv, Live
  <2> QED BY <1>1, <2>1, LiveKept DEF EmbInv, EmbTypeOK, WriterInv, embHistory
<1>5. HistoryTypeOK' /\ LiveVersionHasVector'
  BY <1>1, LiveKept DEF EmbInv, HistoryTypeOK, LiveVersionHasVector, embHistory
<1> QED BY <1>3, <1>4, <1>5 DEF EmbInv

\* A write that was not disturbed gives the movie's vector to all that is live
LEMMA WriteInv ==
  ASSUME EmbInv, NEW w \in Writers, Write(w)
  PROVE  EmbInv'
<1> DEFINE m == movie[w]
<1>1. /\ wpc[w] = "write" /\ vec' = [vec EXCEPT ![m] = targets[w]]
      /\ missing' = [missing EXCEPT ![m] = {}] /\ raced' = [raced EXCEPT ![m] = during[w]]
      /\ wpc' = [wpc EXCEPT ![w] = "idle"] /\ targets' = [targets EXCEPT ![w] = {}]
      /\ during' = [during EXCEPT ![w] = {}] /\ UNCHANGED <<registry, evaluation, movie>>
  BY DEF Write, Idle
<1>2. m \in Movies /\ targets[w] \subseteq EmbVersions
  BY DEF EmbInv, EmbTypeOK
<1>3. EmbTypeOK'
  BY <1>1, <1>2 DEF EmbInv, EmbTypeOK, registry, evaluation
<1>4. HistoryTypeOK'
  BY <1>1, <1>2 DEF EmbInv, HistoryTypeOK
<1>5. WriterInv'
  BY <1>1, LiveKept DEF EmbInv, EmbTypeOK, HistoryTypeOK, WriterInv
<1>6. LiveVersionHasVector'
  <2>1. during[w] = {} => Live \subseteq targets[w]
    BY <1>1 DEF EmbInv, WriterInv
  <2> HIDE DEF m
  <2> QED BY <1>1, <1>2, <2>1, LiveKept
          DEF EmbInv, EmbTypeOK, HistoryTypeOK, LiveVersionHasVector
<1> QED BY <1>3, <1>4, <1>5, <1>6 DEF EmbInv

LEMMA WriteRaisesInv ==
  ASSUME EmbInv, NEW w \in Writers, WriteRaises(w)
  PROVE  EmbInv'
<1>1. /\ wpc' = [wpc EXCEPT ![w] = "idle"] /\ targets' = [targets EXCEPT ![w] = {}]
      /\ during' = [during EXCEPT ![w] = {}]
      /\ UNCHANGED <<registry, evaluation, movie, vec, missing, raced>>
  BY DEF WriteRaises, Idle
<1>2. EmbTypeOK'
  BY <1>1 DEF EmbInv, EmbTypeOK, registry, evaluation
<1>3. HistoryTypeOK' /\ LiveVersionHasVector'
  BY <1>1, LiveKept DEF EmbInv, HistoryTypeOK, LiveVersionHasVector
<1>4. WriterInv'
  BY <1>1, LiveKept DEF EmbInv, EmbTypeOK, HistoryTypeOK, WriterInv
<1> QED BY <1>2, <1>3, <1>4 DEF EmbInv

LEMMA EmbNextInv == EmbInv /\ [EmbNext]_embVars => EmbInv'
<1> SUFFICES ASSUME EmbInv, [EmbNext]_embVars PROVE EmbInv'
  OBVIOUS
<1>1. CASE UNCHANGED embVars
  <2>1. UNCHANGED <<registry, writers, evaluation, embHistory, vec>>
    BY <1>1 DEF embVars
  <2>2. EmbTypeOK'
    BY <2>1 DEF EmbInv, EmbTypeOK, registry, writers, evaluation
  <2> QED BY <2>1, <2>2, LiveKept
          DEF EmbInv, HistoryTypeOK, WriterInv, LiveVersionHasVector, embHistory, writers
<1>2. CASE \E reg \in Registrations : Register(reg[1], reg[2])
  BY <1>2, RegisterInv
<1>3. CASE \E o \in Operators : Evaluate(o) \/ Promote(o)
  BY <1>3, EvaluateInv, PromoteInv
<1>4. CASE \E w \in Writers : \/ \E m \in Movies : ReadActive(w, m)
                              \/ ReadShadow(w) \/ Write(w) \/ WriteRaises(w)
  BY <1>4, ReadActiveInv, ReadShadowInv, WriteInv, WriteRaisesInv
<1> QED BY <1>1, <1>2, <1>3, <1>4 DEF EmbNext

-----------------------------------------------------------------------------
THEOREM EmbInvariance == EmbSpec => []EmbInv
BY EmbInitInv, EmbNextInv, PTL DEF EmbSpec

\* Type correctness of the registry, the writers and the verdicts.
THEOREM EmbTypeCorrect == EmbSpec => []EmbTypeOK
<1>1. EmbInv => EmbTypeOK
  BY DEF EmbInv
<1> QED BY <1>1, EmbInvariance, PTL

\* Every live version has the movie's latest vector, unless it was registered
\* after that or the registry changed during the write.
THEOREM LiveVersionsHaveVectors == EmbSpec => []LiveVersionHasVector
<1>1. EmbInv => LiveVersionHasVector
  BY DEF EmbInv
<1> QED BY <1>1, EmbInvariance, PTL

\* The active version is only lost by its own registration in another role.
LEMMA ActiveKept ==
  ASSUME EmbInv, EmbInv', [EmbNext]_embVars,
         get_active_version # NoEmb, get_active_version' = NoEmb
  PROVE  \E r \in {"shadow", "retired"} :
           <<get_active_version, r>> \in Registrations /\ Register(get_active_version, r)
<1> DEFINE v == get_active_version
<1>1. v \in EmbVersions /\ role[v] = "active"
  <2>1. WithRole("active") \in SUBSET EmbVersions /\ created \in [EmbVersions -> Ranks]
    BY DEF WithRole, EmbInv, EmbTypeOK, Ranks
  <2>2. v \in WithRole("active")
    BY <2>1, CurrentVersions, NewestFinds
  <2> QED BY <2>2 DEF WithRole
<1> HIDE DEF v
<1>2. NextWithRole("active") = {}
  <2>1. NextWithRole("active") \in SUBSET EmbVersions /\ created' \in [EmbVersions -> Ranks]
    BY DEF NextWithRole, EmbInv, EmbTypeOK, Ranks
  <2> QED BY <2>1, NextVersions, NewestFinds
<1>3. role'[v] # "active"
  BY <1>1, <1>2 DEF NextWithRole
<1>4. CASE \E reg \in Registrations : Register(reg[1], reg[2])
  <2>1. PICK reg \in Registrations : Register(reg[1], reg[2])
    BY <1>4
  <2>2. reg = <<reg[1], reg[2]>> /\ reg[1] \in EmbVersions /\ reg[2] \in Roles
    BY EmbeddingAssumption
  <2>3. role' = [role EXCEPT ![reg[1]] = reg[2]]
    BY <2>1 DEF Register
  <2>4. reg[1] = v /\ reg[2] # "active"
    BY <1>1, <1>3, <2>3 DEF EmbInv, EmbTypeOK
  <2>5. reg[2] \in {"shadow", "retired"}
    BY <2>2, <2>4 DEF Roles
  <2> QED BY <2>1, <2>2, <2>4, <2>5 DEF v
<1>5. CASE \E o \in Operators : Promote(o)
  <2>1. role' = PromotedRoles /\ created' = created
    BY <1>5 DEF Promote
  <2>2. role' # role
    BY <1>1, <1>3
  <2> QED BY <1>2, <2>1, <2>2, PromotionShifts DEF EmbInv
<1>6. UNCHANGED role \/ (\E reg \in Registrations : Register(reg[1], reg[2]))
                     \/ (\E o \in Operators : Promote(o))
  BY DEF EmbNext, embVars, registry, Evaluate, ReadActive, ReadShadow, Write, WriteRaises
<1> QED BY <1>1, <1>3, <1>4, <1>5, <1>6

\* Production never loses its active version to a promotion, but only to a
\* registration of that version in another role.
THEOREM ActiveVersionPersists == EmbSpec => ActivePersists
<1>1. EmbInv /\ EmbInv' /\ [EmbNext]_embVars =>
        [get_active_version # NoEmb /\ get_active_version' = NoEmb =>
           \E r \in {"shadow", "retired"} :
             <<get_active_version, r>> \in Registrations
               /\ Register(get_active_version, r)]_embVars
  BY ActiveKept
<1> QED BY <1>1, EmbInvariance, PTL DEF EmbSpec, ActivePersists
=============================================================================
