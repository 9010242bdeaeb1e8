----------------------- MODULE NetworkSettingsProofs -----------------------
(* Proofs about NetworkSettings, for any networks of the manifest, any     *)
(* VLANs and any order in which the maps are ranged over.                  *)
EXTENDS NetworkSettings, FiniteSetTheorems, TLAPS

-----------------------------------------------------------------------------
(* The least and the greatest of some integers, and small sets.            *)

\* A finite set of integers has a least element: of the sets of those below
\* an element one has no such set inside it.
LEMMA LeastOf ==
  ASSUME NEW S, S \subseteq Int, S # {}, IsFiniteSet(S)
  PROVE  Min(S) \in S /\ \A y \in S : Min(S) <= y
<1> DEFINE below(x) == {y \in S : y < x}
           T == {below(x) : x \in S}
<1>1. T \subseteq FiniteSubsetsOf(S) /\ T # {}
  <2>1. \A x \in S : IsFiniteSet(below(x))
    BY FS_Subset
  <2> QED BY <2>1 DEF FiniteSubsetsOf
<1>2. PICK m \in T : \A t \in T : <<t, m>> \notin StrictSubsetOrdering(S)
  <2> HIDE DEF T
  <2> QED BY <1>1, FS_StrictSubsetOrderingWellFounded, WFMin
<1>3. PICK x \in S : m = below(x)
  OBVIOUS
<1>4. ASSUME NEW y \in S, y < x PROVE FALSE
  <2>1. <<below(y), below(x)>> \notin StrictSubsetOrdering(S)
    BY <1>2, <1>3
  <2>2. below(y) \subseteq below(x) /\ y \in below(x) /\ y \notin below(y)
    <3> HIDE DEF T
    <3>1. x \in Int /\ y \in Int
      OBVIOUS
    <3>2. \A z \in S : z \in Int /\ (z < y => z < x)
      BY <3>1, <1>4
    <3>3. below(y) \subseteq below(x)
      BY <3>2
    <3>4. ~(y < y)
      BY <3>1
    <3> QED BY <3>3, <3>4, <1>4
  <2> QED BY <2>1, <2>2 DEF StrictSubsetOrdering
<1>5. \E z \in S : \A y \in S : z <= y
  BY <1>4
<1> QED BY <1>5 DEF Min

\* And a greatest one.
LEMMA GreatestOf ==
  ASSUME NEW S, S \subseteq Int, S # {}, IsFiniteSet(S)
  PROVE  Max(S) \in S /\ \A y \in S : Max(S) >= y
<1> DEFINE above(x) == {y \in S : y > x}
           T == {above(x) : x \in S}
<1>1. T \subseteq FiniteSubsetsOf(S) /\ T # {}
  <2>1. \A x \in S : IsFiniteSet(above(x))
    BY FS_Subset
  <2> QED BY <2>1 DEF FiniteSubsetsOf
<1>2. PICK m \in T : \A t \in T : <<t, m>> \notin StrictSubsetOrdering(S)
  <2> HIDE DEF T
  <2> QED BY <1>1, FS_StrictSubsetOrderingWellFounded, WFMin
<1>3. PICK x \in S : m = above(x)
  OBVIOUS
<1>4. ASSUME NEW y \in S, y > x PROVE FALSE
  <2>1. <<above(y), above(x)>> \notin StrictSubsetOrdering(S)
    BY <1>2, <1>3
  <2>2. above(y) \subseteq above(x) /\ y \in above(x) /\ y \notin above(y)
    <3> HIDE DEF T
    <3>1. x \in Int /\ y \in Int
      OBVIOUS
    <3>2. \A z \in S : z \in Int /\ (z > y => z > x)
      BY <3>1, <1>4
    <3>3. above(y) \subseteq above(x)
      BY <3>2
    <3>4. ~(y > y)
      BY <3>1
    <3> QED BY <3>3, <3>4, <1>4
  <2> QED BY <2>1, <2>2 DEF StrictSubsetOrdering
<1>5. \E z \in S : \A y \in S : z >= y
  BY <1>4
<1> QED BY <1>5 DEF Max

\* A finite set with not more than one element is empty or a singleton.
LEMMA AtMostOne ==
  ASSUME NEW S, IsFiniteSet(S)
  PROVE  ~(Cardinality(S) > 1) <=> S = {} \/ \E x : S = {x}
<1>1. Cardinality(S) \in Nat
  BY FS_CardinalityType
<1>2. Cardinality(S) = 0 <=> S = {}
  BY FS_EmptySet
<1>3. Cardinality(S) = 1 <=> \E x : S = {x}
  BY FS_Singleton
<1> QED BY <1>1, <1>2, <1>3

-----------------------------------------------------------------------------
(* Types.                                                                  *)

RequestedOK ==
    /\ DOMAIN requested \subseteq Name
    /\ \A n \in DOMAIN requested : requested[n] \in Request

\* What each stage has left behind: the order has a private VLAN, the guest
\* its own, and the settings are the last to be written.
Parsing == {"parse", "panicked", "guest"}
Numbering == {"number", "normalize", "dynamics", "finalize", "configured"}
StageInv ==
    /\ step \in Parsing \cup Numbering => private # None
    /\ step \in Numbering =>
         guest \in [private : PrivateVlan, public : PublicVlan \cup {None}]
    /\ step # "configured" => settings = Empty
    /\ step \in {"components", "parse", "guest", "number"} => index = Empty
    /\ step = "components" => networks = Empty

NetTypeInv == TypeOK /\ RequestedOK /\ StageInv

\* The ids of a network, those of a position, and a network without any.
LEMMA RequestTypes ==
  ASSUME RequestedOK, NEW n \in DOMAIN requested
  PROVE  /\ requested[n].type \in Type
         /\ requested[n].by \in {"vlan", "subnet"}
         /\ requested[n].ids \in Seq(Vlan)
         /\ \A i \in DOMAIN requested[n].ids : requested[n].ids[i] \in Vlan
         /\ DOMAIN requested[n].ids \subseteq 1..MaxIds
         /\ IsFiniteSet(DOMAIN requested[n].ids)
         /\ requested[n].ids # <<>> => 1 \in DOMAIN requested[n].ids
<1>1. requested[n] \in Request
  BY DEF RequestedOK
<1>2. PICK k \in 0..MaxIds : requested[n].ids \in [1..k -> Vlan]
  BY <1>1 DEF Request, Ids
<1>3. k \in Nat /\ MaxIds \in Nat /\ DOMAIN requested[n].ids = 1..k
  BY <1>2, NetworkAssumption
<1>4. IsFiniteSet(1..k)
  BY <1>3, FS_Interval
<1>5. requested[n].ids \in Seq(Vlan)
  BY <1>2, <1>3
<1>6. requested[n].ids # <<>> => 1 \in 1..k
  <2>1. requested[n].ids # <<>> => Len(requested[n].ids) # 0
    BY <1>5
  <2>2. Len(requested[n].ids) = k
    BY <1>2, <1>3, <1>5
  <2> QED BY <2>1, <2>2, <1>3
<1>7. \A i \in DOMAIN requested[n].ids : requested[n].ids[i] \in Vlan
  BY <1>2
<1> QED BY <1>1, <1>3, <1>4, <1>5, <1>6, <1>7 DEF Request

\* Each component of the order is in its space.
LEMMA FirstInSpace ==
  ASSUME RequestedOK, NEW n \in DOMAIN requested,
         NEW space, NEW component,
         component \in {None} \cup [by : {"vlan", "subnet"}, vlan : space]
  PROVE  FirstOf(component, space, n)
           \in {None} \cup [by : {"vlan", "subnet"}, vlan : space]
<1> DEFINE wanted == WantedIn(space, n)
<1>1. CASE component # None \/ wanted = {}
  BY <1>1 DEF FirstOf
<1>2. CASE component = None /\ wanted # {}
  <2>1. /\ wanted \subseteq DOMAIN Wanted(n)
        /\ \A i \in wanted : Wanted(n)[i] \in space
    BY DEF WantedIn
  <2>2. wanted \subseteq Int /\ IsFiniteSet(wanted)
    <3>1. /\ DOMAIN requested[n].ids \subseteq Int
          /\ IsFiniteSet(DOMAIN requested[n].ids)
      BY RequestTypes, NetworkAssumption
    <3>2. DOMAIN Wanted(n) \subseteq DOMAIN requested[n].ids
      BY <1>2, <2>1 DEF Wanted
    <3> QED BY <2>1, <3>1, <3>2, FS_Subset
  <2>3. Min(wanted) \in wanted
    <3> HIDE DEF wanted
    <3> QED BY <1>2, <2>2, LeastOf
  <2>4. requested[n].by \in {"vlan", "subnet"}
    BY RequestTypes
  <2>5. FirstOf(component, space, n)
          = [by |-> requested[n].by, vlan |-> Wanted(n)[Min(wanted)]]
    BY <1>2 DEF FirstOf
  <2> QED BY <2>1, <2>3, <2>4, <2>5
<1> QED BY <1>1, <1>2

\* What the ids of a network are parsed into, and which id a name stems from:
\* of the ids that come to have the same name, the last.
LEMMA ParsedTypes ==
  ASSUME RequestedOK, NEW n \in DOMAIN requested
  PROVE  LET req   == requested[n]
             of(k) == {i \in DOMAIN req.ids : ParsedName(n, i) = k}
         IN  /\ \A i \in DOMAIN req.ids :
                  ParsedName(n, i) \in {n} \cup {Append(n, j) : j \in 1..MaxIds}
             /\ \A k : of(k) # {} => Max(of(k)) \in of(k)
<1> DEFINE req == requested[n]
           of(k) == {i \in DOMAIN req.ids : ParsedName(n, i) = k}
<1>1. /\ DOMAIN req.ids \subseteq 1..MaxIds
      /\ IsFiniteSet(DOMAIN req.ids)
      /\ MaxIds \in Nat
  BY RequestTypes, NetworkAssumption
<1>2. ASSUME NEW i \in DOMAIN req.ids
      PROVE  ParsedName(n, i) \in {n} \cup {Append(n, j) : j \in 1..MaxIds}
  <2>1. CASE IsPublic(n, i) \/ i = 1
    BY <2>1 DEF ParsedName
  <2>2. CASE ~(IsPublic(n, i) \/ i = 1)
    <3>1. i - 1 \in 1..MaxIds
      BY <1>1, <2>2
    <3>2. ParsedName(n, i) = Append(n, i - 1)
      BY <2>2 DEF ParsedName
    <3> QED BY <3>1, <3>2
  <2> QED BY <2>1, <2>2
<1>3. ASSUME NEW k, of(k) # {} PROVE Max(of(k)) \in of(k)
  <2>1. of(k) \subseteq Int /\ IsFiniteSet(of(k))
    BY <1>1, FS_Subset
  <2> HIDE DEF of
  <2> QED BY <1>3, <2>1, GreatestOf
<1> QED BY <1>2, <1>3

\* What the ids of one network leave in the networks.
LEMMA WithParsedTypes ==
  ASSUME TypeOK, RequestedOK, NEW n \in DOMAIN requested
  PROVE  LET new == {ParsedName(n, i) : i \in DOMAIN requested[n].ids}
         IN  /\ DOMAIN WithParsed(n) = DOMAIN networks \cup new
             /\ new \subseteq {n} \cup {Append(n, j) : j \in 1..MaxIds}
             /\ \A k \in DOMAIN networks \ new : WithParsed(n)[k] = networks[k]
             /\ \A k \in new :
                  \E i \in DOMAIN requested[n].ids :
                     /\ ParsedName(n, i) = k
                     /\ requested[n].ids[i] \in Vlan
                     /\ WithParsed(n)[k] =
                          [type |-> requested[n].type,
                           vlan |-> IF requested[n].by = "vlan"
                                    THEN requested[n].ids[i] ELSE None]
<1> DEFINE req == requested[n]
           of(k) == {i \in DOMAIN req.ids : ParsedName(n, i) = k}
           new == {ParsedName(n, i) : i \in DOMAIN req.ids}
<1>1. /\ \A i \in DOMAIN req.ids :
           ParsedName(n, i) \in {n} \cup {Append(n, j) : j \in 1..MaxIds}
      /\ \A k : of(k) # {} => Max(of(k)) \in of(k)
  BY ParsedTypes
<1>2. \A i \in DOMAIN req.ids : req.ids[i] \in Vlan
  BY RequestTypes
<1>3. DOMAIN WithParsed(n) = DOMAIN networks \cup new
  BY DEF WithParsed
<1>4. new \subseteq {n} \cup {Append(n, j) : j \in 1..MaxIds}
  BY <1>1
<1>5. ASSUME NEW k \in DOMAIN networks \ new PROVE WithParsed(n)[k] = networks[k]
  <2>1. of(k) = {}
    BY <1>5
  <2> QED BY <2>1 DEF WithParsed
<1>6. ASSUME NEW k \in new
      PROVE  \E i \in DOMAIN req.ids :
               /\ ParsedName(n, i) = k
               /\ req.ids[i] \in Vlan
               /\ WithParsed(n)[k] =
                    [type |-> req.type,
                     vlan |-> IF req.by = "vlan" THEN req.ids[i] ELSE None]
  <2>1. of(k) # {}
    BY <1>6
  <2>2. Max(of(k)) \in of(k)
    BY <1>1, <2>1
  <2>3. WithParsed(n)[k] =
          [type |-> req.type,
           vlan |-> IF req.by = "vlan" THEN req.ids[Max(of(k))] ELSE None]
    BY <2>1 DEF WithParsed
  <2>4. Max(of(k)) \in DOMAIN req.ids /\ ParsedName(n, Max(of(k))) = k
    BY <2>2
  <2>5. req.ids[Max(of(k))] \in Vlan
    BY <2>4, <1>2
  <2> HIDE DEF of
  <2> QED BY <2>3, <2>4, <2>5
<1>7. /\ \A k \in DOMAIN networks \ new : WithParsed(n)[k] = networks[k]
      /\ \A k \in new :
           \E i \in DOMAIN req.ids :
             /\ ParsedName(n, i) = k
             /\ req.ids[i] \in Vlan
             /\ WithParsed(n)[k] =
                  [type |-> req.type,
                   vlan |-> IF req.by = "vlan" THEN req.ids[i] ELSE None]
  <2> HIDE DEF new, of, req
  <2> QED BY <1>5, <1>6
<1> HIDE DEF of
<1> QED BY <1>3, <1>4, <1>7

LEMMA NetTypeInit == Init => NetTypeInv
<1> SUFFICES ASSUME Init PROVE NetTypeInv
  OBVIOUS
<1>1. RequestedOK
  <2>1. PICK s \in SUBSET Name : requested \in [s -> Request]
    BY DEF Init
  <2> QED BY <2>1 DEF RequestedOK
<1>2. TypeOK
  BY <1>1 DEF Init, RequestedOK, TypeOK, Empty, AnyName
<1> QED BY <1>1, <1>2 DEF Init, NetTypeInv, StageInv, Parsing, Numbering

\* The stage that finds the components of the order.
LEMMA ComponentTypes ==
  ASSUME NetTypeInv,
         \/ \E n \in Name : AddComponents(n)
         \/ LookUpFails \/ ComponentsFound
  PROVE  NetTypeInv'
<1> USE DEF NetTypeInv, StageInv, Parsing, Numbering, Outcomes
<1>1. UNCHANGED <<requested, networks, guest, index, settings>>
  BY DEF AddComponents, LookUpFails, ComponentsFound
<1>2. RequestedOK'
  BY <1>1 DEF RequestedOK
<1>3. /\ unvisited' \subseteq DOMAIN requested'
      /\ step' \in {"components", "twoPrivate", "refused", "parse"}
      /\ step' = "components" => step = "components"
      /\ step' = "parse" => private' # None
  <2>1. ASSUME NEW n \in Name, AddComponents(n) PROVE <1>3!:
    BY <2>1 DEF AddComponents, TypeOK
  <2>2. CASE LookUpFails
    BY <2>2 DEF LookUpFails, TypeOK
  <2>3. CASE ComponentsFound
    BY <2>3 DEF ComponentsFound, TypeOK
  <2> QED BY <2>1, <2>2, <2>3
<1>4. /\ private' \in {None} \cup [by : {"vlan", "subnet"}, vlan : PrivateVlan]
      /\ public' \in {None} \cup [by : {"vlan", "subnet"}, vlan : PublicVlan]
  <2>1. /\ private \in {None} \cup [by : {"vlan", "subnet"}, vlan : PrivateVlan]
        /\ public \in {None} \cup [by : {"vlan", "subnet"}, vlan : PublicVlan]
        /\ RequestedOK /\ unvisited \subseteq DOMAIN requested
    BY DEF TypeOK
  <2>2. ASSUME NEW n \in Name, AddComponents(n) PROVE <1>4!:
    <3>1. n \in DOMAIN requested
      BY <2>1, <2>2 DEF AddComponents
    <3>2. /\ FirstOf(private, PrivateVlan, n)
               \in {None} \cup [by : {"vlan", "subnet"}, vlan : PrivateVlan]
          /\ FirstOf(public, PublicVlan, n)
               \in {None} \cup [by : {"vlan", "subnet"}, vlan : PublicVlan]
      BY <2>1, <3>1, FirstInSpace
    <3>3. \/ UNCHANGED <<private, public>>
          \/ /\ private' = FirstOf(private, PrivateVlan, n)
             /\ public' = FirstOf(public, PublicVlan, n)
      BY <2>2 DEF AddComponents
    <3> QED BY <2>1, <3>2, <3>3
  <2>3. CASE LookUpFails \/ ComponentsFound
    BY <2>1, <2>3 DEF LookUpFails, ComponentsFound
  <2> QED BY <2>2, <2>3
<1>5. step = "components"
  BY DEF AddComponents, LookUpFails, ComponentsFound
<1>6. /\ settings' = Empty /\ index' = Empty
      /\ step' = "components" => networks' = Empty
  BY <1>1, <1>3, <1>5
<1>7. TypeOK'
  <2>1. /\ \A n \in DOMAIN networks : n \in AnyName /\
             networks[n] \in [type : Type \cup {"manual", "dynamic"},
                              vlan : Vlan \cup {None}]
        /\ guest \in {None} \cup [private : PrivateVlan, public : PublicVlan \cup {None}]
        /\ DOMAIN index \subseteq DOMAIN networks
        /\ DOMAIN settings \in {{}, DOMAIN networks}
        /\ DOMAIN requested \subseteq Name
    BY DEF TypeOK
  <2> QED BY <1>1, <1>3, <1>4, <2>1 DEF TypeOK
<1>8. StageInv'
  BY <1>3, <1>6
<1> QED BY <1>2, <1>7, <1>8

\* The stage that parses the networks, and their validation.
LEMMA ParseTypes ==
  ASSUME NetTypeInv, (\E n \in Name : ParseCloudProperties(n)) \/ Validate
  PROVE  NetTypeInv'
<1> USE DEF NetTypeInv, StageInv, Parsing, Numbering, Outcomes
<1>1. /\ UNCHANGED <<requested, private, public, guest, index, settings>>
      /\ step = "parse"
  BY DEF ParseCloudProperties, Validate
<1>2. RequestedOK'
  BY <1>1 DEF RequestedOK
<1>3. /\ unvisited' \subseteq DOMAIN requested'
      /\ step' \in {"parse", "panicked", "refused", "guest"}
  <2>1. ASSUME NEW n \in Name, ParseCloudProperties(n) PROVE <1>3!:
    BY <2>1 DEF ParseCloudProperties, TypeOK
  <2>2. CASE Validate
    BY <2>2 DEF Validate, TypeOK
  <2> QED BY <2>1, <2>2
<1>4. \A k \in DOMAIN networks' : k \in AnyName /\
           networks'[k] \in [type : Type \cup {"manual", "dynamic"},
                             vlan : Vlan \cup {None}]
  <2>1. \A k \in DOMAIN networks : k \in AnyName /\
           networks[k] \in [type : Type \cup {"manual", "dynamic"},
                             vlan : Vlan \cup {None}]
    BY DEF TypeOK
  <2>2. ASSUME NEW n \in Name, ParseCloudProperties(n), networks' = WithParsed(n)
        PROVE  <1>4!:
    <3>1. n \in DOMAIN requested
      BY <2>2 DEF ParseCloudProperties, TypeOK
    <3> DEFINE new == {ParsedName(n, i) : i \in DOMAIN requested[n].ids}
    <3>2. /\ DOMAIN WithParsed(n) = DOMAIN networks \cup new
          /\ new \subseteq {n} \cup {Append(n, j) : j \in 1..MaxIds}
          /\ \A k \in DOMAIN networks \ new : WithParsed(n)[k] = networks[k]
          /\ \A k \in new :
               \E i \in DOMAIN requested[n].ids :
                  /\ ParsedName(n, i) = k
                  /\ requested[n].ids[i] \in Vlan
                  /\ WithParsed(n)[k] =
                       [type |-> requested[n].type,
                        vlan |-> IF requested[n].by = "vlan"
                                 THEN requested[n].ids[i] ELSE None]
      BY <3>1, WithParsedTypes
    <3>3. requested[n].type \in Type
      BY <3>1, RequestTypes
    <3> HIDE DEF new
    <3>4. ASSUME NEW k \in new PROVE k \in AnyName /\
             WithParsed(n)[k] \in [type : Type \cup {"manual", "dynamic"},
                                   vlan : Vlan \cup {None}]
      <4>1. k \in AnyName
        BY <3>2, <3>4 DEF AnyName
      <4>2. PICK i \in DOMAIN requested[n].ids :
                  /\ requested[n].ids[i] \in Vlan
                  /\ WithParsed(n)[k] =
                       [type |-> requested[n].type,
                        vlan |-> IF requested[n].by = "vlan"
                                 THEN requested[n].ids[i] ELSE None]
        BY <3>2, <3>4
      <4> QED BY <3>3, <4>1, <4>2
    <3> QED BY <2>1, <2>2, <3>2, <3>4
  <2>3. CASE networks' = networks
    BY <2>1, <2>3
  <2>4. networks' = networks \/ \E n \in Name : ParseCloudProperties(n) /\ networks' = WithParsed(n)
    BY DEF ParseCloudProperties, Validate
  <2> QED BY <2>2, <2>3, <2>4
<1>5. /\ settings' = Empty /\ index' = Empty /\ private' # None
  BY <1>1
<1>6. TypeOK'
  <2>1. /\ private \in {None} \cup [by : {"vlan", "subnet"}, vlan : PrivateVlan]
        /\ public \in {None} \cup [by : {"vlan", "subnet"}, vlan : PublicVlan]
        /\ guest \in {None} \cup [private : PrivateVlan, public : PublicVlan \cup {None}]
        /\ DOMAIN requested \subseteq Name
    BY DEF TypeOK
  <2>2. DOMAIN index' = {} /\ DOMAIN settings' = {}
    BY <1>5 DEF Empty
  <2> QED BY <1>1, <1>3, <1>4, <2>1, <2>2 DEF TypeOK
<1>7. StageInv'
  BY <1>3, <1>5
<1> QED BY <1>2, <1>6, <1>7

\* The guest is made, its networks are numbered and normalized, and the
\* settings written.
LEMMA ConfigureTypes ==
  ASSUME NetTypeInv,
         \/ MakeGuest \/ NewIndexedNamer
         \/ NormalizeNetworkDefinitions \/ NormalizeDynamics
         \/ FinalizedNetworkDefinitions
  PROVE  NetTypeInv'
<1> USE DEF NetTypeInv, StageInv, Parsing, Numbering, Outcomes
<1>1. /\ UNCHANGED <<requested, private, public, unvisited>>
      /\ step \in {"guest", "number", "normalize", "dynamics", "finalize"}
  BY DEF MakeGuest, NewIndexedNamer, NormalizeNetworkDefinitions, NormalizeDynamics,
         FinalizedNetworkDefinitions
<1>2. RequestedOK'
  BY <1>1 DEF RequestedOK
<1>3. /\ private \in [by : {"vlan", "subnet"}, vlan : PrivateVlan]
      /\ public \in {None} \cup [by : {"vlan", "subnet"}, vlan : PublicVlan]
      /\ guest \in {None} \cup [private : PrivateVlan, public : PublicVlan \cup {None}]
      /\ step # "guest" =>
           guest \in [private : PrivateVlan, public : PublicVlan \cup {None}]
      /\ settings = Empty
      /\ unvisited \subseteq DOMAIN requested /\ DOMAIN requested \subseteq Name
      /\ \A n \in DOMAIN networks : n \in AnyName /\
             networks[n] \in [type : Type \cup {"manual", "dynamic"},
                              vlan : Vlan \cup {None}]
      /\ DOMAIN index \subseteq DOMAIN networks
  BY <1>1 DEF TypeOK
<1>4. DOMAIN Empty = {}
  BY DEF Empty
<1>5. CASE MakeGuest
  <2>1. guest' \in [private : PrivateVlan, public : PublicVlan \cup {None}]
    <3>1. /\ Template.private = private /\ Template.public = public
          /\ Template.privateOnly <=> public = None
      BY DEF Template
    <3>2. private.vlan \in PrivateVlan
      BY <1>3
    <3>3. public # None => public.vlan \in PublicVlan
      BY <1>3
    <3>4. CASE guest' = [private |-> Template.private.vlan,
                         public  |-> IF Template.privateOnly THEN None
                                     ELSE Template.public.vlan]
      <4>1. (IF Template.privateOnly THEN None ELSE Template.public.vlan)
              \in PublicVlan \cup {None}
        BY <3>1, <3>3
      <4> QED BY <3>1, <3>2, <3>4, <4>1
    <3> QED BY <1>5, <3>4 DEF MakeGuest
  <2>3. UNCHANGED <<networks, index, settings>> /\ step' = "number" /\ step = "guest"
    BY <1>5 DEF MakeGuest
  <2>4. index = Empty
    BY <2>3
  <2> QED BY <1>1, <1>2, <1>3, <1>4, <2>1, <2>3, <2>4 DEF TypeOK
<1>6. CASE NewIndexedNamer
  BY <1>1, <1>2, <1>3, <1>4, <1>6 DEF NewIndexedNamer, TypeOK
<1>7. CASE NormalizeNetworkDefinitions
  <2>1. UNCHANGED <<guest, index, settings>> /\ step' \in {"failed", "dynamics"}
    BY <1>7 DEF NormalizeNetworkDefinitions
  <2>2. /\ DOMAIN networks' = DOMAIN networks
        /\ \A n \in DOMAIN networks :
              networks'[n] \in [type : Type \cup {"manual", "dynamic"},
                                vlan : Vlan \cup {None}]
    <3>1. ASSUME NEW n \in DOMAIN networks
          PROVE  [networks[n] EXCEPT !.type = IF @ = "" THEN "manual" ELSE @]
                   \in [type : Type \cup {"manual", "dynamic"}, vlan : Vlan \cup {None}]
      BY <1>3
    <3>2. CASE UNCHANGED networks
      BY <1>3, <3>2
    <3>3. CASE networks' = [n \in DOMAIN networks |->
                  [networks[n] EXCEPT !.type = IF @ = "" THEN "manual" ELSE @]]
      BY <3>1, <3>3
    <3> QED BY <1>7, <3>2, <3>3 DEF NormalizeNetworkDefinitions
  <2>3. step = "normalize"
    BY <1>7 DEF NormalizeNetworkDefinitions
  <2>4. TypeOK'
    BY <1>1, <1>3, <1>4, <2>1, <2>2 DEF TypeOK
  <2>5. StageInv'
    BY <1>1, <1>3, <2>1, <2>3
  <2> QED BY <1>2, <2>4, <2>5
<1>8. CASE NormalizeDynamics
  <2>1. UNCHANGED <<guest, index, settings>> /\ step' \in {"failed", "finalize"}
        /\ step = "dynamics"
    BY <1>8 DEF NormalizeDynamics
  <2>2. /\ DOMAIN networks \subseteq DOMAIN networks'
        /\ \A n \in DOMAIN networks' : n \in AnyName /\
              networks'[n] \in [type : Type \cup {"manual", "dynamic"},
                                vlan : Vlan \cup {None}]
    <3>1. guest \in [private : PrivateVlan, public : PublicVlan \cup {None}]
      BY <1>3, <2>1
    <3>2. {GeneratedPrivate, GeneratedPublic} \subseteq AnyName
      BY DEF AnyName
    <3> QED BY <1>3, <1>8, <3>1, <3>2 DEF NormalizeDynamics, Vlan
  <2> QED BY <1>1, <1>2, <1>3, <1>4, <1>8, <2>1, <2>2 DEF TypeOK
<1>9. CASE FinalizedNetworkDefinitions
  BY <1>1, <1>2, <1>3, <1>4, <1>9 DEF FinalizedNetworkDefinitions, TypeOK
<1> QED BY <1>5, <1>6, <1>7, <1>8, <1>9

LEMMA NetTypeStep == NetTypeInv /\ [Next]_vars => NetTypeInv'
<1>1. ASSUME NetTypeInv, UNCHANGED vars PROVE NetTypeInv'
  BY <1>1 DEF vars, NetTypeInv, TypeOK, RequestedOK, StageInv
<1> QED BY <1>1, ComponentTypes, ParseTypes, ConfigureTypes DEF Next, Ended

\* Each component of the order is on a VLAN of its space, and each network of
\* the guest has a name, a type and a VLAN of its manifest or one of those
\* that NormalizeDynamics makes up.
THEOREM NetTypeCorrect == Spec => []TypeOK
<1>1. NetTypeInv => TypeOK
  BY DEF NetTypeInv
<1> QED BY <1>1, NetTypeInit, NetTypeStep, PTL DEF Spec

-----------------------------------------------------------------------------
(* The interfaces of the guest.                                            *)

\* The generated names are free until NormalizeDynamics takes them.
NameInv ==
    step \notin {"finalize", "configured"} =>
        GeneratedPrivate \notin DOMAIN networks /\ GeneratedPublic \notin DOMAIN networks

\* Every network that is an alias has a number, no two the same.
IndexInv ==
    /\ step \in {"normalize", "dynamics"} => DOMAIN index = DOMAIN networks
    /\ \A m, n \in DOMAIN index : index[m] = index[n] => m = n
    /\ step \in {"finalize", "configured"} =>
         \A n \in DOMAIN networks : networks[n].type = "dynamic" \/ n \in DOMAIN index

\* Every network is on an interface of the guest.
NormalizedInv ==
    step \in {"dynamics", "finalize", "configured"} =>
        \A n \in DOMAIN networks :
            /\ networks[n].vlan \in {guest.private, guest.public} \ {None}
            /\ networks[n].type \in {"dynamic", "manual"}

\* Every interface has one dynamic network.
Interfaces == {"private"} \cup IF guest.public = None THEN {} ELSE {"public"}
DynamicsInv ==
    step \in {"finalize", "configured"} =>
        \A c \in Interfaces : \E x : DynamicOn(c) = {x}

SettingsInv ==
    step = "configured" =>
        \E bound \in SUBSET DOMAIN networks :
            settings = [n \in DOMAIN networks |-> AsRegistryNetwork(n, bound)]

NetInv == NameInv /\ IndexInv /\ NormalizedInv /\ DynamicsInv /\ SettingsInv

\* The interface a VLAN of the guest is on.
LEMMA ComponentOf ==
  ASSUME guest \in [private : PrivateVlan, public : PublicVlan \cup {None}], NEW nw
  PROVE  /\ nw.vlan \in {guest.private, guest.public} \ {None} =>
              /\ Component(nw) \in Interfaces
              /\ Component(nw) = "private" <=> nw.vlan = guest.private
              /\ Component(nw) = "public" <=> nw.vlan = guest.public
         /\ Component(nw) # None => nw.vlan \in {guest.private, guest.public} \ {None}
         /\ guest.private # guest.public /\ guest.private # None
<1>1. guest.private \in PrivateVlan /\ guest.public \in PublicVlan \cup {None}
  OBVIOUS
<1>2. guest.private # guest.public /\ guest.private # None
  BY <1>1, NetworkAssumption DEF Vlan
<1>3. CASE nw.vlan = guest.private
  BY <1>2, <1>3 DEF Component, Interfaces
<1>4. CASE guest.public # None /\ nw.vlan = guest.public
  BY <1>2, <1>4 DEF Component, Interfaces
<1>5. CASE nw.vlan # guest.private /\ ~(guest.public # None /\ nw.vlan = guest.public)
  <2>1. Component(nw) = None
    BY <1>5 DEF Component
  <2> QED BY <1>2, <1>5, <2>1
<1> QED BY <1>3, <1>4, <1>5

\* The networks are finitely many.
LEMMA FiniteNetworks == TypeOK => IsFiniteSet(DOMAIN networks)
<1> SUFFICES ASSUME TypeOK PROVE IsFiniteSet(DOMAIN networks)
  OBVIOUS
<1> DEFINE derived == {Append(n, i) : n \in Name, i \in 1..MaxIds}
           f == [p \in Name \X (1..MaxIds) |-> Append(p[1], p[2])]
<1>1. IsFiniteSet(Name) /\ IsFiniteSet(1..MaxIds)
  BY NetworkAssumption, FS_Interval
<1>2. IsFiniteSet(Name \X (1..MaxIds))
  BY <1>1, FS_Product
<1>3. f \in Surjection(Name \X (1..MaxIds), derived)
  <2>1. f \in [Name \X (1..MaxIds) -> derived]
    OBVIOUS
  <2>2. ASSUME NEW t \in derived
        PROVE  \E p \in Name \X (1..MaxIds) : f[p] = t
    <3>1. PICK n \in Name, i \in 1..MaxIds : t = Append(n, i)
      OBVIOUS
    <3>2. <<n, i>> \in Name \X (1..MaxIds) /\ f[<<n, i>>] = t
      BY <3>1
    <3> QED BY <3>2
  <2> HIDE DEF f, derived
  <2> QED BY <2>1, <2>2 DEF Surjection
<1>4. IsFiniteSet(derived)
  <2> HIDE DEF f, derived
  <2> QED BY <1>2, <1>3, FS_Surjection
<1>5. IsFiniteSet({GeneratedPrivate, GeneratedPublic})
  <2>1. IsFiniteSet({GeneratedPrivate})
    BY FS_Singleton
  <2>2. IsFiniteSet({GeneratedPrivate} \cup {GeneratedPublic})
    BY <2>1, FS_AddElement
  <2>3. {GeneratedPrivate} \cup {GeneratedPublic} = {GeneratedPrivate, GeneratedPublic}
    OBVIOUS
  <2> QED BY <2>2, <2>3
<1>6. IsFiniteSet(AnyName)
  <2> HIDE DEF f, derived
  <2>1. IsFiniteSet(Name \cup derived)
    BY <1>1, <1>4, FS_Union
  <2>2. IsFiniteSet((Name \cup derived) \cup {GeneratedPrivate, GeneratedPublic})
    BY <2>1, <1>5, FS_Union
  <2> QED BY <2>2 DEF AnyName, derived
<1>7. DOMAIN networks \subseteq AnyName
  BY DEF TypeOK
<1> QED BY <1>6, <1>7, FS_Subset


\* Until the guest is configured, only AsInstanceServiceNetworks and
\* NormalizeNetworkDefinitions write to the networks.
LEMMA NetParseStep ==
  ASSUME NetTypeInv, NetInv,
         \/ \E n \in Name : AddComponents(n) \/ ParseCloudProperties(n)
         \/ LookUpFails \/ ComponentsFound \/ Validate \/ MakeGuest
  PROVE  NetInv'
<1>1. /\ UNCHANGED <<index, settings>>
      /\ step \in {"components", "parse", "guest"}
      /\ step' \in {"components", "twoPrivate", "refused", "parse", "panicked",
                    "guest", "number"}
  BY DEF AddComponents, ParseCloudProperties, LookUpFails, ComponentsFound, Validate,
         MakeGuest
<1>2. index = Empty
  BY <1>1 DEF NetTypeInv, StageInv
<1>3. NameInv'
  <2>1. GeneratedPrivate \notin DOMAIN networks /\ GeneratedPublic \notin DOMAIN networks
    BY <1>1 DEF NetInv, NameInv
  <2>2. ASSUME NEW n \in Name, ParseCloudProperties(n), networks' = WithParsed(n)
        PROVE  /\ GeneratedPrivate \notin DOMAIN networks'
               /\ GeneratedPublic \notin DOMAIN networks'
    <3>1. n \in DOMAIN requested
      BY <2>2 DEF ParseCloudProperties, NetTypeInv, TypeOK
    <3>2. DOMAIN networks' \subseteq
            DOMAIN networks \cup {n} \cup {Append(n, j) : j \in 1..MaxIds}
      BY <2>2, <3>1, WithParsedTypes DEF NetTypeInv
    <3>3. {GeneratedPrivate, GeneratedPublic} \cap
            ({n} \cup {Append(n, j) : j \in 1..MaxIds}) = {}
      BY NetworkAssumption
    <3> QED BY <2>1, <3>2, <3>3
  <2>3. networks' = networks
        \/ \E n \in Name : ParseCloudProperties(n) /\ networks' = WithParsed(n)
    BY DEF AddComponents, ParseCloudProperties, LookUpFails, ComponentsFound, Validate,
           MakeGuest
  <2> QED BY <2>1, <2>2, <2>3 DEF NameInv
<1>4. IndexInv'
  BY <1>1, <1>2 DEF IndexInv, Empty
<1> QED BY <1>1, <1>3, <1>4 DEF NetInv, NormalizedInv, DynamicsInv, SettingsInv

\* No two networks get the same number.
LEMMA NetIndexStep ==
  ASSUME NetTypeInv, NetInv, NewIndexedNamer
  PROVE  NetInv'
<1>1. /\ UNCHANGED networks
      /\ step = "number" /\ step' = "normalize"
      /\ DOMAIN index' = DOMAIN networks
      /\ \A m, n \in DOMAIN networks : index'[m] = index'[n] => m = n
  BY DEF NewIndexedNamer
<1> QED BY <1>1 DEF NetInv, NameInv, IndexInv, NormalizedInv, DynamicsInv, SettingsInv

\* Normalized networks are on the VLANs of the guest.
LEMMA NetNormalizeStep ==
  ASSUME NetTypeInv, NetInv, NormalizeNetworkDefinitions
  PROVE  NetInv'
<1>1. /\ UNCHANGED <<guest, index>> /\ step = "normalize"
      /\ step' \in {"failed", "dynamics"}
  BY DEF NormalizeNetworkDefinitions
<1>2. guest \in [private : PrivateVlan, public : PublicVlan \cup {None}]
  BY <1>1 DEF NetTypeInv, StageInv, Numbering
<1>3. DOMAIN networks' = DOMAIN networks
  BY DEF NormalizeNetworkDefinitions
<1>4. NameInv' /\ IndexInv'
  BY <1>1, <1>3 DEF NetInv, NameInv, IndexInv
<1>5. ASSUME step' = "dynamics", NEW n \in DOMAIN networks
      PROVE  /\ networks'[n].vlan \in {guest.private, guest.public} \ {None}
             /\ networks'[n].type \in {"dynamic", "manual"}
  <2>1. /\ Component(networks[n]) # None
        /\ networks[n].type \in {"dynamic", "manual", ""}
    BY <1>1, <1>5 DEF NormalizeNetworkDefinitions
  <2>2. networks'[n] = [networks[n] EXCEPT !.type = IF @ = "" THEN "manual" ELSE @]
    BY <1>1, <1>5 DEF NormalizeNetworkDefinitions
  <2>3. networks[n] \in [type : Type \cup {"manual", "dynamic"}, vlan : Vlan \cup {None}]
    BY DEF NetTypeInv, TypeOK
  <2>4. networks'[n].vlan = networks[n].vlan /\ networks'[n].type \in {"dynamic", "manual"}
    BY <2>1, <2>2, <2>3
  <2>5. networks[n].vlan \in {guest.private, guest.public} \ {None}
    BY <2>1, <1>2, ComponentOf
  <2> QED BY <2>4, <2>5
<1>6. NormalizedInv'
  BY <1>1, <1>3, <1>5 DEF NormalizedInv
<1> QED BY <1>1, <1>4, <1>6 DEF NetInv, DynamicsInv, SettingsInv


\* NormalizeDynamics gives every interface that has no dynamic network one,
\* and refuses an interface that has two.
LEMMA NetDynamicsStep ==
  ASSUME NetTypeInv, NetInv, NormalizeDynamics
  PROVE  NetInv'
<1> DEFINE generated ==
             (IF DynamicOn("private") = {} THEN {GeneratedPrivate} ELSE {}) \cup
             (IF DynamicOn("public") = {} /\ guest.public # None
              THEN {GeneratedPublic} ELSE {})
<1>1. /\ UNCHANGED <<guest, index>> /\ step = "dynamics"
      /\ step' \in {"failed", "finalize"}
  BY DEF NormalizeDynamics
<1>2. guest \in [private : PrivateVlan, public : PublicVlan \cup {None}]
  BY <1>1 DEF NetTypeInv, StageInv, Numbering
<1>3. /\ GeneratedPrivate \notin DOMAIN networks
      /\ GeneratedPublic \notin DOMAIN networks
      /\ GeneratedPrivate # GeneratedPublic
  BY <1>1 DEF NetInv, NameInv, GeneratedPrivate, GeneratedPublic
<1>4. CASE step' = "failed"
  <2>1. UNCHANGED networks
    BY <1>4 DEF NormalizeDynamics
  <2> QED BY <1>1, <1>4, <2>1
          DEF NetInv, NameInv, IndexInv, NormalizedInv, DynamicsInv, SettingsInv
<1>5. CASE step' = "finalize"
  <2>1. /\ DOMAIN networks' = DOMAIN networks \cup generated
        /\ \A n \in DOMAIN networks : networks'[n] = networks[n]
        /\ GeneratedPrivate \in generated =>
             networks'[GeneratedPrivate] = [type |-> "dynamic", vlan |-> guest.private]
        /\ GeneratedPublic \in generated =>
             networks'[GeneratedPublic] = [type |-> "dynamic", vlan |-> guest.public]
    <3>1. networks' = [n \in DOMAIN networks \cup generated |->
                     IF n = GeneratedPrivate THEN [type |-> "dynamic", vlan |-> guest.private]
                     ELSE IF n = GeneratedPublic THEN [type |-> "dynamic", vlan |-> guest.public]
                     ELSE networks[n]]
      BY <1>1, <1>5 DEF NormalizeDynamics
    <3> HIDE DEF generated
    <3> QED BY <3>1, <1>3
  <2>2. /\ GeneratedPrivate \in generated <=> DynamicOn("private") = {}
        /\ GeneratedPublic \in generated <=>
             DynamicOn("public") = {} /\ guest.public # None
        /\ generated \subseteq {GeneratedPrivate, GeneratedPublic}
    BY <1>3
  <2>3. ~(Cardinality(DynamicOn("private")) > 1) /\ ~(Cardinality(DynamicOn("public")) > 1)
    BY <1>1, <1>5 DEF NormalizeDynamics
  <2>4. /\ DynamicOn("private") = {} \/ \E x : DynamicOn("private") = {x}
        /\ DynamicOn("public") = {} \/ \E x : DynamicOn("public") = {x}
    <3>1. IsFiniteSet(DOMAIN networks)
      BY FiniteNetworks DEF NetTypeInv
    <3>2. IsFiniteSet(DynamicOn("private")) /\ IsFiniteSet(DynamicOn("public"))
      BY <3>1, FS_Subset DEF DynamicOn
    <3> QED BY <2>3, <3>2, AtMostOne
  <2> HIDE DEF generated
  <2>5. \A n \in DOMAIN networks :
           /\ networks[n].vlan \in {guest.private, guest.public} \ {None}
           /\ networks[n].type \in {"dynamic", "manual"}
    BY <1>1 DEF NetInv, NormalizedInv
  <2>6. NormalizedInv'
    <3>1. guest.private # None
      BY <1>2, ComponentOf
    <3> QED BY <1>1, <2>1, <2>2, <2>5, <3>1 DEF NormalizedInv
  <2>7. \A n \in DOMAIN networks : Component(networks[n])' = Component(networks[n])
    BY <1>1, <2>1 DEF Component
  <2>8. GeneratedPrivate \in generated => Component(networks[GeneratedPrivate])' = "private"
    <3>1. guest.private # guest.public
      BY <1>2, ComponentOf
    <3> QED BY <1>1, <2>1, <2>2, <3>1 DEF Component
  <2>9. GeneratedPublic \in generated => Component(networks[GeneratedPublic])' = "public"
    <3>1. guest.private # guest.public
      BY <1>2, ComponentOf
    <3> QED BY <1>1, <2>1, <2>2, <3>1 DEF Component
  <2>10. \E x : DynamicOn("private")' = {x}
    <3>1. CASE DynamicOn("private") = {}
      <4>1. DynamicOn("private")' = {GeneratedPrivate}
        BY <3>1, <2>1, <2>2, <2>7, <2>8, <2>9, <1>3 DEF DynamicOn
      <4> QED BY <4>1
    <3>2. CASE DynamicOn("private") # {}
      <4>1. DynamicOn("private")' = DynamicOn("private")
        BY <3>2, <2>1, <2>2, <2>7, <2>9, <1>3 DEF DynamicOn
      <4> QED BY <4>1, <3>2, <2>4
    <3> QED BY <3>1, <3>2
  <2>11. ASSUME guest.public # None PROVE \E x : DynamicOn("public")' = {x}
    <3>1. CASE DynamicOn("public") = {}
      <4>1. DynamicOn("public")' = {GeneratedPublic}
        BY <2>11, <3>1, <2>1, <2>2, <2>7, <2>8, <2>9, <1>3 DEF DynamicOn
      <4> QED BY <4>1
    <3>2. CASE DynamicOn("public") # {}
      <4>1. DynamicOn("public")' = DynamicOn("public")
        BY <3>2, <2>1, <2>2, <2>7, <2>8, <1>3 DEF DynamicOn
      <4> QED BY <4>1, <3>2, <2>4
    <3> QED BY <3>1, <3>2
  <2>12. DynamicsInv'
    BY <1>1, <2>10, <2>11 DEF DynamicsInv, Interfaces
  <2>13. IndexInv'
    <3>1. DOMAIN index = DOMAIN networks
          /\ \A m, n \in DOMAIN index : index[m] = index[n] => m = n
      BY <1>1 DEF NetInv, IndexInv
    <3>2. \A n \in generated : networks'[n].type = "dynamic"
      BY <2>1, <2>2
    <3> QED BY <1>1, <1>5, <2>1, <3>1, <3>2 DEF IndexInv
  <2> QED BY <1>5, <2>6, <2>12, <2>13 DEF NetInv, NameInv, SettingsInv
<1> QED BY <1>1, <1>4, <1>5

LEMMA NetFinalizeStep ==
  ASSUME NetTypeInv, NetInv, FinalizedNetworkDefinitions
  PROVE  NetInv'
<1>1. UNCHANGED <<networks, guest, index>> /\ step = "finalize" /\ step' = "configured"
  BY DEF FinalizedNetworkDefinitions
<1>2. PICK bound \in SUBSET DOMAIN networks :
        settings' = [n \in DOMAIN networks |-> AsRegistryNetwork(n, bound)]
  BY DEF FinalizedNetworkDefinitions
<1>3. \A n \in DOMAIN networks : Component(networks[n])' = Component(networks[n])
  BY <1>1 DEF Component
<1>4. \A n \in DOMAIN networks : AsRegistryNetwork(n, bound)' = AsRegistryNetwork(n, bound)
  BY <1>1, <1>3 DEF AsRegistryNetwork, Alias, Gateway
<1>5. SettingsInv'
  BY <1>1, <1>2, <1>4 DEF SettingsInv
<1>6. \A c \in Interfaces : DynamicOn(c)' = DynamicOn(c)
  BY <1>1, <1>3 DEF DynamicOn
<1>7. DynamicsInv'
  BY <1>1, <1>6 DEF NetInv, DynamicsInv, Interfaces
<1> QED BY <1>1, <1>5, <1>7 DEF NetInv, NameInv, IndexInv, NormalizedInv


LEMMA NetInvariant == Spec => [](NetTypeInv /\ NetInv)
<1>1. Init => NetInv
  BY DEF Init, NetInv, NameInv, IndexInv, NormalizedInv, DynamicsInv, SettingsInv, Empty
<1>2. NetTypeInv /\ NetInv /\ [Next]_vars => NetInv'
  <2>1. ASSUME NetTypeInv, NetInv, UNCHANGED vars PROVE NetInv'
    <3>1. UNCHANGED <<step, networks, guest, index, settings>>
      BY <2>1 DEF vars
    <3>2. NameInv' /\ IndexInv' /\ NormalizedInv'
      BY <2>1, <3>1 DEF NetInv, NameInv, IndexInv, NormalizedInv
    <3>3. \A n \in DOMAIN networks : Component(networks[n])' = Component(networks[n])
      BY <3>1 DEF Component
    <3>4. DynamicsInv'
      <4>1. \A c : DynamicOn(c)' = DynamicOn(c)
        BY <3>1, <3>3 DEF DynamicOn
      <4> QED BY <2>1, <3>1, <4>1 DEF NetInv, DynamicsInv, Interfaces
    <3>5. \A bound \in SUBSET DOMAIN networks, n \in DOMAIN networks :
             AsRegistryNetwork(n, bound)' = AsRegistryNetwork(n, bound)
      BY <3>1, <3>3 DEF AsRegistryNetwork, Alias, Gateway
    <3>6. SettingsInv'
      BY <2>1, <3>1, <3>5 DEF NetInv, SettingsInv
    <3> QED BY <3>2, <3>4, <3>6 DEF NetInv
  <2> QED BY <2>1, NetParseStep, NetIndexStep, NetNormalizeStep, NetDynamicsStep,
             NetFinalizeStep DEF Next, Ended
<1> QED BY <1>1, <1>2, NetTypeInit, NetTypeStep, PTL DEF Spec

\* What the settings say of a network of a configured guest.
LEMMA SettingsOf ==
  ASSUME NetTypeInv, NetInv, step = "configured"
  PROVE  /\ guest \in [private : PrivateVlan, public : PublicVlan \cup {None}]
         /\ DOMAIN settings = DOMAIN networks
         /\ \A n \in DOMAIN networks :
              /\ settings[n].type = networks[n].type
              /\ settings[n].component = Component(networks[n])
              /\ settings[n].alias = Alias(n)
              /\ settings[n].gateway =>
                   networks[n].type = "dynamic" /\ Component(networks[n]) = "public"
         /\ \A n \in DOMAIN networks :
              /\ networks[n].type \in {"dynamic", "manual"}
              /\ Component(networks[n]) \in Interfaces
<1>1. guest \in [private : PrivateVlan, public : PublicVlan \cup {None}]
  BY DEF NetTypeInv, StageInv, Numbering
<1>2. PICK bound \in SUBSET DOMAIN networks :
        settings = [n \in DOMAIN networks |-> AsRegistryNetwork(n, bound)]
  BY DEF NetInv, SettingsInv
<1>3. ASSUME NEW n \in DOMAIN networks
      PROVE  /\ networks[n].type \in {"dynamic", "manual"}
             /\ Component(networks[n]) \in Interfaces
  BY <1>1, ComponentOf DEF NetInv, NormalizedInv
<1>4. ASSUME NEW n \in DOMAIN networks
      PROVE  /\ settings[n].type = networks[n].type
             /\ settings[n].component = Component(networks[n])
             /\ settings[n].alias = Alias(n)
             /\ settings[n].gateway =>
                  networks[n].type = "dynamic" /\ Component(networks[n]) = "public"
  <2>1. settings[n] = AsRegistryNetwork(n, bound)
    BY <1>2
  <2>2. /\ settings[n].type = networks[n].type
        /\ settings[n].component = Component(networks[n])
        /\ settings[n].alias = Alias(n)
    BY <2>1 DEF AsRegistryNetwork
  <2>3. settings[n].gateway = Gateway(n, bound)
    BY <2>1 DEF AsRegistryNetwork
  <2>4. settings[n].gateway =>
          networks[n].type = "dynamic" /\ Component(networks[n]) = "public"
    BY <2>3 DEF Gateway
  <2> QED BY <2>2, <2>4
<1> QED BY <1>1, <1>2, <1>3, <1>4

\* Every interface of a configured guest has exactly one dynamic network:
\* NormalizeDynamics adds the one that is missing, and a second one fails
\* create_vm.
THEOREM EveryInterfaceIsConfigured == Spec => []InterfacesConfigured
<1>1. NetTypeInv /\ NetInv => InterfacesConfigured
  <2> SUFFICES ASSUME NetTypeInv, NetInv, step = "configured", NEW c \in Interfaces
               PROVE  Cardinality({n \in DOMAIN settings :
                         settings[n].component = c /\ settings[n].type = "dynamic"}) = 1
    BY DEF InterfacesConfigured, Interfaces
  <2>1. {n \in DOMAIN settings :
            settings[n].component = c /\ settings[n].type = "dynamic"} = DynamicOn(c)
    BY SettingsOf DEF DynamicOn
  <2>2. \E x : DynamicOn(c) = {x}
    BY DEF NetInv, DynamicsInv
  <2> QED BY <2>1, <2>2, FS_Singleton
<1> QED BY <1>1, NetInvariant, PTL

\* No two networks of a guest configure the same interface alias: a dynamic
\* network is alone on its interface, and the others have numbers.
THEOREM EveryAliasIsOwn == Spec => []AliasesDistinct
<1>1. NetTypeInv /\ NetInv => AliasesDistinct
  <2> SUFFICES ASSUME NetTypeInv, NetInv,
                      NEW m \in DOMAIN settings, NEW n \in DOMAIN settings,
                      settings[m].alias = settings[n].alias
               PROVE  m = n
    BY DEF AliasesDistinct
  <2>1. step = "configured"
    BY DEF NetTypeInv, StageInv, Empty
  <2>2. /\ m \in DOMAIN networks /\ n \in DOMAIN networks
        /\ Alias(m) = Alias(n)
        /\ networks[m].type \in {"dynamic", "manual"}
        /\ networks[n].type \in {"dynamic", "manual"}
        /\ Component(networks[m]) \in Interfaces
    BY <2>1, SettingsOf
  <2>3. CASE networks[m].type = "dynamic" /\ networks[n].type = "dynamic"
    <3>1. Component(networks[m]) = Component(networks[n])
      BY <2>2, <2>3 DEF Alias
    <3>2. PICK x : DynamicOn(Component(networks[m])) = {x}
      BY <2>1, <2>2 DEF NetInv, DynamicsInv
    <3>3. m \in {x} /\ n \in {x}
      BY <2>2, <2>3, <3>1, <3>2 DEF DynamicOn
    <3> QED BY <3>3
  <2>4. CASE networks[m].type = "manual" /\ networks[n].type = "manual"
    <3>1. index[m] = index[n]
      BY <2>2, <2>4 DEF Alias
    <3>2. m \in DOMAIN index /\ n \in DOMAIN index
      BY <2>1, <2>2, <2>4 DEF NetInv, IndexInv
    <3> QED BY <3>1, <3>2 DEF NetInv, IndexInv
  <2>5. CASE networks[m].type # networks[n].type
    <3>1. Len(Alias(m)) # Len(Alias(n))
      BY <2>2, <2>5 DEF Alias
    <3> QED BY <2>2, <3>1
  <2> QED BY <2>2, <2>3, <2>4, <2>5
<1> QED BY <1>1, NetInvariant, PTL

\* A guest has at most one default gateway: only a dynamic network on the
\* public interface keeps its gateway, and there is at most one.
THEOREM OneDefaultGateway == Spec => []OneGateway
<1>1. NetTypeInv /\ NetInv => OneGateway
  <2> SUFFICES ASSUME NetTypeInv, NetInv PROVE OneGateway
    OBVIOUS
  <2> DEFINE gateways == {n \in DOMAIN settings : settings[n].gateway}
  <2>1. CASE step # "configured"
    <3>1. gateways = {}
      BY <2>1 DEF NetTypeInv, StageInv, Empty
    <3> QED BY <3>1, FS_EmptySet DEF OneGateway
  <2>2. CASE step = "configured"
    <3>1. gateways \subseteq DynamicOn("public")
      BY <2>2, SettingsOf DEF DynamicOn
    <3>2. \A n \in DynamicOn("public") : "public" \in Interfaces
      <4>1. \A n \in DynamicOn("public") : Component(networks[n]) \in Interfaces
        BY <2>2, SettingsOf DEF DynamicOn
      <4> QED BY <4>1 DEF DynamicOn
    <3>3. DynamicOn("public") = {} \/ \E x : DynamicOn("public") = {x}
      BY <2>2, <3>2 DEF NetInv, DynamicsInv
    <3>4. gateways = {} \/ \E x : gateways = {x}
      <4> HIDE DEF gateways
      <4> QED BY <3>1, <3>3
    <3>5. Cardinality(gateways) = 0 \/ Cardinality(gateways) = 1
      <4> HIDE DEF gateways
      <4> QED BY <3>4, FS_EmptySet, FS_Singleton
    <3> QED BY <3>5 DEF OneGateway
  <2> QED BY <2>1, <2>2
<1> QED BY <1>1, NetInvariant, PTL


-----------------------------------------------------------------------------
(* The networks of the manifest.                                           *)

Normal(type) == IF type = "" THEN "manual" ELSE type

\* A network that lists VLANs is among the networks under its own name, with
\* this type, and on one of its VLANs; one that lists subnets is on none.
KeptAs(n, type) ==
    requested[n].ids # <<>> =>
        /\ n \in DOMAIN networks
        /\ networks[n].type = type
        /\ \/ networks[n].vlan = None
           \/ \E i \in DOMAIN requested[n].ids : requested[n].ids[i] = networks[n].vlan

\* From when a network is parsed on, and normalized from when they all are.
KeptInv ==
    /\ step = "parse" => \A n \in DOMAIN requested \ unvisited : KeptAs(n, requested[n].type)
    /\ step \in {"guest", "number", "normalize"} =>
         \A n \in DOMAIN requested : KeptAs(n, requested[n].type)
    /\ step \in {"dynamics", "finalize", "configured"} =>
         \A n \in DOMAIN requested : KeptAs(n, Normal(requested[n].type))

\* The ids of one network leave an entry under its name, and leave alone that
\* of every other network of the manifest.
LEMMA ParsedKept ==
  ASSUME NetTypeInv, NEW n \in DOMAIN requested, networks' = WithParsed(n),
         UNCHANGED requested
  PROVE  /\ KeptAs(n, requested[n].type)'
         /\ \A m \in DOMAIN requested \ {n} :
              KeptAs(m, requested[m].type) => KeptAs(m, requested[m].type)'
<1> DEFINE new == {ParsedName(n, i) : i \in DOMAIN requested[n].ids}
<1>1. /\ DOMAIN WithParsed(n) = DOMAIN networks \cup new
      /\ new \subseteq {n} \cup {Append(n, j) : j \in 1..MaxIds}
      /\ \A k \in DOMAIN networks \ new : WithParsed(n)[k] = networks[k]
      /\ \A k \in new :
           \E i \in DOMAIN requested[n].ids :
              /\ ParsedName(n, i) = k
              /\ requested[n].ids[i] \in Vlan
              /\ WithParsed(n)[k] =
                   [type |-> requested[n].type,
                    vlan |-> IF requested[n].by = "vlan"
                             THEN requested[n].ids[i] ELSE None]
  BY WithParsedTypes DEF NetTypeInv
<1>2. DOMAIN requested \subseteq Name
  BY DEF NetTypeInv, TypeOK
<1>3. KeptAs(n, requested[n].type)'
  <2> SUFFICES ASSUME requested[n].ids # <<>>
               PROVE  /\ n \in DOMAIN networks'
                      /\ networks'[n].type = requested[n].type
                      /\ \/ networks'[n].vlan = None
                         \/ \E i \in DOMAIN requested[n].ids :
                              requested[n].ids[i] = networks'[n].vlan
    BY DEF KeptAs
  <2>1. 1 \in DOMAIN requested[n].ids
    BY RequestTypes DEF NetTypeInv
  <2>2. ParsedName(n, 1) = n
    BY DEF ParsedName
  <2>3. n \in new
    BY <2>1, <2>2
  <2> HIDE DEF new
  <2>4. PICK i \in DOMAIN requested[n].ids :
          WithParsed(n)[n] = [type |-> requested[n].type,
                              vlan |-> IF requested[n].by = "vlan"
                                       THEN requested[n].ids[i] ELSE None]
    BY <1>1, <2>3
  <2>5. n \in DOMAIN networks'
    BY <1>1, <2>3
  <2>6. networks'[n].type = requested[n].type
    BY <2>4
  <2>7. networks'[n].vlan = None \/ networks'[n].vlan = requested[n].ids[i]
    BY <2>4
  <2> QED BY <2>5, <2>6, <2>7
<1>4. ASSUME NEW m \in DOMAIN requested \ {n}, KeptAs(m, requested[m].type)
      PROVE  KeptAs(m, requested[m].type)'
  <2>1. m \notin new
    <3>1. m \in Name /\ n \in Name /\ m # n
      BY <1>2
    <3>2. \A j \in 1..MaxIds : m # Append(n, j)
      BY <3>1, NetworkAssumption
    <3> HIDE DEF new
    <3> QED BY <1>1, <3>1, <3>2
  <2> HIDE DEF new
  <2>2. m \in DOMAIN networks =>
          m \in DOMAIN networks' /\ networks'[m] = networks[m]
    BY <1>1, <2>1
  <2> QED BY <1>4, <2>2 DEF KeptAs
<1> QED BY <1>3, <1>4

LEMMA KeptStep ==
  ASSUME NetTypeInv, NetInv, KeptInv, [Next]_vars
  PROVE  KeptInv'
<1> USE DEF KeptInv
<1>1. ASSUME NEW n \in Name, AddComponents(n) PROVE KeptInv'
  BY <1>1 DEF AddComponents
<1>2. CASE LookUpFails \/ ComponentsFound
  BY <1>2 DEF LookUpFails, ComponentsFound
<1>3. ASSUME NEW n \in Name, ParseCloudProperties(n) PROVE KeptInv'
  <2>1. /\ step = "parse" /\ step' \in {"parse", "panicked"}
        /\ n \in DOMAIN requested /\ UNCHANGED requested
        /\ unvisited' = unvisited \ {n}
        /\ step' = "parse" => networks' = WithParsed(n)
    BY <1>3 DEF ParseCloudProperties, NetTypeInv, TypeOK
  <2>2. CASE step' = "parse"
    <3>1. /\ KeptAs(n, requested[n].type)'
          /\ \A m \in DOMAIN requested \ {n} :
               KeptAs(m, requested[m].type) => KeptAs(m, requested[m].type)'
      BY <2>1, <2>2, ParsedKept
    <3>2. \A m \in (DOMAIN requested \ unvisited)' : KeptAs(m, requested[m].type)'
      BY <2>1, <3>1
    <3> QED BY <2>1, <2>2, <3>2
  <2> QED BY <2>1, <2>2
<1>4. CASE Validate
  <2>1. UNCHANGED <<requested, networks>> /\ step = "parse" /\ unvisited = {}
        /\ step' \in {"refused", "guest"}
    BY <1>4 DEF Validate
  <2> QED BY <2>1 DEF KeptAs
<1>5. CASE MakeGuest \/ NewIndexedNamer
  <2>1. UNCHANGED <<requested, networks>> /\ step \in {"guest", "number"}
        /\ step' \in {"number", "normalize"}
    BY <1>5 DEF MakeGuest, NewIndexedNamer
  <2> QED BY <2>1 DEF KeptAs
<1>6. CASE NormalizeNetworkDefinitions
  <2>1. UNCHANGED requested /\ step = "normalize" /\ step' \in {"failed", "dynamics"}
    BY <1>6 DEF NormalizeNetworkDefinitions
  <2>2. ASSUME NEW n \in DOMAIN requested, step' = "dynamics"
        PROVE  KeptAs(n, Normal(requested[n].type))'
    <3>1. KeptAs(n, requested[n].type)
      BY <2>1
    <3>2. DOMAIN networks' = DOMAIN networks
      BY <1>6 DEF NormalizeNetworkDefinitions
    <3>3. ASSUME n \in DOMAIN networks
          PROVE  /\ networks'[n].vlan = networks[n].vlan
                 /\ networks'[n].type = Normal(networks[n].type)
      <4>1. networks[n] \in [type : Type \cup {"manual", "dynamic"}, vlan : Vlan \cup {None}]
        BY <3>3 DEF NetTypeInv, TypeOK
      <4>2. networks'[n] = [networks[n] EXCEPT !.type = IF @ = "" THEN "manual" ELSE @]
        BY <1>6, <2>1, <2>2, <3>3 DEF NormalizeNetworkDefinitions
      <4> QED BY <4>1, <4>2 DEF Normal
    <3> QED BY <2>1, <3>1, <3>2, <3>3 DEF KeptAs
  <2> QED BY <2>1, <2>2
<1>7. CASE NormalizeDynamics
  <2>1. UNCHANGED requested /\ step = "dynamics" /\ step' \in {"failed", "finalize"}
    BY <1>7 DEF NormalizeDynamics
  <2>2. ASSUME NEW n \in DOMAIN requested PROVE KeptAs(n, Normal(requested[n].type))'
    <3>1. KeptAs(n, Normal(requested[n].type))
      BY <2>1
    <3>2. n \notin {GeneratedPrivate, GeneratedPublic}
      BY NetworkAssumption DEF NetTypeInv, TypeOK
    <3>3. n \in DOMAIN networks => n \in DOMAIN networks' /\ networks'[n] = networks[n]
      BY <1>7, <3>2 DEF NormalizeDynamics
    <3> QED BY <2>1, <3>1, <3>3 DEF KeptAs
  <2> QED BY <2>1, <2>2
<1>8. CASE FinalizedNetworkDefinitions
  <2>1. UNCHANGED <<requested, networks>> /\ step = "finalize" /\ step' = "configured"
    BY <1>8 DEF FinalizedNetworkDefinitions
  <2> QED BY <2>1 DEF KeptAs
<1>9. CASE UNCHANGED vars
  BY <1>9 DEF vars, KeptAs
<1> HIDE DEF KeptInv
<1> QED BY <1>1, <1>2, <1>3, <1>4, <1>5, <1>6, <1>7, <1>8, <1>9 DEF Next, Ended

\* A network of the manifest that names a VLAN keeps its name, its type and a
\* VLAN it named: no other network is parsed into its name, and one that names
\* subnets fails ConfigureNetworks.
THEOREM RequestsAreKept == Spec => []RequestedNetworksKept
<1>1. Init => KeptInv
  BY DEF Init, KeptInv
<1>2. NetTypeInv /\ NetInv /\ KeptInv => RequestedNetworksKept
  <2> SUFFICES ASSUME NetTypeInv, NetInv, KeptInv, step = "configured",
                      NEW n \in DOMAIN requested, requested[n].ids # <<>>
               PROVE  /\ n \in DOMAIN settings
                      /\ settings[n].type = Normal(requested[n].type)
                      /\ \E i \in DOMAIN requested[n].ids :
                           requested[n].ids[i] = networks[n].vlan
    BY DEF RequestedNetworksKept, Normal
  <2>1. KeptAs(n, Normal(requested[n].type))
    BY DEF KeptInv
  <2>2. n \in DOMAIN networks
    BY <2>1 DEF KeptAs
  <2>3. n \in DOMAIN settings /\ settings[n].type = networks[n].type
    BY <2>2, SettingsOf
  <2>4. networks[n].vlan # None
    BY <2>2 DEF NetInv, NormalizedInv
  <2> QED BY <2>1, <2>3, <2>4 DEF KeptAs
<1> QED BY <1>1, <1>2, KeptStep, NetInvariant, PTL DEF Spec
=============================================================================
