-------------------------- MODULE NetworkSettings --------------------------
(***************************************************************************)
(* The networks of create_vm: from the manifest to the VLANs of the order  *)
(* (create_vm.go), to one network per VLAN (action/networks.go), to the    *)
(* settings of the guest's interfaces (softlayer_ubuntu_net_manager.go).   *)
(* Each stage ranges over a Go map, so each takes the networks in any      *)
(* order.                                                                  *)
(*                                                                         *)
(* A name is a sequence: "a_1" is <<"a", 1>>.  A subnet is named by its    *)
(* VLAN.                                                                   *)
(***************************************************************************)
EXTENDS Integers, Sequences, FiniteSets, FiniteSetsExt

CONSTANTS
    Name,           \* names of networks in the manifest
    Type,           \* their types, "vip" and unknown ones included
    PrivateVlan, PublicVlan,
    MaxIds,         \* bound on the vlan_ids (or subnet_ids) of a network
    None

Vlan == PrivateVlan \cup PublicVlan
GeneratedPrivate == <<"generated", "private">>
GeneratedPublic  == <<"generated", "public">>

\* No name of the manifest is that of another with a number behind it, and no
\* network has a name that NormalizeDynamics makes up.
ASSUME NetworkAssumption ==
    /\ IsFiniteSet(Name) /\ MaxIds \in Nat
    /\ \A n, m \in Name, i \in 1..MaxIds : m # Append(n, i)
    /\ {GeneratedPrivate, GeneratedPublic} \cap
         (Name \cup {Append(n, i) : n \in Name, i \in 1..MaxIds}) = {}
    /\ PrivateVlan \cap PublicVlan = {} /\ None \notin Vlan

VARIABLES
    requested,  \* the networks of the manifest
    step,       \* the stage, or its outcome
    unvisited,  \* the networks a range has not come to yet
    private, public,    \* the network components of the order
    networks,   \* instanceNetworks
    guest,      \* the VLANs of the guest that was made or reloaded
    index,      \* indices of the LinkNamer
    settings    \* what the agent gets

vars == <<requested, step, unvisited, private, public, networks, guest, index, settings>>

Ids == UNION {[1..k -> Vlan] : k \in 0..MaxIds}
Request == [type : Type, by : {"vlan", "subnet"}, ids : Ids]
Empty == [n \in {} |-> None]

Init ==
    /\ requested \in UNION {[s -> Request] : s \in SUBSET Name}
    /\ step = "components" /\ unvisited = DOMAIN requested
    /\ private = None /\ public = None
    /\ networks = Empty /\ guest = None /\ index = Empty /\ settings = Empty

-----------------------------------------------------------------------------
(* getNetworkComponents.                                                   *)

Wanted(n) == IF requested[n].type = "manual" THEN <<>> ELSE requested[n].ids
WantedIn(space, n) == {i \in DOMAIN Wanted(n) : Wanted(n)[i] \in space}

\* The first component of a space is taken.  A second private one is always
\* another: its id is compared as a pointer.  The public one is compared
\* with itself.
SecondPrivate(n) ==
    LET wanted == WantedIn(PrivateVlan, n)
    IN  Cardinality(wanted) > 1 \/ (wanted # {} /\ private # None)
FirstOf(component, space, n) ==
    LET wanted == WantedIn(space, n)
    IN  IF component # None \/ wanted = {} THEN component
        ELSE [by |-> requested[n].by, vlan |-> Wanted(n)[Min(wanted)]]

AddComponents(n) ==
    /\ step = "components" /\ n \in unvisited /\ unvisited' = unvisited \ {n}
    /\ IF SecondPrivate(n) THEN step' = "twoPrivate" /\ UNCHANGED <<private, public>>
       ELSE /\ private' = FirstOf(private, PrivateVlan, n)
            /\ public' = FirstOf(public, PublicVlan, n)
            /\ UNCHANGED step
    /\ UNCHANGED <<requested, networks, guest, index, settings>>

\* GetVlan or GetSubnet fails, or finds nothing.
LookUpFails ==
    /\ step = "components" /\ \E n \in unvisited : Wanted(n) # <<>>
    /\ step' = "refused"
    /\ UNCHANGED <<requested, unvisited, private, public, networks, guest, index, settings>>

\* "A private network is required."
ComponentsFound ==
    /\ step = "components" /\ unvisited = {}
    /\ step' = IF private = None THEN "refused" ELSE "parse"
    /\ unvisited' = DOMAIN requested
    /\ UNCHANGED <<requested, private, public, networks, guest, index, settings>>

-----------------------------------------------------------------------------
(* AsInstanceServiceNetworks.                                              *)

\* The public VLAN of the order has an id only if it was given by its id, and
\* then no primary subnet to compare a subnet with.
PublicHasId == public # None /\ public.by = "vlan"
IsPublic(n, i) ==
    /\ PublicHasId /\ requested[n].by = "vlan" /\ requested[n].ids[i] = public.vlan
    /\ requested[n].type # "manual"

ParsedNameFromOne(n, i) ==    \* index + 1
    IF IsPublic(n, i) THEN n ELSE Append(n, i)
ParsedName(n, i) == IF IsPublic(n, i) \/ i = 1 THEN n ELSE Append(n, i - 1)

\* An id writes over what an earlier one wrote under its name.
WithParsed(n) ==
    LET req   == requested[n]
        of(k) == {i \in DOMAIN req.ids : ParsedName(n, i) = k}
    IN  [k \in DOMAIN networks \cup {ParsedName(n, i) : i \in DOMAIN req.ids} |->
           IF of(k) = {} THEN networks[k]
           ELSE [type |-> req.type,
                 vlan |-> IF req.by = "vlan" THEN req.ids[Max(of(k))] ELSE None]]

ParseCloudProperties(n) ==
    /\ step = "parse" /\ n \in unvisited /\ unvisited' = unvisited \ {n}
    /\ IF requested[n].by = "subnet" /\ requested[n].ids # <<>> /\ PublicHasId
       THEN step' = "panicked" /\ UNCHANGED networks
       ELSE networks' = WithParsed(n) /\ UNCHANGED step
    /\ UNCHANGED <<requested, private, public, guest, index, settings>>

\* Validate: "Network type 'vip' not supported".
Supported(nw) == nw.type # "vip"
Validate ==
    /\ step = "parse" /\ unvisited = {}
    /\ step' = IF \E n \in DOMAIN networks : ~Supported(networks[n])
               THEN "refused" ELSE "guest"
    /\ UNCHANGED <<requested, unvisited, private, public, networks, guest, index, settings>>

-----------------------------------------------------------------------------
(* ConfigureNetworks, once the guest is there.                             *)

\* createVirtualGuestTemplate: the components of the order, and no public one
\* for a guest of the private network only.
Template == [privateOnly |-> public = None, public |-> public, private |-> private]

\* SoftLayer puts an ordered guest on the VLANs of the order; a reloaded one
\* stays where it is.
MakeGuest ==
    /\ step = "guest" /\ step' = "number"
    /\ \/ guest' = [private |-> Template.private.vlan,
                    public  |-> IF Template.privateOnly THEN None ELSE Template.public.vlan]
       \/ guest' \in [private : PrivateVlan, public : PublicVlan \cup {None}]
    /\ UNCHANGED <<requested, unvisited, private, public, networks, index, settings>>

\* NewIndexedNamer numbers the networks in the order of the range.
NewConstantNamer ==    \* no index++
    /\ step = "number" /\ step' = "normalize"
    /\ index' = [n \in DOMAIN networks |-> 0]
    /\ UNCHANGED <<requested, unvisited, private, public, networks, guest, settings>>
NewIndexedNamer ==
    /\ step = "number" /\ step' = "normalize"
    /\ index' \in {f \in [DOMAIN networks -> 0..Cardinality(DOMAIN networks) - 1] :
                     \A m, n \in DOMAIN networks : f[m] = f[n] => m = n}
    /\ UNCHANGED <<requested, unvisited, private, public, networks, guest, settings>>

\* ComponentByNetworkName.
Component(nw) ==
    CASE nw.vlan = guest.private -> "private"
      [] guest.public # None /\ nw.vlan = guest.public -> "public"
      [] OTHER -> None

NormalizeNetworkDefinitions ==
    /\ step = "normalize"
    /\ IF \E n \in DOMAIN networks : \/ Component(networks[n]) = None
                                     \/ networks[n].type \notin {"dynamic", "manual", ""}
       THEN step' = "failed" /\ UNCHANGED networks
       ELSE /\ step' = "dynamics"
            /\ networks' = [n \in DOMAIN networks |->
                  [networks[n] EXCEPT !.type = IF @ = "" THEN "manual" ELSE @]]
    /\ UNCHANGED <<requested, unvisited, private, public, guest, index, settings>>

\* A network of either kind counts.
AnyOn(component) == {n \in DOMAIN networks : Component(networks[n]) = component}
DynamicOn(component) ==
    {n \in DOMAIN networks : networks[n].type = "dynamic" /\ Component(networks[n]) = component}

\* An interface without a dynamic network gets one.
NormalizeDynamics ==
    /\ step = "dynamics"
    /\ LET generated ==
             (IF DynamicOn("private") = {} THEN {GeneratedPrivate} ELSE {}) \cup
             (IF DynamicOn("public") = {} /\ guest.public # None THEN {GeneratedPublic} ELSE {})
       IN  IF Cardinality(DynamicOn("private")) > 1 \/ Cardinality(DynamicOn("public")) > 1
           THEN step' = "failed" /\ UNCHANGED networks
           ELSE /\ step' = "finalize"
                /\ networks' = [n \in DOMAIN networks \cup generated |->
                     IF n = GeneratedPrivate THEN [type |-> "dynamic", vlan |-> guest.private]
                     ELSE IF n = GeneratedPublic THEN [type |-> "dynamic", vlan |-> guest.public]
                     ELSE networks[n]]
    /\ UNCHANGED <<requested, unvisited, private, public, guest, index, settings>>

\* A manual network is an alias of its interface.
Alias(n) ==
    IF networks[n].type = "dynamic" THEN <<Component(networks[n])>>
    ELSE <<Component(networks[n]), index[n]>>

\* Of the networks whose address the component has as a primary one ("bound"),
\* only the dynamic public one keeps its gateway; the private ones get routes.
\* The director gives a dynamic network no gateway of its own.
GatewayOfEach(n, bound) ==
    n \in bound /\ networks[n].type = "dynamic"
Gateway(n, bound) ==
    n \in bound /\ networks[n].type = "dynamic" /\ Component(networks[n]) = "public"

\* AsRegistryNetworks copies each network to the settings.
AsRegistryNetwork(n, bound) ==
    [type |-> networks[n].type, component |-> Component(networks[n]),
     alias |-> Alias(n), gateway |-> Gateway(n, bound)]

FinalizedNetworkDefinitions ==
    /\ step = "finalize" /\ step' = "configured"
    /\ \E bound \in SUBSET DOMAIN networks :
         settings' = [n \in DOMAIN networks |-> AsRegistryNetwork(n, bound)]
    /\ UNCHANGED <<requested, unvisited, private, public, networks, guest, index>>

Outcomes == {"refused", "twoPrivate", "panicked", "failed", "configured"}
Ended == step \in Outcomes /\ UNCHANGED vars

Next ==
    \/ \E n \in Name : AddComponents(n) \/ ParseCloudProperties(n)
    \/ LookUpFails \/ ComponentsFound \/ Validate \/ MakeGuest \/ NewIndexedNamer
    \/ NormalizeNetworkDefinitions \/ NormalizeDynamics \/ FinalizedNetworkDefinitions
    \/ Ended

Spec == Init /\ [][Next]_vars

-----------------------------------------------------------------------------
(* Properties.                                                             *)

\* Types of all variables; a component of the order is in its space.
AnyName == Name \cup {Append(n, i) : n \in Name, i \in 1..MaxIds}
                \cup {GeneratedPrivate, GeneratedPublic}
TypeOK ==
    /\ step \in {"components", "parse", "guest", "number", "normalize", "dynamics",
                 "finalize"} \cup Outcomes
    /\ unvisited \subseteq DOMAIN requested /\ DOMAIN requested \subseteq Name
    /\ private \in {None} \cup [by : {"vlan", "subnet"}, vlan : PrivateVlan]
    /\ public \in {None} \cup [by : {"vlan", "subnet"}, vlan : PublicVlan]
    /\ \A n \in DOMAIN networks :
          n \in AnyName /\ networks[n] \in [type : Type \cup {"manual", "dynamic"},
                                          vlan : Vlan \cup {None}]
    /\ guest \in {None} \cup [private : PrivateVlan, public : PublicVlan \cup {None}]
    /\ DOMAIN index \subseteq DOMAIN networks
    /\ DOMAIN settings \in {{}, DOMAIN networks}

\* Every interface of a configured guest has exactly one dynamic network,
\* whichever networks the manifest put on it and in whichever order the maps
\* were ranged over.
InterfacesConfigured ==
    step = "configured" =>
        \A c \in {"private"} \cup IF guest.public = None THEN {} ELSE {"public"} :
            Cardinality({n \in DOMAIN settings : /\ settings[n].component = c
                                                 /\ settings[n].type = "dynamic"}) = 1

\* No two networks of a guest configure the same interface alias.
AliasesDistinct ==
    \A m, n \in DOMAIN settings : settings[m].alias = settings[n].alias => m = n

\* A guest has at most one default gateway.
OneGateway == Cardinality({n \in DOMAIN settings : settings[n].gateway}) <= 1

\* A network of the manifest that names a VLAN keeps its name, its type and a
\* VLAN it named, although its ids are spread over several names.
RequestedNetworksKept ==
    step = "configured" =>
        \A n \in DOMAIN requested : requested[n].ids # <<>> =>
            /\ n \in DOMAIN settings
            /\ settings[n].type = IF requested[n].type = "" THEN "manual"
                                  ELSE requested[n].type
            /\ \E i \in DOMAIN requested[n].ids : requested[n].ids[i] = networks[n].vlan
=============================================================================
