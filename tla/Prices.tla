------------------------------- MODULE Prices -------------------------------
(***************************************************************************)
(* What an order for a volume or for an upgrade is made of.  A package is a*)
(* sequence of items, an item carries a sequence of prices, and the code   *)
(* takes the first price that fits, in the order of the catalogue.         *)
(***************************************************************************)
EXTENDS Integers, SequencesExt

CONSTANTS
    None,
    Garbled     \* a capacity that strconv.Atoi does not read

NoPrice == [id |-> 0]

\* A price is found at a place, its item and its number among the prices of
\* that item; number 0 is the item itself, whose range is read first, and
\* stands for an error.  The first place decides the search.
Places(package) == UNION {{i} \X DOMAIN package[i].prices : i \in DOMAIN package}
At(package, place) == package[place[1]].prices[place[2]]
FirstOf(package, places) ==
    LET i == Min({h[1] : h \in places})
        j == Min({h[2] : h \in {g \in places : g[1] = i}})
    IN  IF places = {} \/ j = 0 THEN NoPrice ELSE At(package, <<i, j>>)

\* Prices of a location group are passed over.
Standard(price, category)  == price.group = None /\ category \in price.cats
Listed(package, category)  == {h \in Places(package) : Standard(At(package, h), category)}
Sized(package, places, n)  == {h \in places : package[h[1]].capacity = n}
Within(n, lo, hi)          == lo <= n /\ n <= hi

-----------------------------------------------------------------------------
(* The performance package (snapshot space not asked for).                 *)

FindPerformancePrice(package, category) == FirstOf(package, Listed(package, category))

FindPerformanceSpacePrice(package, size) ==
    FirstOf(package, Sized(package, Listed(package, "performance_storage_space"), size))

\* Restricted prices: the first one that admits n, or whose restriction
\* cannot be read, which ends the search in an error.  The upper bound is
\* read in any case, or only once the lower one admits n.
Unreadable(p, n, read) == p.lo = Garbled \/ (p.hi = Garbled /\ (read = "both" \/ p.lo <= n))
Admitting(package, places, types, n, read) ==
    LET Fits(p)  == \/ Unreadable(p, n, read)
                    \/ p.hi # Garbled /\ p.type \in types /\ Within(n, p.lo, p.hi)
        p == FirstOf(package, {h \in places : h[2] = 0 \/ Fits(At(package, h))})
    IN  IF p = NoPrice \/ Unreadable(p, n, read) THEN NoPrice ELSE p

RestrictionTypes == {"STORAGE_SPACE", "IOPS"}

FindPerformanceIOPSPrice(package, size, iops) ==
    Admitting(package, Sized(package, Listed(package, "performance_storage_iops"), iops),
              RestrictionTypes, size, "minFirst")

\* iops not given: the prices SoftLayer lists for the size, the one of the
\* largest capacity; sort.Sort leaves equal ones in any order.
SizeAttribute(size) == IF size \in {250, 500} THEN 1000 ELSE size
ItemPrices(package, size) ==
    {p \in {At(package, h) : h \in Places(package)} :
        p.attribute = size /\ "performance_storage_iops" \in p.cats}
SelectMaximumIops(package, size) ==
    LET candidates == {p \in ItemPrices(package, SizeAttribute(size)) : p.group = None}
        largest    == {p \in candidates : \A q \in candidates : q.capacity <= p.capacity}
    IN  IF candidates = {} THEN {NoPrice} ELSE largest

-----------------------------------------------------------------------------
(* The storage as a service package.                                       *)

FindSaaSPriceByCategory(package, category) == FirstOf(package, Listed(package, category))

\* The prices of a category whose item has a range that admits n; a range
\* that cannot be read is an error.
InRange(package, category, n) ==
    LET ranged == {i \in DOMAIN package : /\ package[i].category = category
                                          /\ None \notin {package[i].lo, package[i].hi}}
        unread == {i \in ranged : Garbled \in {package[i].lo, package[i].hi}}
    IN  unread \X {0} \cup
        {h \in Listed(package, category) :
            h[1] \in ranged \ unread /\ Within(n, package[h[1]].lo, package[h[1]].hi)}

FindSaaSPerformSpacePrice(package, size) ==
    FirstOf(package, {h \in InRange(package, "performance_storage_space", size) :
                         h[2] = 0 \/ package[h[1]].keyed})

FindSaaSPerformIopsPrice(package, size, iops) ==
    Admitting(package, InRange(package, "performance_storage_iops", iops),
              {"STORAGE_SPACE"}, size, "both")

FindSaaSSnapshotSpacePrice(package, space, iops) ==
    Admitting(package, Sized(package, Listed(package, "storage_snapshot_space"), space),
              {"IOPS"}, iops, "both")

-----------------------------------------------------------------------------
(* A volume: the size of create_disk in megabytes becomes the next size on *)
(* the list, in gigabytes, and the largest one when there is none.         *)

SizeArray == {20, 40, 80, 100, 250, 500, 1000, 2000, 4000, 8000, 12000}
Gigabytes(mb) == (mb + 1023) \div 1024    \* math.Ceil
Enough(mb)    == {s \in SizeArray : Gigabytes(mb) <= s}
Truncated(mb) == {s \in SizeArray : mb \div 1024 <= s}
GetSoftLayerDiskSizeTruncated(mb) ==    \* rounded down
    IF Truncated(mb) = {} THEN 12000 ELSE Min(Truncated(mb))
GetSoftLayerDiskSize(mb) ==
    IF Enough(mb) = {} THEN 12000 ELSE Min(Enough(mb))

\* The prices of the order, in the order they are looked up: every choice
\* the code may make.
OrderBlockVolume(package, size, iops) ==
    {<<FindPerformancePrice(package, "performance_storage_iscsi"),
       FindPerformanceSpacePrice(package, size), p>> :
        p \in IF iops = 0 THEN SelectMaximumIops(package, size)
              ELSE {FindPerformanceIOPSPrice(package, size, iops)}}

\* The maximum is looked up in the performance package here too.
OrderBlockVolume2(performance, saas, size, iops, space) ==
    {<<FindSaaSPriceByCategory(saas, "storage_as_a_service"),
       FindSaaSPriceByCategory(saas, "storage_block"),
       FindSaaSPerformSpacePrice(saas, size), p,
       FindSaaSSnapshotSpacePrice(saas, space, iops)>> :
        p \in IF iops = 0 THEN SelectMaximumIops(performance, size)
              ELSE {FindSaaSPerformIopsPrice(saas, size, iops)}}

CreateVolumePrices(performance, saas, size, iops, space) ==
    IF space = 0 THEN OrderBlockVolume(performance, size, iops)
    ELSE OrderBlockVolume2(performance, saas, size, iops, space)

Complete(prices) == \A i \in DOMAIN prices : prices[i] # NoPrice

-----------------------------------------------------------------------------
(* An upgrade of a guest.  Options map categories to capacities; the price *)
(* of an option is the first one of its category and capacity that is of   *)
(* the right kind, and an option without one is passed over.               *)

UpgradeOptions(cpu, memory, network) ==
    [c \in {c \in {"guest_core", "ram", "port_speed"} :
              CASE c = "guest_core" -> cpu # 0 [] c = "ram" -> memory # 0 [] OTHER -> network # 0} |->
        CASE c = "guest_core" -> cpu [] c = "ram" -> memory \div 1024 [] OTHER -> network]

RightKind(p, category, privateCPU, dedicated) ==
    CASE category = "guest_core" -> p.private = privateCPU /\ p.dedicated = dedicated
      [] category = "port_speed" -> p.public /\ p.dedicated = dedicated
      [] category = "ram" -> p.dedicated = dedicated

Offers(prices, category, capacity, privateCPU, dedicated) ==
    {i \in DOMAIN prices : /\ category \in prices[i].cats /\ prices[i].capacity = capacity
                           /\ RightKind(prices[i], category, privateCPU, dedicated)}

SelectProductPrices(prices, options, privateCPU, dedicated) ==
    LET Offered(c) == Offers(prices, c, options[c], privateCPU, dedicated)
    IN  [c \in {c \in DOMAIN options : Offered(c) # {}} |-> prices[Min(Offered(c))]]

\* The smallest disk that is large enough, of the guest's kind; of equal
\* ones the last.
SecondDisks(prices, size, local) ==
    {i \in DOMAIN prices : /\ "guest_disk1" \in prices[i].cats
                           /\ prices[i].local = local /\ prices[i].capacity >= size}
UpgradeItemPriceForSecondDisk(prices, size, local) ==
    LET disks    == SecondDisks(prices, size, local)
        smallest == Min({prices[i].capacity : i \in disks})
    IN  IF disks = {} THEN NoPrice ELSE prices[Max({i \in disks : prices[i].capacity = smallest})]
=============================================================================
