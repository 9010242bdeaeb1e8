------------------------ MODULE MCGuestTransactions -------------------------
(* Small instances of GuestTransactions for TLC.                           *)
EXTENDS GuestTransactions, TLC

MCPolls == [s \in {"userData", "idle", "idleToCancel", "begun", "readyHalf", "ready", "reloadOS",
                    "completed", "awaitVolume", "authorize", "deauthorize"} |->
               IF s = "readyHalf" THEN 2 ELSE 1]

MCMayFail == {"createObject", "userData", "reloadOS", "edit", "delete", "ready", "begun", "idle",
              "idleToCancel", "upgrade", "placeVolume", "snapshot", "authorize", "readAllowed"}

Req(op) == [op |-> op]
Disk(size, local) == [op |-> "disk", size |-> size, local |-> local]
Config(cpu, memory, private) ==
    [op |-> "config", cpu |-> cpu, memory |-> memory, private |-> private, dedicated |-> FALSE]
Volume(size, iops, space) == [op |-> "volume", size |-> size, iops |-> iops, space |-> space]

Create == [op |-> "create", image |-> "i1"]
Reload == [op |-> "reload", image |-> "i2"]

MCPlans ==
    {<<Create, Reload>>, <<Reload, [Reload EXCEPT !.image = "i3"]>>, <<Reload, Req("cancel")>>,
     <<Req("cancel"), Reload>>, <<Disk(26, TRUE), Reload>>, <<Req("edit"), Disk(100, FALSE)>>,
     <<Req("authorize"), Req("deauthorize")>>, <<Req("deauthorize"), Req("snapshot")>>,
     <<Config(2, 2048, FALSE), Config(0, 1536, FALSE)>>, <<Config(4, 512, TRUE)>>,
     <<Volume(20480, 100, 0), Volume(20481, 100, 0)>>, <<Volume(256000, 0, 0)>>,
     <<Volume(20481, 100, 5)>>, <<Volume(90000, 200, 0)>>, <<Volume(20480000, 300, 0)>>}

Price == [id |-> 0, group |-> None, cats |-> {}, capacity |-> 0, lo |-> 0, hi |-> 99999,
          type |-> "STORAGE_SPACE", attribute |-> 0, private |-> FALSE, public |-> TRUE,
          dedicated |-> FALSE, local |-> TRUE]
Of(n, category, capacity) == [Price EXCEPT !.id = n, !.cats = {category}, !.capacity = capacity]
Item(capacity, prices) ==
    [capacity |-> capacity, category |-> None, lo |-> None, hi |-> None, keyed |-> FALSE,
     prices |-> prices]
Ranged(category, lo, hi, prices) ==
    [Item(hi, prices) EXCEPT !.category = category, !.lo = lo, !.hi = hi, !.keyed = TRUE]

Upgrade == <<
    Of(1, "guest_disk1", 100), Of(2, "guest_disk1", 25), Of(3, "guest_disk1", 300),
    [Of(4, "guest_disk1", 100) EXCEPT !.local = FALSE], Of(5, "guest_disk1", 100),
    [Of(6, "guest_core", 2) EXCEPT !.private = TRUE], Of(7, "guest_core", 2),
    [Of(8, "guest_core", 4) EXCEPT !.private = TRUE], Of(9, "guest_core", 2),
    [Of(10, "ram", 2) EXCEPT !.dedicated = TRUE], Of(11, "ram", 2), Of(12, "ram", 1)>>

Space(n, size) == <<[Of(n, "performance_storage_space", size) EXCEPT !.group = 42],
                    Of(n + 1, "performance_storage_space", size)>>
Performance == <<
    Item(0, <<Of(21, "performance_storage_iscsi", 0)>>),
    Item(20, Space(22, 20)), Item(40, Space(24, 40)), Item(250, Space(26, 250)),
    Item(100, Space(28, 100) \o
              <<[Of(30, "performance_storage_iops", 100) EXCEPT !.hi = 20],
                [Of(31, "performance_storage_iops", 100) EXCEPT !.hi = 80]>>),
    Item(200, <<[Of(32, "performance_storage_iops", 200) EXCEPT !.hi = 80, !.attribute = 1000],
                [Of(33, "performance_storage_iops", 200) EXCEPT !.lo = 81, !.hi = Garbled]>>),
    Item(4000, <<[Of(34, "performance_storage_iops", 4000) EXCEPT !.attribute = 1000]>>),
    Item(6000, <<[Of(35, "performance_storage_iops", 6000) EXCEPT !.attribute = 1000, !.group = 7]>>),
    Item(12000, Space(36, 12000)),
    Item(300, <<[Of(38, "performance_storage_iops", 300) EXCEPT !.hi = 12000]>>)>>

SaaS == <<
    Item(0, <<Of(41, "storage_as_a_service", 0), Of(42, "storage_block", 0)>>),
    Ranged("performance_storage_space", 500, 999, <<Of(43, "performance_storage_space", 999)>>),
    Ranged("performance_storage_space", 1, 499, Space(44, 499)),
    Ranged("performance_storage_iops", 100, 1000,
           <<[Of(46, "performance_storage_iops", 1000) EXCEPT !.hi = 39],
             [Of(47, "performance_storage_iops", 1000) EXCEPT !.lo = 40, !.hi = 79]>>),
    Item(5, <<[Of(48, "storage_snapshot_space", 5) EXCEPT !.type = "IOPS", !.hi = 100]>>)>>

\* The second one lists less, and an iops range that cannot be read.
MCCatalogues == {
    [upgrade |-> Upgrade, performance |-> Performance, saas |-> SaaS],
    [upgrade |-> SubSeq(Upgrade, 1, 6), performance |-> SubSeq(Performance, 1, 3),
     saas |-> [SaaS EXCEPT ![4].lo = Garbled]]}
=============================================================================
