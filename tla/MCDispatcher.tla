---------------------------- MODULE MCDispatcher ----------------------------
\* Model values, and what a process may be given: every action with a good
\* request, and each way in which a request or the configuration can be bad.
EXTENDS Dispatcher

CONSTANTS c1, c2, g1, g2, d1, d2, d3, p1, p2, p3, i1

Where == [g \in {g1} |-> "dal"]
First == {<<p1, d1>>}

Given(method, with) ==
    [config |-> "valid", form |-> "whole", method |-> method, args |-> with]
Cid(x)    == Arg("number", x)
Object(x) == Arg("object", x)
Size      == Arg("number", 20)
Path      == Arg("string", "/image")

\* Calls that others running at the same time may disturb.
Sharing ==
    {Given("has_vm", <<Cid(g1)>>), Given("delete_disk", <<Cid(d1)>>),
     Given("snapshot_disk", <<Cid(d1), Object("tags")>>),
     Given("delete_snapshot", <<Cid(p1)>>),
     Given("create_disk", <<Size, Object("wdc"), Cid(g1)>>)}

Other ==
    {Given("reboot_vm", <<Arg("digits", g1)>>), Given("get_disks", <<Cid(g1)>>),
     Given("set_vm_metadata", <<Cid(g1), Object("tags")>>), Given("has_disk", <<Cid(d1)>>),
     Given("set_disk_metadata", <<Cid(d1), Object("tags")>>),
     Given("create_disk", <<Size, Object("wdc"), Cid(0)>>),
     Given("has_vm", <<Cid(g2)>>),
     Given("create_stemcell", <<Path, Object(i1)>>),
     Given("create_stemcell", <<Path, Object("no image")>>),
     Given("create_stemcell", <<Path, Object("raw")>>),
     Given("create_vm", <<Path, Cid(i1), Object("tags")>>),
     Given("delete_vm", <<Cid(g1)>>), Given("delete_stemcell", <<Cid(i1)>>),
     Given("info", <<>>), Given("ping", <<Cid(g1)>>)}

Bad ==
    {[Given("reboot_vm", <<Cid(g1)>>) EXCEPT !.form = f] :
        f \in {"no JSON", "no method", "no arguments"}}
    \cup {[Given("reboot_vm", <<Cid(g1)>>) EXCEPT !.config = f] :
        f \in {"no file", "bad JSON", "bad plugin", "bad softlayer", "bad agent", "bad registry"}}
    \cup {Given("current_vm_id", <<>>), Given("configure_networks", <<Cid(g1), Object("tags")>>),
          Given("reboot_vm", <<>>), Given("reboot_vm", <<Arg("string", "vm")>>),
          Given("set_vm_metadata", <<Cid(g1), Object("untagged")>>),
          Given("set_disk_metadata", <<Cid(d1), Arg("null", "")>>),
          Given("create_stemcell", <<Path, Object("elsewhere")>>),
          Given("create_disk", <<Size, Object("wdc"), Arg("null", "")>>),
          Given("create_disk", <<Size, Arg("null", ""), Cid(0)>>),
          Given("create_disk", <<Size, Object("wdc"), Arg("string", "vm")>>)}

Both == [c \in Call |-> IF c = c1 THEN Sharing \cup Other \cup Bad ELSE Sharing]
=============================================================================
