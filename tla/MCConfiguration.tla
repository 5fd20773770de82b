-------------------------- MODULE MCConfiguration --------------------------
(***************************************************************************)
(* Small instances of Configuration for TLC. The system has a nameserver   *)
(* of its own and a search list, or two nameservers, or could not be read  *)
(* but for its hosts file. Explicit nameservers are a plain one and one    *)
(* for DNS over HTTPS with a name; a fallback one may share that name.     *)
(***************************************************************************)
EXTENDS Configuration

At(host, protocol, name) == Server(<<host, "v4">>, protocol, name)
Entry(h, d, family, addr) == [name |-> <<h, d>>, family |-> family, addr |-> addr]

Unread == [servers |-> <<>>, search |-> <<>>, ndots |-> Unset,
           hosts |-> {Entry("relay", "", "v4", "x1")}]
Office == [servers |-> << At("s1", "udp", Unnamed) >>, search |-> <<"lan", "--", "lan">>,
           ndots |-> Unset,
           hosts |-> {Entry("relay", "lan", "v4", "x2"), Entry("relay", "", "v4", "x1"),
                      Entry("localhost", "", "v6", "x3")}]
Home == [servers |-> << At("s2", "udp", Unnamed), At("s3", "udp", Unnamed) >>,
         search |-> <<"lan">>, ndots |-> 2, hosts |-> {Entry("relay", "lan", "v6", "x4")}]
Networks == {Unread, Office, Home}
Nothing == [servers |-> <<>>, search |-> <<>>, ndots |-> Unset, hosts |-> {}]

Plain == At("e1", "udp", Unnamed)
Named == At("e2", "https", "quad")
NamedToo == At("f1", "https", "nine")
SameName == At("f2", "https", "quad")

ExplicitLists == {<<Plain>>, <<Named>>}
Merges == {<< <<NamedToo>>, <<Plain, At("f3", "udp", Unnamed)>>, <<>> >>}
SharedMerges == {<< <<SameName>> >>}
Selections == {<<"quad9">>, <<"cloudflare", "google">>, <<"cloudflare", "google", "quad9">>}

Hosts == {"relay", "relay.", "localhost"}
LabelCounts == [h \in Hosts |-> IF h = "relay." THEN 2 ELSE 1]
WithoutDot == [h \in Hosts |-> IF h = "relay." THEN "relay" ELSE h]
Invalid == Hosts \X {"--"}
=============================================================================
