------------------------------ MODULE MCWebStatus ------------------------------
\* Five graphs over one file and one port, one library name, and plugins
\* directories that give all of the stages, some of them, or a refusal.
EXTENDS WebStatus

Dump      == [kind |-> "dump_binary", path |-> "out"]
Text      == [kind |-> "dump_text", path |-> "out"]
Udp(port) == [kind |-> "forward_udp", port |-> port]
Null      == [kind |-> "null_sink"]

MCGraph == {<<Dump, Udp("p")>>, <<Udp("p"), Udp("p")>>, <<Null, Dump, Text>>, <<Udp("any")>>, <<Dump, Null>>}

\* A node whose output leads nowhere, or whose input does not come from anywhere.
MCSoundGraph == MCGraph \ {<<Dump, Null>>}

\* A ring_size that is no power of two.
MCRingGraph == MCGraph \ {<<Udp("any")>>}

File(fate, stages) == [fate |-> fate, stages |-> stages]

MCDirectory ==
  { <<File("loomlet", <<"dump_text", "none", "forward_udp">>), File("single", <<"dump_binary">>)>>,
    <<File("rejected", <<>>), File("single", <<"none">>), File("loomlet", <<"null_sink", "dump_binary", "dump_text">>)>>,
    <<File("unopened", <<>>)>>,
    <<File("loomlet", <<"dump_binary", "forward_udp", "null_sink", "dump_text">>)>>,
    <<File("single", <<"null_sink">>), File("loomlet", <<"dump_binary", "null_sink">>)>> }
===============================================================================
