-------------------------------- MODULE MCStages --------------------------------
EXTENDS Stages, TLC

CheckMagic(pass) == [kind |-> "validate", require_magic |-> TRUE, pass_invalid |-> pass]
Cutting(mode, offset, width, pass) ==
  [kind |-> "extract", mode |-> mode, offset |-> offset, width |-> width, pass_invalid |-> pass]
Matching(offset, magic, mask) ==
  [kind |-> "byte_match", offset |-> offset, magic |-> magic, mask |-> mask, pass_invalid |-> FALSE]
Scaling == [kind |-> "convert", scale |-> 3, offset |-> 1, pass_invalid |-> FALSE]
Into(kind) == [kind |-> kind, path |-> TRUE, pass_invalid |-> FALSE]

\* In three chains one extract stage follows another: the second one's header is what
\* an earlier record left in the buffer, or lies in the first one's field and leads
\* it out of the buffer, or is there because the first one's field does not fit.  An
\* init() refuses the last three chains.
Chains == {
  <<CheckMagic(FALSE), Cutting("numeric", 0, 2, FALSE), Scaling, Into("dump_text")>>,
  <<CheckMagic(TRUE), Into("dump_binary")>>,
  <<Cutting("numeric", 1, 1, TRUE), Scaling, Into("null_sink")>>,
  <<Matching(2, <<0, 7>>, <<FALSE, TRUE>>), Into("forward_udp")>>,
  <<Cutting("bytes", 0, 3, FALSE), CheckMagic(FALSE), Into("dump_binary")>>,
  <<Cutting("bytes", 1, 1, TRUE), Into("ring_output")>>,
  <<Cutting("numeric", 0, 2, TRUE), Cutting("numeric", 0, 1, FALSE), Into("ring_output")>>,
  <<Cutting("bytes", 0, 3, FALSE), Cutting("numeric", 2, 2, FALSE), Into("dump_binary")>>,
  <<Cutting("bytes", 1, 2, TRUE), Cutting("numeric", 0, 1, FALSE), Scaling, Into("dump_text")>>,
  <<Cutting("numeric", 0, 3, FALSE), Scaling, Into("dump_text")>>,
  <<Matching(0, <<5, 6>>, <<TRUE>>), Into("null_sink")>>,
  <<CheckMagic(FALSE), [Into("dump_binary") EXCEPT !.path = FALSE]>> }

Raws == {[magic |-> Magic, payload |-> <<7, 8, 9>>], [magic |-> OtherMagic, payload |-> <<5>>]}
Symmetry == Permutations(Worker)
===============================================================================
