-------------------------- MODULE MCStreamDelivery --------------------------
(***************************************************************************)
(* Upstream streams for the runs: thinking, text, tool calls whose pieces  *)
(* come in one event or in several, named by index or by id, a finish with *)
(* and without usage, and what only OpenAI's adapters accept: a call whose *)
(* function is no object.                                                  *)
(***************************************************************************)
EXTENDS StreamDelivery

Piece(i, d, name, args) ==
    [index |-> i, id |-> d, name |-> name, args |-> args, bare |-> FALSE]

Bare(i, d) == [Piece(i, d, None, << >>) EXCEPT !.bare = TRUE]

MCEvents == {
    [Event EXCEPT !.kind = "note"],
    [Event EXCEPT !.kind = "error"],
    [Event EXCEPT !.kind = "broken", !.text = <<"x">>, !.tools = <<Bare(2, "b")>>],
    [Event EXCEPT !.role = TRUE, !.think = <<"m">>],
    [Event EXCEPT !.think = <<"n">>, !.text = <<"u">>],
    [Event EXCEPT !.tools = <<Piece(2, "a", "f", <<"{", "}">>),
                              Piece(None, "b", "g", <<"{">>)>>],
    [Event EXCEPT !.tools = <<Piece(None, None, None, <<"}">>)>>,
                  !.finish = "content_filter"],
    [Event EXCEPT !.text = <<"v">>, !.finish = "stop", !.usage = TRUE]}
=============================================================================
