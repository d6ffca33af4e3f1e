------------------------------ MODULE MCSession ------------------------------
(***************************************************************************)
(* Model checking of Session with a handful of bodies and small limits.    *)
(***************************************************************************)
EXTENDS Session

Body(has, good, id, method, items, value) ==
  [shape |-> "object", version |-> TRUE, has |-> has, good |-> good, id |-> id,
   method |-> method, items |-> items, value |-> value, length |-> 1]

NoItems == [array |-> FALSE, list |-> << >>]
Items(list) == [array |-> TRUE, list |-> list]
Answer(id, value) ==
  Body({"id", "result"}, {"id", "result"}, id, "", NoItems, value)
Capabilities(symbols) ==
  [kind |-> "initialize", symbols |-> symbols, sync |-> "full", encoding |-> "none"]
Array == [kind |-> "array"]

MCBodies ==
  {Answer(1, Capabilities(TRUE)), Answer(2, Array), Answer(3, Null),
   [Body({"method"}, {"method"}, 0, "progress", NoItems, Null) EXCEPT !.length = 2],
   Body({"method", "id", "params"}, {"method", "id", "params"}, 0,
        "workspace/configuration",
        Items(<<[good |-> TRUE, section |-> <<"a", "b">>]>>), Null)}

MCUnframed == {<<BadByte>>, <<HeaderByte, HeaderEnd(MaxInboundBodyBytes + 1)>>}

Leaf == [bytes |-> 1, members |-> << >>]
Settings == [bytes |-> 2, members |-> [a |-> [bytes |-> 1, members |-> [b |-> Leaf]]]]
Input(source, settings) == [source |-> source, options |-> 0, settings |-> settings]

\* One that fits, one too large for a frame, and one too large at all.
MCInputs == {Input(1, Settings), Input(2, Settings), Input(3, NoSettings)}
=============================================================================
