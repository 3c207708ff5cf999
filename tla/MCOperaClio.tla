---------------------------- MODULE MCOperaClio -----------------------------
EXTENDS OperaClio

\* The pair is started as a whole; each of its flags is also written alone.
MCPair ==
  {<<0, "decrement">>, <<0, "reload">>,
   <<1, "decrement">>, <<1, "reload">>, <<1, "cascade">>}
MCCtrlMasks ==
  {MCPair, {<<0, "cascade">>}, {<<0, "decrement">>}, {<<1, "decrement">>},
   {<<1, "reload">>}}
MCIrqMasks == {{10}}
MCIrq1Masks == {{0}}
=============================================================================
