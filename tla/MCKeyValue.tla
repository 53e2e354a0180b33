---------------------------- MODULE MCKeyValue ----------------------------
(* KeyValue for TLC: one value under the prefix that gets deleted. *)
EXTENDS KeyValue

MCKeys == {<<1, 1>>}
MCPrefixes == {<<1>>}
=============================================================================
