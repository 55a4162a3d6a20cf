----------------------------- MODULE MCBlobmsg ------------------------------
EXTENDS Blobmsg

MCNameLen == [n \in Names |-> CASE n = "" -> 0 [] n = "bb" -> 2]
MCFields == {[type |-> "int8", len |-> 1, nul |-> FALSE], [type |-> "string", len |-> 5, nul |-> TRUE],
             [type |-> "string", len |-> 1, nul |-> FALSE]}
MCPolicy == <<[name |-> "bb", type |-> "string"], [name |-> "bb", type |-> "cast_int64"],
              [name |-> "", type |-> "unspec"]>>
MCArrayPolicy == <<"string", "unspec">>
MCInfo == [x |-> [type |-> "string", minlen |-> 6, maxlen |-> 0],
           y |-> [type |-> "binary", minlen |-> 0, maxlen |-> 8]]
=============================================================================
