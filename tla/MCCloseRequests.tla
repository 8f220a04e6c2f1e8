---------------------------- MODULE MCCloseRequests ---------------------------
(* CloseRequests for TLC: a request and its repetition under the same key, the *)
(* second with a payload that may not be readable; an old and a new worker.    *)
EXTENDS CloseRequests
MCEvents == 1 .. 2
MCKeyOf == <<"k", "k">>
MCKeys == {"k"}
MCFlaky == {2}
===============================================================================
