---------------------------- MODULE MC_Receipts ----------------------------
(* Receipts for TLC: two responses that share a prefix, in either hash     *)
(* domain, the second for the caller's request or for another one.         *)
EXTENDS Receipts

Data(name, payload) == [what |-> "data", name |-> name, payload |-> payload]

Sign(domain, data, mine) == [domain |-> domain, data |-> data, mine |-> mine]

MCIssued ==
    LET one == {Sign("sse-data-v1", <<Data("", "a"), Data("", "b")>>, TRUE),
                Sign("sse-events-v1", <<Data("named", "a"), Data("", "a")>>, TRUE)}
        two == {Sign("sse-data-v1", <<Data("", "a")>>, mine) : mine \in BOOLEAN}
    IN  {[id \in ReceiptIds |-> IF id = "one" THEN first ELSE second] :
            <<first, second>> \in one \X two}
=============================================================================
