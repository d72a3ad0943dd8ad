---------------------------- MODULE MCClientView ----------------------------
(* Instances of ClientView for TLC: three squares in a row.                *)
EXTENDS ClientView

St(id, from, to, take, others) ==
    [id |-> id, from |-> from, to |-> to, take |-> take, others |-> others]

MCHome == ("w1" :> "a") @@ ("w2" :> "c") @@ ("b1" :> "b")
MCWhite == {"w1", "w2"}
MCBulkVictims == {{"w2"}, {}}
MCSteps ==
    {St("w1", "a", "b", "must", {}), St("w1", "b", "a", "may", {}),
     St("w2", "c", "a", "may", {}),
     St("w1", "a", "b", "never", {[id |-> "w2", from |-> "c", to |-> "a"]}),
     St("b1", "b", "a", "may", {})}
=============================================================================
