----------------------------- MODULE MCLifecycle -----------------------------
(* Instances of Lifecycle: an actor a, an actor b and a node n are loaded   *)
(* in any order; a sends to b in every mode, b or n may fail to load, and   *)
(* a second actor may have a name that is taken.                            *)
EXTENDS Lifecycle

CONSTANTS a, b, n, w1, w2, u1, q1

To(d, m) == [dst |-> d, mode |-> m]
Sender(ms) == [name |-> a, fails |-> FALSE, sends |-> ms]
Other(f) == [name |-> b, fails |-> f, sends |-> <<To(a, "kIntra")>>]
Net(f) == [name |-> n, fails |-> f, sends |-> <<To(b, "kHybrid")>>]

Talk == <<To(b, "kHybrid"), To(b, "kIntra"), To(b, "kDDS"), To(b, "kHybrid")>>

Orders(x, y, z) == {<<x, y, z>>, <<x, z, y>>, <<y, x, z>>, <<y, z, x>>,
                    <<z, x, y>>, <<z, y, x>>}

Loads ==
    UNION {Orders(Sender(Talk), Other(fg[1]), Net(fg[2])) :
               fg \in (BOOLEAN \X BOOLEAN) \ {<<TRUE, TRUE>>}}
    \cup {<<Sender(Talk), Other(FALSE), Other(FALSE)>>,
          <<Net(TRUE), Net(FALSE), Sender(Talk)>>}

(* An actor that is added while messages to it arrive.                      *)
LateLoads == {<<Other(FALSE)>>}
=============================================================================
