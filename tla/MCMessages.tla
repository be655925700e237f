----------------------------- MODULE MCMessages ------------------------------
(****************************************************************************)
(* Instances of Messages for TLC: two actors that talk to each other, and   *)
(* the node; "elsewhere" is an address of another process.                  *)
(****************************************************************************)
EXTENDS Messages

CONSTANTS p, s, node    \* the actors

Call(call, to, name, mode) ==
    [call |-> call, to |-> to, name |-> name, mode |-> mode]

Script(p_, s_, n_) == [a \in Actors |-> CASE a = p -> p_ [] a = s -> s_
                                        [] OTHER -> n_]

\* s subscribes twice to a topic of p, in any two modes, the node once; p
\* publishes there in any mode, then under another name, or the same.
PubSubScripts ==
    { Script(<<Call("Publish", None, "x", m1),
               Call("Publish", None, IF m1 = "kDDS" THEN "x" ELSE "y", "kIntra")>>,
             <<Call("Subscribe", p, "x", m2), Call("Subscribe", p, "x", m3)>>,
             <<Call("Subscribe", p, "x", "kIntra")>>) :
        m1, m2, m3 \in Modes }

\* p asks s, where in another mode than kIntra the node is asked as well, and
\* then nobody, or somebody elsewhere, or s again.
AskingScripts ==
    { Script(<<Call("Request", s, "q", "kHybrid"), second>>, <<>>, <<>>) :
        second \in {Call("Request", p, "q", "kIntra"),
                    Call("Request", "elsewhere", "q", "kDDS"),
                    Call("Send", "elsewhere", "q", "kHybrid")} }
    \cup { Script(<<Call("Request", s, "q", m),
                    Call("Request", s, "q", "kIntra")>>, <<>>, <<>>) :
              m \in {"kIntra", "kHybrid"} }

\* Two ask under the same id: p and s each other, or p and the node s, so that
\* an answer to p can find the callback of the node.
SameIdScripts ==
    { Script(<<Call("Request", s, "q", "kIntra")>>,
             <<Call("Request", p, "q", m)>>, <<>>) : m \in {"kIntra", "kHybrid"} }
    \cup { Script(<<Call("Request", s, "q", m)>>, <<>>,
                  <<Call("Request", s, "q", "kIntra")>>) : m \in Modes }

AllScripts == PubSubScripts \cup AskingScripts \cup SameIdScripts

=============================================================================
