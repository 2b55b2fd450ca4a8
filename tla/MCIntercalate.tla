---------------------------- MODULE MCIntercalate ----------------------------
(***************************************************************************)
(* Instances of Intercalate: every interface implements any sequence of up *)
(* to MaxImplements interfaces, itself, repeated or undeclared ones        *)
(* included, and all of them together MaxStatements.  With four of each, a *)
(* diamond, two crossing chains and every circle is among them.            *)
(***************************************************************************)
EXTENDS Intercalate, FiniteSetsExt

CONSTANTS MaxImplements,    \* bound on the IMPLEMENTS nodes of an interface
          MaxStatements     \* bound on those of all interfaces

MCInit ==
  /\ declared \in [Iface -> UNION {[1 .. k -> Iface \cup {Undeclared}] :
                                   k \in 0 .. MaxImplements}]
  /\ MapThenSumSet(LAMBDA a : Len(declared[a]), Iface) <= MaxStatements
  /\ Init

MCSpec == MCInit /\ [][Next]_vars /\ WF_vars(Next)
=============================================================================
