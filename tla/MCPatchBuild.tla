---------------------------- MODULE MCPatchBuild ----------------------------
(* Instance: any one anchor drifts, or any one line of order.txt is moved     *)
(* anywhere or left out, or repeated as the name of a file that is not there. *)
EXTENDS PatchBuild

Without(i) == RemoveAt(OrderTxt, i)
AllOrders == UNION {{InsertAt(Without(i), j, OrderTxt[i]) : j \in 1..Len(OrderTxt)}
                       : i \in 1..Len(OrderTxt)}
             \cup {Without(i) : i \in 1..Len(OrderTxt)}
             \cup {Append(OrderTxt, "no such patch")}
AllDrifts == Anchors
=============================================================================
