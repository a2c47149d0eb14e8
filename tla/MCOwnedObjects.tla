--------------------------- MODULE MCOwnedObjects ---------------------------
(* A small instance of OwnedObjects: a template behind an ingress, without *)
(* one, and another template behind a load balancer.                       *)
EXTENDS OwnedObjects

CONSTANTS t1, t2

MCFirstSpecs == {[UseServiceLoadBalancer |-> FALSE, Ingress |-> TRUE, Template |-> t1]}

MCSpecs ==
    MCFirstSpecs \cup
    {[UseServiceLoadBalancer |-> FALSE, Ingress |-> FALSE, Template |-> t2],
     [UseServiceLoadBalancer |-> TRUE, Ingress |-> TRUE, Template |-> t2]}

=============================================================================
