------------------------------- MODULE MCSyncers -------------------------------
(* Small instances of Syncers. *)
EXTENDS Syncers, TLC

CONSTANTS v1, v2, n1, Big, small, prod, test, mine

ById == v1 :> v1 @@ v2 :> v2 @@ n1 :> n1 @@ Big :> small @@ small :> small

Vpc(cloud, id, title) == [kind |-> "VPC", cloud |-> cloud, id |-> id, title |-> title]
Site(id) == [kind |-> "Site", cloud |-> "none", id |-> id, title |-> prod]
Vpn(id) == [kind |-> "VPN", cloud |-> "none", id |-> id, title |-> prod]
Domain(name, label) == [kind |-> "NetworkDomain", name |-> name, spec |-> Vpn(n1), label |-> label]

TwoClouds == <<"aws", "gcp">>
SixKinds == <<"Instance", "Site", "Subnet", "VPC", "VPN", "NetworkDomain">>
VpcsFirst == <<"VPC", "VPN", "NetworkDomain">>
OnlyVpcs == <<"VPC">>

None == [x \in Budgets |-> 0]

\* A site, a VPC and a VPN that come and go, and the domains of a user, one
\* of which has the name that the VPN's has.
Proper == {Site(Big), Vpc("aws", v1, prod), Vpn(n1)}
Labelled == {Domain(<<mine>>, "other"), Domain(VpnDomainName(Vpn(n1)), "other")}
Some == [None EXCEPT !["churn"] = 2, !["user"] = 2, !["fault"] = 1, !["crash"] = 1]

\* The name of a VPC changes in the cloud.
Renamed == {Vpc("aws", v1, prod), Vpc("aws", v1, test)}
\* The id of a VPC has a capital letter in it.
Capital == {Vpc("aws", v1, prod), Vpc("aws", Big, prod)}
TwoMoves == [None EXCEPT !["churn"] = 2]

\* A user's domain has no labels at all.
Unlabelled == {Domain(<<mine>>, "none")}
OneUser == [None EXCEPT !["user"] = 1]
Nothing == {}
=============================================================================
