---------------------------- MODULE MCAdmission ----------------------------
(* Instances of Admission for TLC. *)
EXTENDS Admission

\* Nothing mentioned; Cluster API instead of HyperShift, by its preview; a preview with
\* hypershift turned off, and its local hosting not mentioned.
Plain == Unset
ClusterAPIOnly == [Unset EXCEPT !["HyperShift"] = "off", !["LocalHosting"] = "off",
                                !["Preview"] = "on"]
HyperShiftOff == [Unset EXCEPT !["HyperShift"] = "off", !["Preview"] = "on"]

SomeRequests == {Plain, ClusterAPIOnly}
PreviewRequests == SomeRequests \cup {HyperShiftOff}

\* One component of each family, and the others.
SomeComponents == Components \ {"LocalHosting", "ClusterAPI"}
=============================================================================
