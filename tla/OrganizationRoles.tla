------------------------- MODULE OrganizationRoles -------------------------
(***************************************************************************)
(* The roles in an organization, and which of them a role may give and     *)
(* take: the part that server and browser share.                           *)
(***************************************************************************)
Roles == {"owner", "admin", "member"}

ORG_INVITATION_PERMISSIONS ==
  [owner |-> Roles, admin |-> {"admin", "member"}, member |-> {}]

=============================================================================
