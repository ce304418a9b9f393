--------------------------- MODULE RolePermissions ---------------------------
(***************************************************************************)
(* Roles and their permissions.  The repository keeps the table three      *)
(* times: for the callables, for the client and for the Firestore rules.   *)
(***************************************************************************)

\* SUPPORTED_ROLES; "user" stands for an account without the claim.
Role == {"user", "support", "moderator", "operations_admin", "safety_admin", "super_admin"}
ADMIN_CONSOLE_ROLES == Role \ {"user", "support"}

Permission == {"view_operations", "view_safety_declarations", "moderate_listings",
               "manage_safety_reviews", "manage_mediation_cases",
               "place_administrative_holds", "restrict_accounts",
               "assign_roles", "view_audit_logs"}

\* The callables' table, PermissionGuard.
GuardPermissions(role) ==
    CASE role = "moderator" -> {"view_safety_declarations", "moderate_listings"}
      [] role = "operations_admin" ->
            {"view_operations", "manage_mediation_cases", "place_administrative_holds"}
      [] role = "safety_admin" ->
            {"view_safety_declarations", "moderate_listings", "manage_safety_reviews",
             "place_administrative_holds", "restrict_accounts"}
      [] role = "super_admin" -> Permission
      [] OTHER -> {}

\* The client's table, which decides what the console shows.
ClientPermissions(role) ==
    CASE role = "super_admin" -> Permission
      [] role = "safety_admin" ->
            Permission \ {"view_operations", "manage_mediation_cases", "assign_roles",
                          "view_audit_logs"}
      [] role = "operations_admin" ->
            {"view_operations", "manage_mediation_cases", "place_administrative_holds"}
      [] role = "moderator" -> {"view_safety_declarations", "moderate_listings"}
      [] role \in {"user", "support"} -> {}

\* The rules' helpers: the roles that have a permission.
RulesRoles ==
    [view_operations            |-> {"operations_admin", "super_admin"},
     view_safety_declarations   |-> {"moderator", "safety_admin", "super_admin"},
     moderate_listings          |-> {"moderator", "safety_admin", "super_admin"},
     manage_safety_reviews      |-> {"safety_admin", "super_admin"},
     manage_mediation_cases     |-> {"operations_admin", "super_admin"},
     place_administrative_holds |-> {"operations_admin", "safety_admin", "super_admin"},
     restrict_accounts          |-> {"safety_admin", "super_admin"},
     assign_roles               |-> {"super_admin"},
     view_audit_logs            |-> {"super_admin"}]
=============================================================================
