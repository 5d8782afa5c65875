---------------------------- MODULE TemplateStore ----------------------------
(***************************************************************************)
(* The row of one template in the sandbox_templates table, and the         *)
(* statements that write it.  An image reference is the image it names; a  *)
(* registered base image is the registration that brought it.  Names,      *)
(* environments and commands are left out.                                 *)
(***************************************************************************)
CONSTANTS Images,    \* image references a build can produce
          Gateways,  \* runtime-gateway pods
          Regs,      \* requests that register the template
          None

Row == [exists : BOOLEAN,
        base   : Images \cup Regs \cup {None},   \* base_image
        warm   : Images \cup {None},             \* warm_snapshot_image
        reg    : Images \cup {None},             \* registry_image_ref: whose copy
        owner  : Gateways \cup {None},           \* materialized_gateway_instance_id
        error  : BOOLEAN,                        \* build_error
        source : Regs \cup {None}]               \* the stored Dockerfile

NoRow == [exists |-> FALSE, base |-> None, warm |-> None, reg |-> None,
          owner |-> None, error |-> FALSE, source |-> None]

\* upsert_sandbox_template leaves the columns of the build source alone.
Upsert(row, b) ==
  [row EXCEPT !.exists = TRUE, !.base = b, !.warm = None, !.reg = None,
              !.owner = None, !.error = FALSE]

\* set_template_image_refs and set_template_warm_snapshot: UPDATE ... WHERE
\* template_id, so a row that is gone stays gone.
SetImageRefs(row, w, r, g, e) ==
  IF row.exists
  THEN [row EXCEPT !.warm = w, !.reg = r, !.owner = g, !.error = e]
  ELSE row
\* mutant: the snapshot is stored without the registry column
SetWarmOnly(row, w, r, g) ==
  IF row.exists
  THEN [row EXCEPT !.warm = w, !.owner = g, !.error = FALSE]
  ELSE row
SetWarmSnapshot(row, w, r, g) == SetImageRefs(row, w, r, g, FALSE)
SetBuildError(row) ==
  IF row.exists THEN [row EXCEPT !.warm = None, !.error = TRUE] ELSE row
\* mutant: an upsert instead of an update
SetBuildSourceAlways(row, r) == [row EXCEPT !.source = r]
SetBuildSource(row, r) ==
  IF row.exists THEN [row EXCEPT !.source = r] ELSE row

HasRefs(row) == row.warm # None \/ row.reg # None
=============================================================================
