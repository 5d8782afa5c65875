-------------------------- MODULE MCTemplateImages --------------------------
(* TemplateImages on small instances.                                       *)
EXTENDS TemplateImages
=============================================================================
