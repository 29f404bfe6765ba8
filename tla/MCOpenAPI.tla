----------------------------- MODULE MCOpenAPI ------------------------------
(***************************************************************************)
(* The instance of OpenAPI on its own.                                     *)
(***************************************************************************)
EXTENDS OpenAPI, OpenAPICases
=============================================================================
