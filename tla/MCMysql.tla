------------------------------ MODULE MCMysql -------------------------------
(***************************************************************************)
(* MysqlClient for TLC: one statement with a result set and no parameters, *)
(* one with parameters and no result set.                                  *)
(***************************************************************************)
EXTENDS MysqlClient

MCStatements == {"sel", "upd"}
MCWithParams == {"upd"}
MCWithFields == {"sel"}
=============================================================================
