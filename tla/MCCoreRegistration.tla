------------------------ MODULE MCCoreRegistration ------------------------
(***************************************************************************)
(* Two classes of the engine, a Java one and a Kotlin one with a companion *)
(* object, and a class that an application may add as a plugin.            *)
(***************************************************************************)
EXTENDS CoreRegistration

CONSTANTS LGView, LuaForm, Plugin

MCClsArr == <<LGView, LuaForm>>
=============================================================================
