---------------------------- MODULE MCPluginHub ----------------------------
(* Small instances of PluginHub for TLC: two plugins and an editor.        *)
EXTENDS PluginHub

CONSTANTS p1, p2, e1
=============================================================================
