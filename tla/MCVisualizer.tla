---------------------------- MODULE MCVisualizer ----------------------------
(* The visualizer with two speeds and a program that stops itself once and    *)
(* raises two pause messages.                                                 *)
EXTENDS Visualizer

MCScript == <<[at |-> 1, kind |-> "Stop"], [at |-> 1, kind |-> "Pause"],
              [at |-> 2, kind |-> "Plain"], [at |-> 3, kind |-> "Pause"]>>
=============================================================================
