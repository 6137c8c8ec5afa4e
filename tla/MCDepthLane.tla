---------------------------- MODULE MCDepthLane -----------------------------
EXTENDS DepthLane
====
