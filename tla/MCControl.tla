------------------------------ MODULE MCControl ------------------------------
EXTENDS Control

CONSTANTS c1, c2
=============================================================================
