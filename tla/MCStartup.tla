------------------------------ MODULE MCStartup ------------------------------
EXTENDS Startup
CONSTANTS p1, p2, c1, h1, h2
=============================================================================
