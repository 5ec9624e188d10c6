---------------------------- MODULE MCHostUpdate ----------------------------
EXTENDS HostUpdate

CONSTANTS web, worker

MCUnits == {web, worker}

\* The environment file of the web node, with or without a worker.
MCFiles == {{web}, {web, worker}}

WebOnly == {web}

MCWeb == web
=============================================================================
