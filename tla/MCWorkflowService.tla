------------------------- MODULE MCWorkflowService -------------------------
EXTENDS WorkflowService

OneOfEach == <<"NoRequest", "Request", "PortalNotification">>
=============================================================================
