\* A handler behind require_auth_middleware.
SPECIFICATION Spec
CONSTANTS
  Requests = {r1}
  Tokens = {t1}
  None = None
  Configs <- DefaultConfig
  Jars <- AnyJar
  Operations <- MCOperations
  Layers <- LoginOpenRestRequired
INVARIANT HandlerSeesRequest
