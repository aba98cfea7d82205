\* Two threads and a worker, five nodes: two handles, the objects behind them,
\* and a scene.
SPECIFICATION Spec
SYMMETRY Symmetry
CONSTANTS
  Threads = {t1, t2}
  Worker = w
  Shape = Shape
  Primitive = Primitive
  Scene = Scene
  MaxObjects = 5
  MaxOwned = 1
  None = None
INVARIANTS NoUseAfterDelete UsersKeepAlive CountsAreExact
